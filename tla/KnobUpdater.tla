----------------------------- MODULE KnobUpdater -----------------------------
(* The thread that keeps the timing knobs learned (KnobUpdater,               *)
(* services/knob_updater.py): the worker notifies it of a run whose timing is *)
(* stored, it waits until no run is generating, reads the store and makes one *)
(* update (KnobLearning) of all it read; an update from the command line may  *)
(* come between.  Runs are numbered in the order they complete.               *)
EXTENDS Naturals, FiniteSets

CONSTANTS
  MaxRuns,     \* bound: runs
  MaxRejects   \* bound: updates refused by a busy lock, an edit or an error

VARIABLES
  store,    \* the store's complete runs
  running,  \* the worker: "quiet", "running", or "ending" once the timing is stored
  begun,    \* runs begun
  open,     \* a job has not finished
  thread,   \* "wait", "polling", "update", "ended"
  wake, stop,
  snap, cli,  \* the runs the thread read, and a command-line update
  learned,  \* the runs in the ring
  rejects,
  missed    \* history: the runs a refused update read

updaterVars == <<store, running, begun, open, thread, wake, stop, snap, cli, learned, rejects, missed>>
workerVars == <<store, running, begun, open>>
outsideVars == <<cli, learned, rejects, missed>>

NoCli == {0}   \* no command-line update under way

------------------------------------------------------------------------------
(* The worker.                                                                *)

StartRun ==
  /\ running = "quiet" /\ ~stop /\ begun < MaxRuns
  /\ running' = "running" /\ begun' = begun + 1 /\ open' = TRUE
  /\ UNCHANGED <<store, thread, wake, stop, snap, outsideVars>>

\* TimingFinished: the recorder's row first, then notify; a failed run has neither.
EndRun(complete) ==
  /\ running = "running" /\ running' = "ending"
  /\ store' = IF complete THEN store \cup {begun} ELSE store
  /\ wake' = (wake \/ complete)
  /\ UNCHANGED <<begun, open, thread, stop, snap, outsideVars>>

\* RunFinished: between two runs; or JobFinished too, which notifies again.
FinishedRun(last) ==
  /\ running = "ending" /\ running' = "quiet"
  /\ open' = ~last /\ wake' = (wake \/ last)
  /\ UNCHANGED <<store, begun, thread, stop, snap, outsideVars>>

\* Retention, or a deletion.
PruneRuns ==
  /\ running = "quiet" /\ ~open
  /\ \E n \in store : store' = {k \in store : k > n}
  /\ UNCHANGED <<running, begun, open, thread, wake, stop, snap, outsideVars>>

\* QueueWorker.is_quiet: idle, held, cooling down, or between two runs.
IsQuiet == running = "quiet"

------------------------------------------------------------------------------
(* The thread.                                                                *)

Wake ==
  /\ thread = "wait" /\ wake
  /\ IF stop THEN thread' = "ended" /\ UNCHANGED wake
             ELSE thread' = "polling" /\ wake' = FALSE
  /\ UNCHANGED <<workerVars, stop, snap, outsideVars>>

\* The queue is quiet, or the server stops; runs_of_store.
Read ==
  /\ thread = "polling" /\ (stop \/ IsQuiet)
  /\ thread' = IF stop THEN "ended" ELSE "update"
  /\ snap' = IF stop THEN snap ELSE store
  /\ UNCHANGED <<workerVars, wake, stop, outsideVars>>

\* A run the ring has seen, or one older, is not new.
NewRuns(runs) == {n \in runs : \A k \in learned : n > k}

\* Mutant: the flag is cleared once the update is made.
Update_Clears ==
  /\ thread = "update" /\ thread' = (IF stop THEN "ended" ELSE "wait") /\ snap' = {}
  /\ learned' = learned \cup NewRuns(snap) /\ wake' = FALSE
  /\ UNCHANGED <<workerVars, stop, cli, rejects, missed>>

\* KnobUpdateEngine.update raises nothing: refused, the files are as they were.
UpdateKnobs ==
  /\ thread = "update" /\ thread' = (IF stop THEN "ended" ELSE "wait") /\ snap' = {}
  /\ \/ learned' = learned \cup NewRuns(snap) /\ UNCHANGED <<rejects, missed>>
     \/ rejects < MaxRejects /\ rejects' = rejects + 1 /\ missed' = missed \cup snap /\ UNCHANGED learned
  /\ UNCHANGED <<workerVars, wake, stop, cli>>

\* KnobUpdater.stop.
Stop ==
  /\ ~stop /\ stop' = TRUE /\ wake' = TRUE
  /\ UNCHANGED <<workerVars, thread, snap, outsideVars>>

\* update_now (fc timing knobs update): it reads the store, then takes the lock.
CliRead ==
  /\ cli = NoCli /\ cli' = store
  /\ UNCHANGED <<workerVars, thread, wake, stop, snap, learned, rejects, missed>>

CliUpdate ==
  /\ cli # NoCli /\ cli' = NoCli
  /\ learned' = learned \cup NewRuns(cli)
  /\ UNCHANGED <<workerVars, thread, wake, stop, snap, rejects, missed>>

------------------------------------------------------------------------------

UpdaterInit ==
  /\ store = {} /\ running = "quiet" /\ begun = 0 /\ open = FALSE
  /\ thread = "wait" /\ wake = FALSE /\ stop = FALSE
  /\ snap = {} /\ cli = NoCli /\ learned = {} /\ rejects = 0 /\ missed = {}

WorkerStep == StartRun \/ \E b \in BOOLEAN : EndRun(b) \/ FinishedRun(b)
Thread == Wake \/ Read \/ UpdateKnobs
UpdaterNext == WorkerStep \/ Thread \/ PruneRuns \/ Stop \/ CliRead \/ CliUpdate

\* The thread goes on whenever it can, and a run that began ends.
Fairness ==
  /\ WF_updaterVars(Thread)
  /\ WF_updaterVars(\E b \in BOOLEAN : EndRun(b) \/ FinishedRun(b))

UpdaterSpec == UpdaterInit /\ [][UpdaterNext]_updaterVars /\ Fairness

\* A run that completed is learned from in the end, however its notification
\* meets an update under way; unless its update was refused, or the server stops.
RunsLearned == <>[](store \subseteq learned \cup missed \/ stop)
=============================================================================
