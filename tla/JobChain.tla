------------------------------ MODULE JobChain -------------------------------
(* The chain of runs of one job: JobExecutor._run_runs and its cooldown       *)
(* (jobs/executor.py), step by step as its own thread takes them, while other *)
(* threads cancel, park and unpark the job through the CancelToken.           *)
(*                                                                            *)
(* pc names the next statement of the executing thread; two reads that the    *)
(* code makes one after the other without a common lock are two steps.        *)
EXTENDS CancelToken

CONSTANTS
  TotalRuns,      \* runs in the chain (chain.total)
  MaxParks,       \* bound: parks asked of one job
  SavesMayFail    \* whether writing the manifest may raise (disk full, ...)

ASSUME ChainAssumption ==
  /\ TotalRuns \in Nat \ {0}
  /\ MaxParks \in Nat
  /\ SavesMayFail \in BOOLEAN

VARIABLES
  pc,         \* the executing thread's next step
  token,      \* the executor's CancelToken
  first,      \* the chain's first run (1, or the resume point's)
  run,        \* the run the loop is at
  completed,  \* the last run that succeeded; first - 1 before any
  parks,      \* the park count the cooldown compares with
  cooled,     \* whether the wait before `run` was waited out
  outcome     \* the manifest's status: running until the chain ends

chainVars == <<pc, token, first, run, completed, parks, cooled, outcome>>

Runs == 1 .. TotalRuns
Outcomes == {"running", "succeeded", "failed", "interrupted", "parked"}
ChainSteps == {"enter", "checkStop", "checkPark", "prepare", "attach", "attachCheck",
               "child", "finish", "readParks", "afterStop", "afterPark",
               "between", "cooling", "coolStop", "coolPark", "coolCount",
               "coolRest", "coolEnd", "save", "jobFinished"}

ChainTypeOK ==
  /\ token \in Token
  /\ first \in Runs
  /\ run \in Runs
  /\ completed \in 0 .. TotalRuns
  /\ parks \in Nat
  /\ cooled \in BOOLEAN
  /\ outcome \in Outcomes

------------------------------------------------------------------------------
\* The loop is left with `status`, then the manifest is saved for the last time.
LeaveLoop(status) == outcome' = status /\ pc' = "save"

\* The loop variables as _run_runs sets them for a chain that starts at run f.
StartLoop(f) ==
  /\ first' = f
  /\ run' = f
  /\ completed' = f - 1
  /\ parks' = 0
  /\ cooled' = TRUE
  /\ outcome' = "running"

\* Before the loop: run 1's input is checked, which may raise.
EnterLoop ==
  /\ pc = "enter"
  /\ \/ LeaveLoop("failed")
     \/ pc' = "checkStop" /\ UNCHANGED outcome
  /\ UNCHANGED <<token, first, run, completed, parks, cooled>>

\* Mutant: a park is taken before the first run of this execution too.
CheckStop_ParkBeforeFirst ==
  /\ pc = "checkStop"
  /\ \/ token.signal /\ LeaveLoop("interrupted")
     \/ ~token.signal /\ pc' = "checkPark" /\ UNCHANGED outcome
  /\ UNCHANGED <<token, first, run, completed, parks, cooled>>

\* Top of the loop: a requested stop ends the job before this run.
CheckStop ==
  /\ pc = "checkStop"
  /\ \/ token.signal /\ LeaveLoop("interrupted")
     \/ /\ ~token.signal
        /\ pc' = IF run > first THEN "checkPark" ELSE "prepare"
        /\ UNCHANGED outcome
  /\ UNCHANGED <<token, first, run, completed, parks, cooled>>

\* A park that landed after a full cooldown, just before this run.
CheckPark ==
  /\ pc = "checkPark"
  /\ token' = TakePark(token)
  /\ \/ token'.taken /\ LeaveLoop("parked")
     \/ ~token'.taken /\ pc' = "prepare" /\ UNCHANGED outcome
  /\ UNCHANGED <<first, run, completed, parks, cooled>>

\* The handoff copy and the plan of the run; either may fail the job.
Prepare ==
  /\ pc = "prepare"
  /\ \/ LeaveLoop("failed")
     \/ pc' = "attach" /\ UNCHANGED outcome
  /\ UNCHANGED <<token, first, run, completed, parks, cooled>>

\* The run's runner is made and attached to the token ...
Attach ==
  /\ pc = "attach"
  /\ token' = AttachRunner(token)
  /\ pc' = "attachCheck"
  /\ UNCHANGED <<first, run, completed, parks, cooled, outcome>>

\* ... and shut down at once when a stop was requested before it was attached.
AttachStop ==
  /\ pc = "attachCheck"
  /\ token' = AttachCheck(token)
  /\ pc' = "child"
  /\ UNCHANGED <<first, run, completed, parks, cooled, outcome>>

\* The child ends and its runner is detached.  A runner that was told to shut
\* down reports the signal, unless the run had timed out, or its result was
\* read, first; one that was not told never does.
ChildEnds ==
  /\ pc = "child"
  /\ token' = DetachRunner(token)
  /\ \/ pc' = "finish" /\ UNCHANGED outcome
     \/ LeaveLoop("failed")
     \/ token.runner = "told" /\ LeaveLoop("interrupted")
  /\ UNCHANGED <<first, run, completed, parks, cooled>>

\* Mutant: the last run is followed by a boundary like any other.
FinishRun_NoLastRun ==
  /\ pc = "finish"
  /\ \/ LeaveLoop("failed") /\ UNCHANGED completed
     \/ completed' = run /\ pc' = "readParks" /\ UNCHANGED outcome
  /\ UNCHANGED <<token, first, run, parks, cooled>>

\* The output is finished (last frame, measuring).  A failure there reads as an
\* interruption when a stop was requested meanwhile.  Success is recorded, and
\* after the last run nothing can stop the job any more.
FinishRun ==
  /\ pc = "finish"
  /\ \/ LeaveLoop("failed") /\ UNCHANGED completed
     \/ token.signal /\ LeaveLoop("interrupted") /\ UNCHANGED completed
     \/ /\ completed' = run
        /\ \/ run < TotalRuns /\ pc' = "readParks" /\ UNCHANGED outcome
           \/ run = TotalRuns /\ LeaveLoop("succeeded")
           \/ run < TotalRuns /\ LeaveLoop("failed")  \* no verified handoff
  /\ UNCHANGED <<token, first, run, parks, cooled>>

\* The park count is read before the boundary's park check.
ReadParks ==
  /\ pc = "readParks"
  /\ parks' = token.count
  /\ pc' = "afterStop"
  /\ UNCHANGED <<token, first, run, completed, cooled, outcome>>

AfterStop ==
  /\ pc = "afterStop"
  /\ pc' = IF token.signal THEN "between" ELSE "afterPark"
  /\ UNCHANGED <<token, first, run, completed, parks, cooled, outcome>>

AfterPark ==
  /\ pc = "afterPark"
  /\ token' = TakePark(token)
  /\ \/ token'.taken /\ LeaveLoop("parked")
     \/ ~token'.taken /\ pc' = "between" /\ UNCHANGED outcome
  /\ UNCHANGED <<first, run, completed, parks, cooled>>

NextRun == run' = run + 1 /\ pc' = "checkStop"

\* _wait_between_runs: no wait when a stop is requested or the policy gives 0 s.
Between ==
  /\ pc = "between"
  /\ \/ token.signal /\ NextRun /\ cooled' = FALSE
     \/ ~token.signal /\ NextRun /\ cooled' = TRUE
     \/ ~token.signal /\ pc' = "cooling" /\ cooled' = FALSE /\ UNCHANGED run
  /\ UNCHANGED <<token, first, completed, parks, outcome>>

\* The wait runs its time ...
CoolElapsed ==
  /\ pc = "cooling"
  /\ cooled' = TRUE
  /\ pc' = "coolEnd"
  /\ UNCHANGED <<token, first, run, completed, parks, outcome>>

\* Mutant: the wait is woken by a stop only.
CoolWoken_StopOnly ==
  /\ pc = "cooling"
  /\ token.signal
  /\ pc' = "coolStop"
  /\ UNCHANGED <<token, first, run, completed, parks, cooled, outcome>>

\* Mutant: the wait is woken by a park only.
CoolWoken_ParkOnly ==
  /\ pc = "cooling"
  /\ token.park
  /\ pc' = "coolStop"
  /\ UNCHANGED <<token, first, run, completed, parks, cooled, outcome>>

\* ... or a stop or a standing park ends it early.
CoolWoken ==
  /\ pc = "cooling"
  /\ token.signal \/ token.park
  /\ pc' = "coolStop"
  /\ UNCHANGED <<token, first, run, completed, parks, cooled, outcome>>

CoolStop ==
  /\ pc = "coolStop"
  /\ pc' = IF token.signal THEN "coolEnd" ELSE "coolPark"
  /\ UNCHANGED <<token, first, run, completed, parks, cooled, outcome>>

CoolPark ==
  /\ pc = "coolPark"
  /\ token' = TakePark(token)
  /\ \/ token'.taken /\ LeaveLoop("parked")
     \/ ~token'.taken /\ pc' = "coolCount" /\ UNCHANGED outcome
  /\ UNCHANGED <<first, run, completed, parks, cooled>>

\* Mutant: a park that was withdrawn always ends the wait.
CoolCount_Ends ==
  /\ pc = "coolCount"
  /\ pc' = "coolEnd"
  /\ UNCHANGED <<token, first, run, completed, parks, cooled, outcome>>

\* A park was withdrawn: only one asked since the count was read is waited out.
CoolCount ==
  /\ pc = "coolCount"
  /\ pc' = IF token.count = parks THEN "coolEnd" ELSE "coolRest"
  /\ UNCHANGED <<token, first, run, completed, parks, cooled, outcome>>

CoolRest ==
  /\ pc = "coolRest"
  /\ parks' = token.count
  /\ pc' = "cooling"
  /\ UNCHANGED <<token, first, run, completed, cooled, outcome>>

CoolEnd ==
  /\ pc = "coolEnd"
  /\ \/ ~cooled /\ token.signal /\ LeaveLoop("interrupted") /\ UNCHANGED run
     \/ (cooled \/ ~token.signal) /\ NextRun /\ UNCHANGED outcome
  /\ UNCHANGED <<token, first, completed, parks, cooled>>

\* The manifest's last save; JobFinished is emitted after it.
Save ==
  /\ pc = "save"
  /\ pc' = "jobFinished"
  /\ UNCHANGED <<token, first, run, completed, parks, cooled, outcome>>

\* A save of the manifest that raises: the job ends failed (_run_chain).
SaveRaises ==
  /\ SavesMayFail
  /\ pc \in {"enter", "attach", "readParks", "cooling", "coolEnd", "save"}
  /\ outcome' = "failed"
  /\ pc' = "jobFinished"
  /\ UNCHANGED <<token, first, run, completed, parks, cooled>>

ChainThread ==
  \/ EnterLoop \/ CheckStop \/ CheckPark \/ Prepare \/ Attach \/ AttachStop
  \/ ChildEnds \/ FinishRun \/ ReadParks \/ AfterStop \/ AfterPark \/ Between
  \/ CoolElapsed \/ CoolWoken \/ CoolStop \/ CoolPark \/ CoolCount \/ CoolRest
  \/ CoolEnd \/ Save \/ SaveRaises

------------------------------------------------------------------------------
\* The callers, each on a thread of its own.
Cancel == token' = CancelCall(token)

Park == token.count < MaxParks /\ token' = ParkCall(token)

Unpark == UnparkAllowed(token) /\ token' = UnparkCall(token)

ChainCallers ==
  /\ Cancel \/ Park \/ Unpark
  /\ UNCHANGED <<pc, first, run, completed, parks, cooled, outcome>>

\* The executor's end(): callers find no job running.
EndJob ==
  /\ pc = "jobFinished"
  /\ token.running
  /\ token' = EndToken(token)
  /\ UNCHANGED <<pc, first, run, completed, parks, cooled, outcome>>

ChainInit ==
  /\ first \in Runs
  /\ pc = "enter"
  /\ token = BeginToken(IdleToken)
  /\ run = first
  /\ completed = first - 1
  /\ parks = 0
  /\ cooled = TRUE
  /\ outcome = "running"

ChainNext == ChainThread \/ EndJob \/ ChainCallers

\* The thread goes on.  A child that was told to shut down ends (the runner
\* kills it, then gives up on it); one that was not may run for ever.
ChainFairness ==
  /\ WF_chainVars(ChainThread /\ pc \notin {"child", "cooling"})
  /\ WF_chainVars(ChildEnds /\ token.runner = "told")
  /\ WF_chainVars(CoolWoken)

ChainSpec == ChainInit /\ [][ChainNext]_chainVars /\ ChainFairness

------------------------------------------------------------------------------
\* Type invariant of the chain run on its own.
TypeOK == ChainTypeOK /\ pc \in ChainSteps

\* CancelToken.unpark answers False "only once it has taken effect, when the job
\* ends parked anyway": a taken park is never withdrawn, and a job with one ends
\* parked (or failed, when its manifest cannot be saved), never with the stop,
\* the failure or the success another path would have given it.
TakenParkEndsParked ==
  /\ token.taken => token.park
  /\ token.taken /\ pc = "jobFinished" =>
       outcome = "parked" \/ (SavesMayFail /\ outcome = "failed")
  /\ outcome = "parked" => token.taken

\* A parked job can be resumed: it made at least one run of its own, and at
\* least one run of the chain is left (the park never follows the last run).
ParkedLeavesRuns ==
  outcome = "parked" => first <= completed /\ completed < TotalRuns

\* The race of cancel() with attach(): whichever of the two comes first, the
\* runner of a run in progress has been told of every requested stop.
StopReachesRunner == pc = "child" /\ token.signal => token.runner = "told"

\* A requested stop ends the job, wherever the chain stands when it lands, with
\* no help from the length of a run or of a cooldown.
StopEndsJob == token.signal ~> pc = "jobFinished"

\* A park that is not withdrawn ends the job once no run is in progress for
\* ever: a cooldown in progress ends at once, it is not waited out.
ParkEndsJob == <>[](token.park) /\ []<>(pc # "child") => <>(pc = "jobFinished")

\* executor.py:668, "A park withdrawn before it was taken leaves the rest to wait
\* out, so a job that runs on still gets its full cooldown": a job asked to park
\* once, wherever that park and its withdrawal land, starts no later run before
\* the wait is over.  A second park may fall between the two reads of the count
\* (executor.py:675-677) and is then taken for one already seen.
CooldownAfterOnePark ==
  pc = "child" /\ run > first /\ ~token.signal /\ token.count <= 1 => cooled

\* A park that took effect ends the job parked, with a run left to resume, every
\* stop reaches the runner of the run in progress and a park that came to nothing
\* costs no cooldown, whatever the order of cancel(), park(), unpark(), attach()
\* and the loop's own steps.
ChainSafe == TakenParkEndsParked /\ ParkedLeavesRuns /\ StopReachesRunner /\ CooldownAfterOnePark

\* What was asked of the job ends it: a stop, and a park that stands.
AskedJobEnds == StopEndsJob /\ ParkEndsJob
==============================================================================
