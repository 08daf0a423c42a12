---------------------------- MODULE MCProcesses ----------------------------
(* The threads and processes that must come to an end, or catch up: a job's *)
(* chain of runs, the start of a child and its supervision, the run lock,   *)
(* the event stream and the updater of the knobs.  They share no state here, *)
(* so each behaviour moves one of them, the part chosen at the start, and    *)
(* the others rest where they begin.                                         *)
EXTENDS JobChain, SpawnChild, ProcessRunner, RunLock, EventStream, KnobUpdater

VARIABLE part

processVars == <<part, chainVars, runnerVars, lockVars, vars, updaterVars, spawnVars>>

ProcessInit ==
    /\ part \in {"chain", "spawn", "runner", "lock", "stream", "updater"}
    /\ ChainInit /\ (part # "chain" => first = 1)
    /\ RunnerInit /\ (part # "runner" => timeout = 0)
    /\ LockInit
    /\ Init /\ (part # "stream" => ~wants_output)
    /\ UpdaterInit /\ SpawnInit

ProcessNext ==
    /\ UNCHANGED part
    /\ \/ part = "chain" /\ ChainNext /\ UNCHANGED <<runnerVars, lockVars, vars, updaterVars, spawnVars>>
       \/ part = "runner" /\ RunnerNext /\ UNCHANGED <<chainVars, lockVars, vars, updaterVars, spawnVars>>
       \/ part = "lock" /\ LockNext /\ UNCHANGED <<chainVars, runnerVars, vars, updaterVars, spawnVars>>
       \/ part = "stream" /\ Next /\ UNCHANGED <<chainVars, runnerVars, lockVars, updaterVars, spawnVars>>
       \/ part = "spawn" /\ SpawnNext /\ UNCHANGED <<chainVars, runnerVars, lockVars, vars, updaterVars>>
       \/ part = "updater" /\ UpdaterNext /\ UNCHANGED <<chainVars, runnerVars, lockVars, vars, spawnVars>>

(* The fairness of ChainSpec, RunnerFairSpec, FairSpec and UpdaterSpec, of   *)
(* the part that moves.                                                      *)
ProcessFairness ==
    /\ WF_chainVars(part = "chain" /\ ChainThread /\ pc \notin {"child", "cooling"})
    /\ WF_chainVars(part = "chain" /\ ChildEnds /\ token.runner = "told")
    /\ WF_chainVars(part = "chain" /\ CoolWoken)
    /\ WF_runnerVars(part = "runner" /\ RunnerStep) /\ WF_runnerVars(part = "runner" /\ Tick)
    /\ WF_vars(part = "stream" /\ WatchStep) /\ WF_vars(part = "stream" /\ FeedStep)
    /\ WF_updaterVars(part = "updater" /\ Thread)
    /\ WF_updaterVars(part = "updater" /\ \E b \in BOOLEAN : EndRun(b) \/ FinishedRun(b))

ProcessSpec == ProcessInit /\ [][ProcessNext]_processVars /\ ProcessFairness
=============================================================================
