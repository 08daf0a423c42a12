---------------------------- MODULE MCExecutions ----------------------------
(* What outlives a process: the chains of resumed executions, the queue's    *)
(* hold, and the state store's files.  A behaviour moves one of the three.   *)
EXTENDS ResumeChain, QueueHold, StateFiles, TLC

VARIABLE part

\* The program an opener runs: one at the schema that numbers executions, one newer.
MCKnows == "p" :> 3 @@ "q" :> 4

ExecutionsInit ==
    /\ part \in {"resume", "hold", "files"}
    /\ Init
    /\ HoldInit /\ (part # "hold" => row = NoRow)
    /\ StateInit /\ (part # "files" => StateStart({}))

ExecutionsNext ==
    /\ UNCHANGED part
    /\ \/ part = "resume" /\ Next /\ UNCHANGED <<holdVars, stateVars>>
       \/ part = "hold" /\ HoldNext /\ UNCHANGED <<vars, stateVars>>
       \/ part = "files" /\ StateNext /\ UNCHANGED <<vars, holdVars>>

ExecutionsSpec == ExecutionsInit /\ [][ExecutionsNext]_<<part, vars, holdVars, stateVars>>
=============================================================================
