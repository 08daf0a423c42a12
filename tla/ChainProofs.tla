----------------------------- MODULE ChainProofs -----------------------------
(* Proofs about the chain of runs of one job and about its CancelToken.       *)
(*                                                                            *)
(* The chain alone (JobChain), for every number of runs and every             *)
(* interleaving of the executing thread with its callers; then the claimed    *)
(* entry's chain (QueueWorker), for any entries, callers, clients, runs,      *)
(* parks, crashes and failed writes: a reservation and the executor's park    *)
(* agree, and an accepted cancel reaches the child.                           *)
(*                                                                            *)
(* The argument of the second part: between the claim and JobStarted a park   *)
(* or a cancel only leaves a flag (ReservedOK, ToldOK), which the start guard *)
(* hands to the token under the same lock; from there on every call goes to   *)
(* the token itself, whose running, signal and park the chain's own steps     *)
(* leave alone (ChainTokenEffect).                                            *)
EXTENDS QueueWorker, JobChain, TLAPS

\* Every call on a token yields a token.
LEMMA TokenCallsTyped ==
  ASSUME NEW t \in Token
  PROVE  /\ BeginToken(t) \in Token
         /\ EndToken(t) \in Token
         /\ CancelCall(t) \in Token
         /\ ParkCall(t) \in Token
         /\ UnparkCall(t) \in Token
         /\ TakePark(t) \in Token
         /\ AttachRunner(t) \in Token
         /\ AttachCheck(t) \in Token
         /\ DetachRunner(t) \in Token
<1>1. BeginToken(t) \in Token BY DEF BeginToken, Token
<1>2. EndToken(t) \in Token BY DEF EndToken, Token
<1>3. CancelCall(t) \in Token BY DEF CancelCall, Token, RunnerStates
<1>4. ParkCall(t) \in Token
  <2>1. t.count + 1 \in Nat BY DEF Token
  <2> QED BY <2>1 DEF ParkCall, Token
<1>5. UnparkCall(t) \in Token BY DEF UnparkCall, Token
<1>6. TakePark(t) \in Token BY DEF TakePark, Token
<1>7. AttachRunner(t) \in Token BY DEF AttachRunner, Token, RunnerStates
<1>8. AttachCheck(t) \in Token BY DEF AttachCheck, Token, RunnerStates
<1>9. DetachRunner(t) \in Token BY DEF DetachRunner, Token, RunnerStates
<1> QED BY <1>1, <1>2, <1>3, <1>4, <1>5, <1>6, <1>7, <1>8, <1>9

\* The part of the state the type invariant needs to be inductive: the loop has
\* a next run wherever it may still take one.
BoundaryPcs == {"readParks", "afterStop", "afterPark", "between", "cooling",
                "coolStop", "coolPark", "coolCount", "coolRest", "coolEnd"}

ChainInv ==
  /\ TypeOK
  /\ pc \in BoundaryPcs => run < TotalRuns /\ completed = run
  /\ first <= run
  /\ pc \in {"checkStop", "checkPark", "prepare", "attach", "attachCheck",
             "child", "finish", "enter"} =>
       /\ completed = run - 1
       /\ outcome = "running"
  /\ pc \in BoundaryPcs => outcome = "running"
  /\ pc \in {"checkPark"} => first < run
  /\ outcome = "running" => ~token.taken
  /\ token.taken => token.park
  /\ token.taken =>
       \/ outcome = "parked"
       \/ SavesMayFail /\ outcome = "failed"
  /\ outcome = "parked" => token.taken /\ first <= completed /\ completed < TotalRuns
  /\ pc = "child" /\ token.signal => token.runner = "told"
  /\ pc = "attachCheck" => token.runner # "none"
  /\ pc = "child" => token.runner # "none"

\* The initial state satisfies the inductive invariant.
LEMMA ChainInvInit == ChainInit => ChainInv
<1> SUFFICES ASSUME ChainInit PROVE ChainInv
  OBVIOUS
<1> USE ChainAssumption DEF ChainInit
<1>1. token = [running |-> TRUE, signal |-> FALSE, park |-> FALSE,
               taken |-> FALSE, count |-> 0, runner |-> "none"]
  BY DEF BeginToken, IdleToken
<1>2. token \in Token
  BY <1>1 DEF Token, RunnerStates
<1>3. /\ first \in 1 .. TotalRuns
      /\ completed \in 0 .. TotalRuns
  BY DEF Runs
<1> QED
  BY <1>1, <1>2, <1>3 DEF ChainInv, TypeOK, ChainTypeOK, Runs, Outcomes, ChainSteps,
     BoundaryPcs

\* Every step of the chain and of its callers preserves the inductive invariant.
LEMMA ChainInvNext == ChainInv /\ [ChainNext]_chainVars => ChainInv'
<1> SUFFICES ASSUME ChainInv, [ChainNext]_chainVars PROVE ChainInv'
  OBVIOUS
<1> USE ChainAssumption DEF ChainInv, TypeOK, ChainTypeOK, Runs, Outcomes, ChainSteps,
     Token, RunnerStates, BoundaryPcs
<1>1. CASE EnterLoop  BY <1>1 DEF EnterLoop, LeaveLoop
<1>2. CASE CheckStop  BY <1>2 DEF CheckStop, LeaveLoop
<1>3. CASE CheckPark  BY <1>3 DEF CheckPark, LeaveLoop, TakePark
<1>4. CASE Prepare    BY <1>4 DEF Prepare, LeaveLoop
<1>5. CASE Attach     BY <1>5 DEF Attach, AttachRunner
<1>6. CASE AttachStop BY <1>6 DEF AttachStop, AttachCheck
<1>7. CASE ChildEnds  BY <1>7 DEF ChildEnds, LeaveLoop, DetachRunner
<1>8. CASE FinishRun  BY <1>8 DEF FinishRun, LeaveLoop
<1>9. CASE ReadParks  BY <1>9 DEF ReadParks
<1>10. CASE AfterStop BY <1>10 DEF AfterStop
<1>11. CASE AfterPark BY <1>11 DEF AfterPark, LeaveLoop, TakePark
<1>12. CASE Between
  <2>1. CASE NextRun
    <3>1. run < TotalRuns /\ completed = run /\ outcome = "running" BY <1>12 DEF Between
    <3>2. run' = run + 1 /\ pc' = "checkStop" BY <2>1 DEF NextRun
    <3>3. cooled' \in BOOLEAN BY <1>12, <2>1 DEF Between
    <3>4. UNCHANGED <<token, first, completed, parks, outcome>> BY <1>12 DEF Between
    <3> QED BY <3>1, <3>2, <3>3, <3>4
  <2>2. CASE pc' = "cooling" BY <1>12, <2>2 DEF Between, NextRun
  <2> QED BY <1>12, <2>1, <2>2 DEF Between
<1>13. CASE CoolElapsed BY <1>13 DEF CoolElapsed
<1>14. CASE CoolWoken BY <1>14 DEF CoolWoken
<1>15. CASE CoolStop  BY <1>15 DEF CoolStop
<1>16. CASE CoolPark  BY <1>16 DEF CoolPark, LeaveLoop, TakePark
<1>17. CASE CoolCount BY <1>17 DEF CoolCount
<1>18. CASE CoolRest  BY <1>18 DEF CoolRest
<1>19. CASE CoolEnd   BY <1>19 DEF CoolEnd, LeaveLoop, NextRun
<1>20. CASE Save      BY <1>20 DEF Save
<1>21. CASE SaveRaises BY <1>21 DEF SaveRaises
<1>22. CASE ChainCallers
  <2>1. CASE Cancel
    <3>1. token' \in Token
      BY <2>1, TokenCallsTyped DEF Cancel
    <3>2. /\ token'.park = token.park /\ token'.taken = token.taken
          /\ token.runner # "none" => token'.runner # "none"
          /\ token'.signal => token.signal \/ token.runner = "none" \/ token'.runner = "told"
          /\ token.runner = "told" => token'.runner = "told"
      BY <2>1 DEF Cancel, CancelCall
    <3>3. UNCHANGED <<pc, first, run, completed, parks, cooled, outcome>>
      BY <1>22 DEF ChainCallers
    <3> HIDE DEF Token
    <3> QED BY <3>1, <3>2, <3>3
  <2>2. CASE Park
    <3>1. CASE ~token.running
      BY <1>22, <2>2, <3>1 DEF ChainCallers, Park, ParkCall
    <3>2. CASE token.running
      <4>1. token' = [token EXCEPT !.park = TRUE, !.count = token.count + 1]
        BY <2>2, <3>2 DEF Park, ParkCall
      <4>2. token' \in Token
        BY <2>2, TokenCallsTyped DEF Park
      <4> QED BY <1>22, <3>2, <4>1, <4>2 DEF ChainCallers
    <3> QED BY <3>1, <3>2
  <2>3. CASE Unpark BY <1>22, <2>3 DEF ChainCallers, Unpark, UnparkAllowed, UnparkCall
  <2> QED BY <1>22, <2>1, <2>2, <2>3 DEF ChainCallers
<1>23. CASE EndJob    BY <1>23 DEF EndJob, EndToken
<1>24. CASE UNCHANGED chainVars BY <1>24 DEF chainVars
<1> QED
  BY <1>1, <1>2, <1>3, <1>4, <1>5, <1>6, <1>7, <1>8, <1>9, <1>10, <1>11, <1>12,
     <1>13, <1>14, <1>15, <1>16, <1>17, <1>18, <1>19, <1>20, <1>21, <1>22, <1>23,
     <1>24 DEF ChainNext, ChainThread

\* The inductive invariant holds in every reachable state.
LEMMA ChainInvariance == ChainSpec => []ChainInv
  BY ChainInvInit, ChainInvNext, PTL DEF ChainSpec

\* What the cooldown knows of the parks while the job was asked to park at most
\* once and not to stop: the count it compares with is behind exactly while that
\* park is still to be found, so the wait is never taken for one already woken.
RestInv ==
  /\ parks <= token.count
  /\ token.park => token.count # 0
  /\ pc = "enter" => cooled
  /\ token.count <= 1 /\ ~token.signal =>
       /\ pc \in {"between", "cooling"} /\ parks = token.count => ~token.park
       /\ pc \in {"coolCount", "coolRest"} => ~token.park
       /\ pc \in {"coolStop", "coolPark", "coolCount", "coolRest"} => parks # token.count
       /\ pc = "coolEnd" => cooled
       /\ pc \in {"checkStop", "checkPark", "prepare", "attach", "attachCheck", "child"}
            /\ run > first => cooled

\* Every step of the chain and of its callers preserves it.
LEMMA RestInvNext == ChainInv /\ RestInv /\ [ChainNext]_chainVars => RestInv'
<1> SUFFICES ASSUME ChainInv, RestInv, [ChainNext]_chainVars PROVE RestInv'
  OBVIOUS
<1>0. /\ token \in Token /\ parks \in Nat /\ run \in Nat /\ first \in Nat
      /\ cooled \in BOOLEAN /\ pc \in ChainSteps
      /\ pc \in BoundaryPcs => outcome = "running"
      /\ outcome = "running" => ~token.taken
  BY DEF ChainInv, TypeOK, ChainTypeOK, Runs
<1> USE <1>0, ChainAssumption DEF RestInv, Token, BoundaryPcs
<1>1. CASE EnterLoop  BY <1>1 DEF EnterLoop, LeaveLoop
<1>2. CASE CheckStop  BY <1>2 DEF CheckStop, LeaveLoop
<1>3. CASE CheckPark  BY <1>3 DEF CheckPark, LeaveLoop, TakePark
<1>4. CASE Prepare    BY <1>4 DEF Prepare, LeaveLoop
<1>5. CASE Attach     BY <1>5 DEF Attach, AttachRunner
<1>6. CASE AttachStop BY <1>6 DEF AttachStop, AttachCheck
<1>7. CASE ChildEnds  BY <1>7 DEF ChildEnds, LeaveLoop, DetachRunner
<1>8. CASE FinishRun  BY <1>8 DEF FinishRun, LeaveLoop
<1>9. CASE ReadParks  BY <1>9 DEF ReadParks
<1>10. CASE AfterStop BY <1>10 DEF AfterStop
<1>11. CASE AfterPark BY <1>11 DEF AfterPark, LeaveLoop, TakePark
<1>12. CASE Between
  <2>1. CASE NextRun BY <1>12, <2>1 DEF Between, NextRun
  <2>2. CASE pc' = "cooling" BY <1>12, <2>2 DEF Between, NextRun
  <2> QED BY <1>12, <2>1, <2>2 DEF Between
<1>13. CASE CoolElapsed BY <1>13 DEF CoolElapsed
<1>14. CASE CoolWoken BY <1>14 DEF CoolWoken
<1>15. CASE CoolStop  BY <1>15 DEF CoolStop
<1>16. CASE CoolPark  BY <1>16 DEF CoolPark, LeaveLoop, TakePark
<1>17. CASE CoolCount BY <1>17 DEF CoolCount
<1>18. CASE CoolRest  BY <1>18 DEF CoolRest
<1>19. CASE CoolEnd   BY <1>19 DEF CoolEnd, LeaveLoop, NextRun
<1>20. CASE Save      BY <1>20 DEF Save
<1>21. CASE SaveRaises BY <1>21 DEF SaveRaises
<1>22. CASE ChainCallers
  <2>0. UNCHANGED <<pc, first, run, completed, parks, cooled, outcome>>
    BY <1>22 DEF ChainCallers
  <2>1. CASE Cancel
    <3>1. token'.count = token.count /\ token'.park = token.park /\ (token.signal => token'.signal)
      BY <2>1 DEF Cancel, CancelCall
    <3> QED BY <2>0, <3>1
  <2>2. CASE Park
    <3>1. CASE ~token.running
      BY <2>0, <2>2, <3>1 DEF Park, ParkCall
    <3>2. CASE token.running
      <4>1. token'.count = token.count + 1 /\ token'.signal = token.signal
        BY <2>2, <3>2 DEF Park, ParkCall
      <4> QED BY <2>0, <4>1
    <3> QED BY <3>1, <3>2
  <2>3. CASE Unpark BY <2>0, <2>3 DEF Unpark, UnparkCall
  <2> QED BY <1>22, <2>1, <2>2, <2>3 DEF ChainCallers
<1>23. CASE EndJob    BY <1>23 DEF EndJob, EndToken
<1>24. CASE UNCHANGED chainVars BY <1>24 DEF chainVars
<1> QED
  BY <1>1, <1>2, <1>3, <1>4, <1>5, <1>6, <1>7, <1>8, <1>9, <1>10, <1>11, <1>12,
     <1>13, <1>14, <1>15, <1>16, <1>17, <1>18, <1>19, <1>20, <1>21, <1>22, <1>23,
     <1>24 DEF ChainNext, ChainThread

\* A job asked to park once gets every cooldown in full, for every length of
\* chain and wherever the park and its withdrawal land.
THEOREM CooldownAfterOneParkThm == ChainSpec => []CooldownAfterOnePark
<1>1. ChainInit => RestInv
  BY DEF ChainInit, RestInv, BeginToken, IdleToken
<1>2. RestInv => CooldownAfterOnePark
  BY DEF RestInv, CooldownAfterOnePark
<1> QED BY <1>1, <1>2, RestInvNext, ChainInvariance, PTL DEF ChainSpec

\* For every number of runs, a park that was taken ends the job parked and is
\* never withdrawn.
THEOREM TakenParkEndsParkedThm == ChainSpec => []TakenParkEndsParked
<1>1. ChainInv => TakenParkEndsParked
  BY DEF ChainInv, TakenParkEndsParked
<1> QED BY <1>1, ChainInvariance, PTL

\* A parked job has made a run of its own and has runs left: it can be resumed.
THEOREM ParkedLeavesRunsThm == ChainSpec => []ParkedLeavesRuns
<1>1. ChainInv => ParkedLeavesRuns
  BY DEF ChainInv, ParkedLeavesRuns
<1> QED BY <1>1, ChainInvariance, PTL

\* Whichever of cancel() and attach() comes first, the runner is told.
THEOREM StopReachesRunnerThm == ChainSpec => []StopReachesRunner
<1>1. ChainInv => StopReachesRunner
  BY DEF ChainInv, StopReachesRunner
<1> QED BY <1>1, ChainInvariance, PTL

\* Type correctness: the loop never runs past its chain.
THEOREM ChainTypeThm == ChainSpec => []TypeOK
<1>1. ChainInv => TypeOK
  BY DEF ChainInv
<1> QED BY <1>1, ChainInvariance, PTL

\* The four together: what a stop and a park of the job rely on.
THEOREM ChainSafeThm == ChainSpec => []ChainSafe
<1>1. TakenParkEndsParked /\ ParkedLeavesRuns /\ StopReachesRunner /\ CooldownAfterOnePark
        => ChainSafe
  BY DEF ChainSafe
<1> QED BY <1>1, TakenParkEndsParkedThm, ParkedLeavesRunsThm, StopReachesRunnerThm,
     CooldownAfterOneParkThm, PTL

------------------------------------------------------------------------------
(* What the API threads ask of the claimed entry, and what its token knows.   *)

\* The token is between its begin() and its end().
LiveSteps == {"reserve", "records", "guard", "guardCancel", "genGuard", "genCancel",
              "genAttach", "genAttachCheck", "genChild"} \cup ChainSteps
\* Before JobStarted: what is asked waits in the worker's flags.
JobStartSteps == {"parse", "begin", "reserve", "records", "guard"}
GenStartSteps == {"genLink", "genStart", "genBegin", "genGuard"}
\* After JobStarted a pending cancel has been delivered, or is about to be.
ToldSteps == {"genAttach", "genAttachCheck", "genChild"} \cup ChainSteps
\* The thread has no entry.
FreeSteps == {"top", "claim", "idle", "after", "waiting", "exited", "off"}
RunnerSteps == {"attachCheck", "child", "genAttachCheck", "genChild"}

TokenTypes ==
  /\ token \in Token
  /\ pc \in ChainSteps \cup WorkerSteps
  /\ parkPending \in BOOLEAN
  /\ jobStarted \in BOOLEAN
  /\ delivering \in [Clients -> Entries \cup {NoEntry}]
  /\ pc \notin FreeSteps => current \in Entries
  /\ host # "up" => parkPending = FALSE

\* No park is on the token before the guard puts it there.
ReservedOK ==
  /\ pc \in JobStartSteps \cup GenStartSteps => jobStarted = FALSE
  /\ pc \in {"reserve", "records", "guard", "genGuard"} => ~token.park /\ ~token.taken
  /\ pc \in GenStartSteps => Kind[current] = "generate" /\ parkPending = FALSE

\* A pending cancel has a thread that still carries it, or is on the token.
ToldOK ==
  /\ pc \in LiveSteps => token.running
  /\ pc \in ToldSteps /\ pendingCancel =>
       token.signal \/ stopper = "locked" \/ \E c \in Clients : delivering[c] = current
  /\ pc \in {"child", "genChild"} /\ token.signal => token.runner = "told"
  /\ pc \in RunnerSteps => token.runner # "none"

TokenInv == TokenTypes /\ ReservedOK /\ ParksTrue /\ ToldOK

\* What a step of the chain may do to the token.
ChainTokenMove ==
  /\ token' \in Token
  /\ token'.running = token.running
  /\ token'.signal = token.signal
  /\ token'.park = token.park
  /\ token'.taken => token.taken \/ token.park
  /\ pc \in ChainSteps /\ pc' \in ChainSteps
  /\ pc' = "child" => (token.signal => token'.runner = "told") /\ pc = "attachCheck"
  /\ pc' \in RunnerSteps => token'.runner # "none"

\* The chain's own steps never start, stop, park or unpark the job.
LEMMA ChainTokenEffect ==
  ASSUME token \in Token, pc \in RunnerSteps => token.runner # "none", ChainThread
  PROVE  ChainTokenMove
<1>1. /\ TakePark(token) \in Token
      /\ AttachRunner(token) \in Token
      /\ AttachCheck(token) \in Token
      /\ DetachRunner(token) \in Token
  BY TokenCallsTyped
<1>2. /\ TakePark(token).running = token.running
      /\ TakePark(token).signal = token.signal
      /\ TakePark(token).park = token.park
      /\ TakePark(token).taken => token.taken \/ token.park
  BY DEF TakePark, Token
<1>3. \A t \in {AttachRunner(token), AttachCheck(token), DetachRunner(token)} :
        /\ t.running = token.running
        /\ t.signal = token.signal
        /\ t.park = token.park
        /\ t.taken = token.taken
  BY DEF AttachRunner, AttachCheck, DetachRunner, Token
<1>4. /\ AttachRunner(token).runner # "none"
      /\ token.runner # "none" => AttachCheck(token).runner # "none"
      /\ token.signal => AttachCheck(token).runner = "told"
  BY DEF AttachRunner, AttachCheck, Token
<1> USE DEF ChainTokenMove, ChainSteps, RunnerSteps, LeaveLoop, NextRun
<1>5. CASE CheckPark \/ AfterPark \/ CoolPark
  BY <1>1, <1>2, <1>5 DEF CheckPark, AfterPark, CoolPark
<1>6. CASE Attach \/ AttachStop \/ ChildEnds
  BY <1>1, <1>3, <1>4, <1>6 DEF Attach, AttachStop, ChildEnds
<1>7. CASE EnterLoop \/ CheckStop \/ Prepare \/ FinishRun \/ ReadParks \/ AfterStop
  BY <1>7 DEF EnterLoop, CheckStop, Prepare, FinishRun, ReadParks, AfterStop
<1>8. CASE Between \/ CoolElapsed \/ CoolWoken \/ CoolStop \/ CoolCount \/ CoolRest
  BY <1>8 DEF Between, CoolElapsed, CoolWoken, CoolStop, CoolCount, CoolRest
<1>9. CASE CoolEnd \/ Save \/ SaveRaises
  BY <1>9 DEF CoolEnd, Save, SaveRaises
<1> QED BY <1>5, <1>6, <1>7, <1>8, <1>9 DEF ChainThread

\* What each call of another thread may do to the token.
LEMMA CallEffects ==
  ASSUME NEW t \in Token
  PROVE  /\ CancelCall(t).running = t.running
         /\ CancelCall(t).park = t.park
         /\ CancelCall(t).taken = t.taken
         /\ t.runner # "none" => CancelCall(t).runner # "none"
         /\ t.signal => CancelCall(t).signal
         /\ t.running => /\ CancelCall(t).signal
                         /\ t.runner # "none" => CancelCall(t).runner = "told"
         /\ ParkCall(t).running = t.running
         /\ ParkCall(t).signal = t.signal
         /\ ParkCall(t).taken = t.taken
         /\ ParkCall(t).runner = t.runner
         /\ t.running => ParkCall(t).park
         /\ ~t.running => ParkCall(t) = t
         /\ UnparkCall(t).running = t.running
         /\ UnparkCall(t).signal = t.signal
         /\ UnparkCall(t).taken = t.taken
         /\ UnparkCall(t).runner = t.runner
         /\ ~UnparkCall(t).park
         /\ ~BeginToken(t).park /\ ~BeginToken(t).taken /\ ~BeginToken(t).signal
         /\ BeginToken(t).running
         /\ ~EndToken(t).running
         /\ AttachRunner(t).running = t.running
         /\ AttachRunner(t).signal = t.signal
         /\ AttachRunner(t).park = t.park
         /\ AttachRunner(t).taken = t.taken
         /\ AttachRunner(t).runner = "attached"
         /\ AttachCheck(t).running = t.running
         /\ AttachCheck(t).signal = t.signal
         /\ AttachCheck(t).park = t.park
         /\ AttachCheck(t).taken = t.taken
         /\ AttachCheck(t).runner = IF t.signal THEN "told" ELSE t.runner
<1>1. /\ CancelCall(t).running = t.running
      /\ CancelCall(t).park = t.park
      /\ CancelCall(t).taken = t.taken
      /\ t.runner # "none" => CancelCall(t).runner # "none"
      /\ t.signal => CancelCall(t).signal
      /\ t.running => /\ CancelCall(t).signal
                      /\ t.runner # "none" => CancelCall(t).runner = "told"
  BY DEF CancelCall, Token
<1>2. /\ ParkCall(t).running = t.running
      /\ ParkCall(t).signal = t.signal
      /\ ParkCall(t).taken = t.taken
      /\ ParkCall(t).runner = t.runner
      /\ t.running => ParkCall(t).park
      /\ ~t.running => ParkCall(t) = t
  BY DEF ParkCall, Token
<1>3. /\ UnparkCall(t).running = t.running
      /\ UnparkCall(t).signal = t.signal
      /\ UnparkCall(t).taken = t.taken
      /\ UnparkCall(t).runner = t.runner
      /\ ~UnparkCall(t).park
      /\ ~BeginToken(t).park /\ ~BeginToken(t).taken /\ ~BeginToken(t).signal
      /\ BeginToken(t).running
      /\ ~EndToken(t).running
  BY DEF UnparkCall, BeginToken, EndToken, Token
<1>4. /\ AttachRunner(t).running = t.running
      /\ AttachRunner(t).signal = t.signal
      /\ AttachRunner(t).park = t.park
      /\ AttachRunner(t).taken = t.taken
      /\ AttachRunner(t).runner = "attached"
      /\ AttachCheck(t).running = t.running
      /\ AttachCheck(t).signal = t.signal
      /\ AttachCheck(t).park = t.park
      /\ AttachCheck(t).taken = t.taken
      /\ AttachCheck(t).runner = IF t.signal THEN "told" ELSE t.runner
  BY DEF AttachRunner, AttachCheck, Token
<1> QED BY <1>1, <1>2, <1>3, <1>4

\* A hold is held after any further hold.
LEMMA HeldAfterHold ==
  ASSUME NEW h, NEW by, NEW caller
  PROVE  AfterHold(h, by, caller).held
<1>1. NewHold(by, caller).held /\ NewHold(AgainBy(h, by), AgainCaller(h, by, caller)).held
  BY DEF NewHold
<1> QED BY <1>1 DEF AfterHold, Damaged

LEMMA TokenInvInit == Init => TokenInv
<1> SUFFICES ASSUME Init PROVE TokenInv
  OBVIOUS
<1>1. token \in Token
  BY DEF Init, IdleToken, Token, RunnerStates
<1> QED BY <1>1
     DEF Init, TokenInv, TokenTypes, ReservedOK, ToldOK, ParksTrue, ReservationMatchesToken,
         ParkKeepsHold, LiveSteps, ToldSteps, RunnerSteps, JobStartSteps, GenStartSteps,
         ChainSteps, WorkerSteps, NoEntry, FreeSteps

\* Every step keeps the invariant.
LEMMA TokenInvNext ==
  ASSUME TokenInv, [Next]_vars
  PROVE  TokenInv'
<1>t. /\ BeginToken(token) \in Token
      /\ EndToken(token) \in Token
      /\ CancelCall(token) \in Token
      /\ ParkCall(token) \in Token
      /\ UnparkCall(token) \in Token
      /\ AttachRunner(token) \in Token
      /\ AttachCheck(token) \in Token
      /\ EndToken(DetachRunner(token)) \in Token
      /\ IdleToken \in Token
  <2>1. IdleToken \in Token BY DEF IdleToken, Token, RunnerStates
  <2> QED BY <2>1, TokenCallsTyped DEF TokenInv, TokenTypes
<1>c. /\ CancelCall(token).running = token.running
      /\ CancelCall(token).park = token.park
      /\ CancelCall(token).taken = token.taken
      /\ token.runner # "none" => CancelCall(token).runner # "none"
      /\ token.signal => CancelCall(token).signal
      /\ token.running => /\ CancelCall(token).signal
                          /\ token.runner # "none" => CancelCall(token).runner = "told"
      /\ ParkCall(token).running = token.running
      /\ ParkCall(token).signal = token.signal
      /\ ParkCall(token).taken = token.taken
      /\ ParkCall(token).runner = token.runner
      /\ token.running => ParkCall(token).park
      /\ ~token.running => ParkCall(token) = token
      /\ ~BeginToken(token).park /\ ~BeginToken(token).taken /\ BeginToken(token).running
      /\ UnparkCall(token).running = token.running
      /\ UnparkCall(token).signal = token.signal
      /\ UnparkCall(token).taken = token.taken
      /\ UnparkCall(token).runner = token.runner
      /\ ~UnparkCall(token).park
      /\ ~EndToken(token).running
      /\ ~EndToken(DetachRunner(token)).running
      /\ AttachRunner(token).running = token.running
      /\ AttachRunner(token).signal = token.signal
      /\ AttachRunner(token).park = token.park
      /\ AttachRunner(token).taken = token.taken
      /\ AttachRunner(token).runner = "attached"
      /\ AttachCheck(token).running = token.running
      /\ AttachCheck(token).signal = token.signal
      /\ AttachCheck(token).park = token.park
      /\ AttachCheck(token).taken = token.taken
      /\ AttachCheck(token).runner = IF token.signal THEN "told" ELSE token.runner
  <2>1. DetachRunner(token) \in Token BY TokenCallsTyped DEF TokenInv, TokenTypes
  <2> QED BY <2>1, CallEffects DEF TokenInv, TokenTypes
<1>chain. ChainThread => ChainTokenMove
  BY ChainTokenEffect DEF TokenInv, TokenTypes, ToldOK
<1> USE DEF TokenInv, TokenTypes, ReservedOK, ToldOK, ParksTrue, ReservationMatchesToken,
        ParkKeepsHold, LiveSteps, ToldSteps, RunnerSteps, JobStartSteps, GenStartSteps,
        ChainSteps, WorkerSteps, NoEntry, FreeSteps,
        chainVars, storeVars, flagVars, localVars, loopVars, hostVars, ghostVars
<1>1. CASE Top BY <1>1 DEF Top
<1>2. CASE ClaimNone BY <1>2 DEF ClaimNone
<1>3. CASE IdleEnds BY <1>3 DEF IdleEnds
<1>4. CASE Parse BY <1>4 DEF Parse
<1>5. CASE RecordFinish BY <1>5 DEF RecordFinish
<1>6. CASE FinishReason BY <1>6 DEF FinishReason
<1>7. CASE FinishEntry BY <1>7 DEF FinishEntry, MarkFinished, AfterFailedMark
<1>8. CASE FailToStart BY <1>8 DEF FailToStart, MarkFinished
<1>9. CASE Publish BY <1>9 DEF Publish
<1>10. CASE Release BY <1>10, WorkerAssumption DEF Release
<1>11. CASE WaitAfter BY <1>11 DEF WaitAfter
<1>12. CASE WaitCut BY <1>12 DEF WaitCut
<1>13. CASE WaitElapsed BY <1>13 DEF WaitElapsed
<1>14. CASE GenLink BY <1>14 DEF GenLink
<1>15. CASE GenStart BY <1>15 DEF GenStart
<1>16. CASE GenGuard BY <1>16 DEF GenGuard
<1>17. CASE GenRecord BY <1>17 DEF GenRecord
<1>18. CASE GenFailed BY <1>18 DEF GenFailed
<1>19. CASE GenRetry BY <1>19 DEF GenRetry, MarkFinished
<1>20. CASE StopSet BY <1>20 DEF StopSet
<1>21. CASE StopReason BY <1>21 DEF StopReason, KeepPending
<1>22. CASE RecoverSweep BY <1>22 DEF RecoverSweep
<1>23. CASE StartWorker BY <1>23 DEF StartWorker
<1>24. CASE Begin BY <1>24, <1>t, <1>c DEF Begin
<1>25. CASE Reserve BY <1>25, <1>t, <1>c DEF Reserve, LeaveExecutor
<1>26. CASE JobStart BY <1>26, <1>t, <1>c DEF JobStart, LeaveExecutor
<1>27. CASE StartGuard BY <1>27, <1>t, <1>c DEF StartGuard, GuardPark, GuardNext, StartLoop
<1>28. CASE GuardCancel BY <1>28, <1>t, <1>c DEF GuardCancel
<1>29. CASE TokenEnds BY <1>29, <1>t, <1>c DEF TokenEnds
<1>30. CASE GenBegin BY <1>30, <1>t, <1>c DEF GenBegin
<1>31. CASE GenCancel BY <1>31, <1>t, <1>c DEF GenCancel
<1>32. CASE GenAttach BY <1>32, <1>t, <1>c DEF GenAttach
<1>33. CASE GenAttachStop BY <1>33, <1>t, <1>c DEF GenAttachStop
<1>34. CASE GenChildEnds BY <1>34, <1>t, <1>c DEF GenChildEnds
<1>35. CASE StopCancel BY <1>35, <1>t, <1>c DEF StopCancel
<1>36. CASE StopJoined BY <1>36, <1>t, <1>c DEF StopJoined, MemoryLost, FreshFlags
<1>37. CASE Crash BY <1>37, <1>t, <1>c DEF Crash, MemoryLost, FreshFlags
<1>38. ASSUME NEW e \in Entries, ClaimStopping(e)
      PROVE  TokenInv'
  BY <1>38, <1>t, <1>c, HeldAfterHold DEF ClaimStopping
<1>39. ASSUME NEW e \in Entries, Claim(e)
      PROVE  TokenInv'
  BY <1>39, <1>t, <1>c, HeldAfterHold DEF Claim, FreshFlags
<1>40. ASSUME NEW e \in Entries, Submit(e)
      PROVE  TokenInv'
  BY <1>40, <1>t, <1>c, HeldAfterHold DEF Submit
<1>41. ASSUME NEW e \in Entries, RecoverEntry(e)
      PROVE  TokenInv'
  BY <1>41, <1>t, <1>c, HeldAfterHold DEF RecoverEntry
<1>42. ASSUME NEW e \in Entries, NEW who \in Callers, CancelQueued(e, who)
      PROVE  TokenInv'
  BY <1>42, <1>t, <1>c, HeldAfterHold DEF CancelQueued
<1>43. ASSUME NEW c \in Clients, NEW e \in Entries, NEW who \in Callers, CancelRunning(c, e, who)
      PROVE  TokenInv'
  BY <1>43, <1>t, <1>c, HeldAfterHold DEF CancelRunning, KeepPending
<1>44. ASSUME NEW c \in Clients, DeliverCancel(c)
      PROVE  TokenInv'
  BY <1>44, <1>t, <1>c, HeldAfterHold DEF DeliverCancel
<1>45. ASSUME NEW e \in Entries, NEW who \in Callers, ParkEntry(e, who)
      PROVE  TokenInv'
  <2>1. /\ hold'.held /\ parkPending' = TRUE /\ Kind[current] = "job" /\ host = "up"
        /\ UNCHANGED <<pc, current, pendingCancel, jobStarted, jobFinished, delivering,
                       stopper, host>>
        /\ token' = IF ~parkPending /\ jobStarted THEN ParkCall(token) ELSE token
    BY <1>45, HeldAfterHold DEF ParkEntry, SetHold, IsRunning, Up
  <2> QED BY <2>1, <1>t, <1>c
<1>46. ASSUME NEW e \in Entries, NEW who \in Callers, UnparkEntry(e, who)
      PROVE  TokenInv'
  <2>1. /\ parkPending' = FALSE
        /\ jobStarted => ~token.taken
        /\ UNCHANGED <<pc, current, pendingCancel, jobStarted, jobFinished, delivering,
                       stopper, host>>
        /\ token' = IF jobStarted THEN UnparkCall(token) ELSE token
    BY <1>46 DEF UnparkEntry, UnparkAllowed
  <2>2. CASE jobStarted BY <2>1, <2>2, <1>t, <1>c
  <2>3. CASE ~jobStarted
    <3>1. UNCHANGED <<token, jobStarted>> BY <2>1, <2>3
    <3>2. ParksTrue' BY <2>1, <2>3, <3>1
    <3>3. TokenTypes' BY <2>1, <3>1
    <3>4. ReservedOK' BY <2>1, <3>1
    <3>5. ToldOK' BY <2>1, <3>1
    <3> QED BY <3>2, <3>3, <3>4, <3>5
  <2> QED BY <2>2, <2>3
<1>47. ASSUME NEW who \in Callers, HoldQueue(who)
      PROVE  TokenInv'
  BY <1>47, <1>t, <1>c, HeldAfterHold DEF HoldQueue, SetHold
<1>48. ASSUME NEW who \in Callers, ReleaseQueue(who)
      PROVE  TokenInv'
  BY <1>48, <1>t, <1>c, HeldAfterHold DEF ReleaseQueue, ClearHold
<1>49. CASE ChainStep BY <1>49, <1>chain DEF ChainStep, ChainTokenMove
<1>50. CASE UNCHANGED vars BY <1>50 DEF vars
<1> QED
  BY <1>1, <1>2, <1>3, <1>4, <1>5, <1>6, <1>7, <1>8, <1>9, <1>10, <1>11, <1>12, <1>13, <1>14, <1>15, <1>16,
     <1>17, <1>18, <1>19, <1>20, <1>21, <1>22, <1>23, <1>24, <1>25, <1>26, <1>27, <1>28, <1>29, <1>30, <1>31,
     <1>32, <1>33, <1>34, <1>35, <1>36, <1>37, <1>38, <1>39, <1>40, <1>41, <1>42, <1>43, <1>44, <1>45, <1>46,
     <1>47, <1>48, <1>49, <1>50
     DEF Next, WorkerRuns, WorkerWaits, Api, Process

\* The invariant holds in every reachable state, whichever writes fail.
LEMMA TokenInvariance == Spec => []TokenInv
  BY TokenInvInit, TokenInvNext, PTL DEF Spec

\* The reservation the worker shows and the park the executor will take never
\* come apart (services/queue_park.py, _start_guard and CancelToken), and no park
\* stands without the hold that keeps the next entry from starting after it: for
\* every order of park, unpark, release, start, run boundary, crash and failed
\* write.
THEOREM ParksTrueThm == Spec => []ParksTrue
<1>1. TokenInv => ParksTrue
  BY DEF TokenInv
<1> QED BY <1>1, TokenInvariance, PTL

\* An accepted cancel, or the stop of the server, reaches the child of the entry
\* it was for (services/queue_cancel.py, _start_guard and CancelToken.attach),
\* wherever it lands between the claim and the child's end.
THEOREM CancelReachesChildThm == Spec => []CancelReachesChild
<1>1. TokenInv => CancelReachesChild
  BY DEF TokenInv, ToldOK, CancelReachesChild, ToldSteps, ChainSteps
<1> QED BY <1>1, TokenInvariance, PTL
==============================================================================
