-------------------------- MODULE QueueWorkerProofs --------------------------
(* The queue keeps its promises for any number of entries, callers, clients,  *)
(* runs, parks and crashes, as long as the store's writes succeed             *)
(* (MaxFaults = 0): QueueWorker implements QueueService.                      *)
(*                                                                            *)
(* The argument: the worker thread's step tells whether an entry is claimed   *)
(* and how far it is (SpanOK), so that the rows, the worker's memory and the  *)
(* executions can be related (QueueOK, WorkOK) across the two separate writes *)
(* that end an entry, a crash between them, and the recovery after it.        *)
(* The second part adds the executions and what the event stream said of      *)
(* each entry: FinishedMatchesExecution and EventsInOrder.                    *)
EXTENDS QueueWorker, TLAPS

FreeSteps == {"top", "claim", "idle", "after", "waiting", "exited", "off"}
DoneSteps == {"publish", "endJob", "release", "escape"}
StartSteps == {"parse", "begin", "reserve", "genLink"}
EarlySteps == StartSteps \cup {"records", "genStart", "failStart"}
LateSteps == {"guard", "guardCancel", "finReason", "finEntry", "genBegin", "genGuard",
              "genCancel", "genAttach", "genAttachCheck", "genChild", "genRecord",
              "genFailed", "genRetry"} \cup ChainSteps
RanSteps == {"child", "finish", "readParks", "afterStop", "afterPark", "between",
             "cooling", "coolStop", "coolPark", "coolCount", "coolRest", "coolEnd",
             "genChild"}
EndSteps == {"save", "jobFinished", "genRecord", "finReason"}

TypesOK ==
  /\ rows \in [Entries -> RowStates]
  /\ exec \in [Entries -> ExecStates]
  /\ run \in Nat
  /\ first \in Nat
  /\ outcome \in Outcomes
  /\ reason \in {"none", "cancel", "shutdown"}
  /\ jobFinished \in BOOLEAN
  /\ host \in {"down", "recover", "up"}
  /\ faults = 0

\* Where the worker thread stands and which entry it has.
SpanOK ==
  /\ pc \in FreeSteps \cup EarlySteps \cup LateSteps \cup DoneSteps
  /\ (pc = "off") <=> (host # "up")
  /\ pc \in FreeSteps => current = NoEntry
  /\ pc \in EarlySteps \cup LateSteps =>
       current \in Entries /\ jobFinished = FALSE /\ rows[current] = "running"
  /\ pc \in DoneSteps => current \in Entries /\ jobFinished = TRUE

\* The rows of the queue table.
QueueOK ==
  /\ host = "up" =>
       \A e \in Entries :
         rows[e] = "running" => current = e /\ pc \in EarlySteps \cup LateSteps
  /\ RunningIsOldest
  /\ \A e \in Entries : rows[e] \in {"absent", "queued"} => e \notin ran
  /\ \A d, e \in Entries : d < e /\ rows[d] = "absent" => rows[e] = "absent"

\* The executions, and what was started.
WorkOK ==
  /\ \A e \in Entries :
       rows[e] = "running" =>
         /\ e \in ran => exec[e] \notin {"unlinked", "reserved"}
         /\ exec[e] \in {"succeeded", "parked"} => e \in ran
  /\ \A e \in Entries : rows[e] \in {"absent", "queued"} => exec[e] = "unlinked"
  /\ host = "recover" => \A e \in Entries : exec[e] # "running"
  /\ pc \in StartSteps => current \notin ran
  /\ pc \in LateSteps => exec[current] \notin {"unlinked", "reserved"}
  /\ pc \in RanSteps => current \in ran
  /\ pc \in ChainSteps /\ run > first => current \in ran
  /\ pc = "checkPark" => run > first
  /\ pc = "guardCancel" => run = first /\ outcome = "running"
  /\ pc \in ChainSteps \cup EndSteps /\ outcome \in {"succeeded", "parked"} =>
       current \in ran
  /\ pc \in EndSteps => outcome # "running"
  /\ pc = "finEntry" => final \in Finished
  /\ pc = "finEntry" /\ final \in {"succeeded", "parked"} => current \in ran

ServiceInv == TypesOK /\ SpanOK /\ QueueOK /\ WorkOK /\ HoldIsSaved

\* What a step of the chain does to the part of its state the queue depends on.
ChainMove ==
  /\ pc \in ChainSteps /\ pc' \in ChainSteps
  /\ run' \in Nat /\ first' = first /\ outcome' \in Outcomes
  /\ run' > first' => run > first \/ pc \in RanSteps
  /\ pc' \in RanSteps => pc' = "child" \/ pc \in RanSteps
  /\ pc' = "checkPark" => run' > first'
  /\ outcome' \in {"succeeded", "parked"} =>
       outcome' = outcome \/ pc \in RanSteps \/ pc = "checkPark"
  /\ pc' \in EndSteps => outcome' # "running" \/ (pc = "save" /\ outcome' = outcome)

\* And to the queue's own state: it only ever adds the entry to those that ran.
ChainKeeps ==
  /\ faults' = 0
  /\ ran' = IF pc' = "child" THEN ran \cup {current} ELSE ran
  /\ UNCHANGED <<rows, exec, holdRow, hold, current, reason, jobFinished, host>>

\* Every step of the chain is such a move.
LEMMA ChainEffect ==
  ASSUME run \in Nat, first \in Nat, outcome \in Outcomes, ChainThread
  PROVE  ChainMove
<1> USE DEF ChainMove, ChainSteps, RanSteps, EndSteps, Outcomes, LeaveLoop, NextRun
<1>1. CASE EnterLoop BY <1>1 DEF EnterLoop
<1>2. CASE CheckStop BY <1>2 DEF CheckStop
<1>3. CASE CheckPark BY <1>3 DEF CheckPark
<1>4. CASE Prepare BY <1>4 DEF Prepare
<1>5. CASE Attach BY <1>5 DEF Attach
<1>6. CASE AttachStop BY <1>6 DEF AttachStop
<1>7. CASE ChildEnds BY <1>7 DEF ChildEnds
<1>8. CASE FinishRun BY <1>8 DEF FinishRun
<1>9. CASE ReadParks BY <1>9 DEF ReadParks
<1>10. CASE AfterStop BY <1>10 DEF AfterStop
<1>11. CASE AfterPark BY <1>11 DEF AfterPark
<1>12. CASE Between BY <1>12 DEF Between
<1>13. CASE CoolElapsed BY <1>13 DEF CoolElapsed
<1>14. CASE CoolWoken BY <1>14 DEF CoolWoken
<1>15. CASE CoolStop BY <1>15 DEF CoolStop
<1>16. CASE CoolPark BY <1>16 DEF CoolPark
<1>17. CASE CoolCount BY <1>17 DEF CoolCount
<1>18. CASE CoolRest BY <1>18 DEF CoolRest
<1>19. CASE CoolEnd BY <1>19 DEF CoolEnd
<1>20. CASE Save BY <1>20 DEF Save
<1>21. CASE SaveRaises BY <1>21 DEF SaveRaises
<1> QED
  BY <1>1, <1>2, <1>3, <1>4, <1>5, <1>6, <1>7, <1>8, <1>9, <1>10, <1>11, <1>12, <1>13,
         <1>14, <1>15, <1>16, <1>17, <1>18, <1>19, <1>20, <1>21
     DEF ChainThread

\* A saved hold reads back as it was made.
LEMMA SavedHoldReadsBack ==
  ASSUME NEW h, NEW by, NEW caller, AfterHold(h, by, caller) # h
  PROVE  ReadHold(SavedRow(AfterHold(h, by, caller))) = AfterHold(h, by, caller)
<1>1. ASSUME NEW b, NEW c PROVE ReadHold(SavedRow(NewHold(b, c))) = NewHold(b, c)
  BY DEF ReadHold, SavedRow, NewHold
<1> QED BY <1>1 DEF AfterHold

\* And no row as no hold.
LEMMA NoHoldReadsBack == ReadHold(NoRow) = NotHeld
  BY DEF ReadHold, NoRow, NotHeld

\* The claimed entry's row is brought to a final state.
LEMMA EndRow ==
  ASSUME ServiceInv, pc \in EarlySteps \cup LateSteps, NEW s \in Finished,
         MarkFinished(current, s), UNCHANGED <<current, host, ran>>, pc' \in DoneSteps
  PROVE  QueueOK' /\ rows' \in [Entries -> RowStates]
<1> USE DEF ServiceInv, TypesOK, SpanOK, QueueOK, MarkFinished, SetRow, Finished,
     RowStates
<1>1. /\ current \in Entries
      /\ rows'[current] = s
      /\ \A e \in Entries : e # current => rows'[e] = rows[e]
      /\ rows' \in [Entries -> RowStates]
  OBVIOUS
<1>2. host = "up" /\ \A e \in Entries : rows'[e] # "running"
  BY <1>1 DEF FreeSteps, EarlySteps, LateSteps, StartSteps, ChainSteps
<1> QED BY <1>1, <1>2 DEF RunningIsOldest

\* With no write that fails, each action that marks the entry does mark it.
LEMMA EntryMarked ==
  ASSUME MaxFaults = 0, ServiceInv, FinishEntry \/ FailToStart \/ GenRetry
  PROVE  QueueOK' /\ rows' \in [Entries -> RowStates]
<1>1. ~Fault
  BY DEF Fault, ServiceInv, TypesOK
<1>2. PICK s \in Finished : MarkFinished(current, s) /\ pc' = "publish"
  BY <1>1 DEF FinishEntry, FailToStart, GenRetry, Finished, ServiceInv, WorkOK
<1>3. pc \in EarlySteps \cup LateSteps
  BY DEF FinishEntry, FailToStart, GenRetry, EarlySteps, LateSteps
<1>4. UNCHANGED <<current, host, ran>>
  BY DEF FinishEntry, FailToStart, GenRetry, hostVars, ghostVars
<1>5. pc' \in DoneSteps
  BY <1>2 DEF DoneSteps
<1> QED BY <1>2, <1>3, <1>4, <1>5, EndRow

\* A step of the chain, as the queue sees it.
LEMMA ChainStepEffect ==
  ASSUME MaxFaults = 0, ServiceInv, ChainStep
  PROVE  ChainMove /\ ChainKeeps
<1>1. ChainThread /\ run \in Nat /\ first \in Nat /\ outcome \in Outcomes
  BY DEF ServiceInv, TypesOK, ChainStep
<1>2. ~Fault
  BY DEF Fault, ServiceInv, TypesOK
<1> QED BY <1>1, <1>2, ChainEffect
        DEF ChainStep, ChainKeeps, flagVars, hostVars, ServiceInv, TypesOK

\* The initial states, a damaged hold row included.
LEMMA ServiceInvInit == Init => ServiceInv
<1> SUFFICES ASSUME Init PROVE ServiceInv
  OBVIOUS
<1> USE DEF Init
<1>1. TypesOK BY DEF TypesOK, Entries, RowStates, ExecStates, Outcomes
<1>2. SpanOK
  BY DEF SpanOK, FreeSteps, EarlySteps, StartSteps, LateSteps, DoneSteps, ChainSteps
<1>3. QueueOK BY DEF QueueOK, RunningIsOldest
<1>4. WorkOK BY DEF WorkOK, StartSteps, LateSteps, ChainSteps, RanSteps, EndSteps
<1>5. HoldIsSaved BY DEF HoldIsSaved, Up
<1> QED BY <1>1, <1>2, <1>3, <1>4, <1>5 DEF ServiceInv

\* Every step keeps the invariant: one step per action, and one per part of the
\* invariant where the action disturbs several.
LEMMA ServiceInvNext ==
  ASSUME MaxFaults = 0, ServiceInv, [Next]_vars
  PROVE  ServiceInv'
<1>mark. FinishEntry \/ FailToStart \/ GenRetry =>
           QueueOK' /\ rows' \in [Entries -> RowStates]
  BY EntryMarked
<1>nofault. ~Fault
  BY DEF Fault, ServiceInv, TypesOK
<1>chain. ChainStep => ChainMove /\ ChainKeeps
  BY ChainStepEffect
<1> USE WorkerAssumption
        DEF ServiceInv, TypesOK, SpanOK, QueueOK, WorkOK, HoldIsSaved, RunningIsOldest,
         Up, Entries, RowStates, Finished, ExecStates, Outcomes, FreeSteps, DoneSteps,
         StartSteps, EarlySteps, LateSteps, ChainSteps, RanSteps, EndSteps, NoEntry,
        chainVars, storeVars, flagVars, localVars, loopVars, hostVars, ghostVars
<1>1. CASE Top BY <1>1 DEF Top
<1>2. CASE ClaimNone BY <1>2 DEF ClaimNone
<1>3. CASE IdleEnds BY <1>3 DEF IdleEnds
<1>4. CASE Parse BY <1>4 DEF Parse
<1>5. CASE Begin BY <1>5 DEF Begin, Swept
<1>6. CASE Reserve BY <1>6 DEF Reserve, LeaveExecutor, SetExec
<1>7. CASE JobStart BY <1>7 DEF JobStart, LeaveExecutor, SetExec, Fault
<1>8. CASE StartGuard
  <2>0. FirstRun[current] \in Nat BY <1>8 DEF StartGuard, Runs
  <2>1. TypesOK' BY <1>8, <2>0 DEF StartGuard, GuardPark, GuardNext, StartLoop
  <2>2. SpanOK' BY <1>8, <2>0 DEF StartGuard, GuardPark, GuardNext, StartLoop
  <2>3. QueueOK' BY <1>8, <2>0 DEF StartGuard, GuardPark, GuardNext, StartLoop
  <2>4. WorkOK' BY <1>8, <2>0 DEF StartGuard, GuardPark, GuardNext, StartLoop
  <2>5. HoldIsSaved' BY <1>8, <2>0 DEF StartGuard, GuardPark, GuardNext, StartLoop
  <2> QED BY <2>1, <2>2, <2>3, <2>4, <2>5
<1>9. CASE GuardCancel
  <2>1. TypesOK' BY <1>9 DEF GuardCancel
  <2>2. SpanOK' BY <1>9 DEF GuardCancel
  <2>3. QueueOK' BY <1>9 DEF GuardCancel
  <2>4. WorkOK' BY <1>9 DEF GuardCancel
  <2>5. HoldIsSaved' BY <1>9 DEF GuardCancel
  <2> QED BY <2>1, <2>2, <2>3, <2>4, <2>5
<1>10. CASE RecordFinish BY <1>10 DEF RecordFinish, SetExec, Fault
<1>11. CASE FinishReason BY <1>11 DEF FinishReason, FinalState
<1>12. CASE FinishEntry
  <2>1. TypesOK' BY <1>12, <1>mark, <1>nofault DEF FinishEntry, MarkFinished
  <2>2. SpanOK' BY <1>12 DEF FinishEntry, MarkFinished, SetRow, Fault
  <2>3. QueueOK' BY <1>12, <1>mark
  <2>4. WorkOK' BY <1>12 DEF FinishEntry, MarkFinished, SetRow, Fault
  <2>5. HoldIsSaved' BY <1>12 DEF FinishEntry, MarkFinished, SetRow, Fault
  <2> QED BY <2>1, <2>2, <2>3, <2>4, <2>5
<1>13. CASE FailToStart
  <2>0. /\ rows'[current] = "failed"
        /\ \A e \in Entries \ {current} : rows'[e] = rows[e] /\ exec'[e] = exec[e]
    BY <1>13, <1>nofault DEF FailToStart, MarkFinished, SetRow, SetExec
  <2>t. /\ exec' \in [Entries -> ExecStates]
        /\ jobFinished' \in BOOLEAN
        /\ UNCHANGED <<run, first, outcome, reason, host, faults>>
    BY <1>13, <1>nofault DEF FailToStart, MarkFinished, SetExec
  <2>1. TypesOK' BY <1>13, <1>mark, <2>t
  <2>2. SpanOK' BY <1>13 DEF FailToStart, MarkFinished, SetRow, SetExec, Fault
  <2>3. QueueOK' BY <1>13, <1>mark
  <2>4. WorkOK' BY <1>13, <1>mark, <1>nofault, <2>0 DEF FailToStart, MarkFinished
  <2>5. HoldIsSaved' BY <1>13 DEF FailToStart, MarkFinished, SetRow, SetExec, Fault
  <2> QED BY <2>1, <2>2, <2>3, <2>4, <2>5
<1>14. CASE Publish BY <1>14 DEF Publish, Tell
<1>15. CASE TokenEnds BY <1>15 DEF TokenEnds
<1>16. CASE Release BY <1>16 DEF Release, LoopGone
<1>17. CASE WaitAfter BY <1>17 DEF WaitAfter
<1>18. CASE WaitCut BY <1>18 DEF WaitCut
<1>19. CASE GenLink BY <1>19 DEF GenLink, SetExec
<1>20. CASE GenStart BY <1>20 DEF GenStart, SetExec, Fault
<1>21. CASE GenBegin BY <1>21 DEF GenBegin
<1>22. CASE GenGuard BY <1>22 DEF GenGuard
<1>23. CASE GenCancel BY <1>23 DEF GenCancel
<1>24. CASE GenAttach BY <1>24 DEF GenAttach
<1>25. CASE GenAttachStop BY <1>25 DEF GenAttachStop
<1>26. CASE GenRecord
  <2>0. exec' \in [Entries -> ExecStates] BY <1>26, <1>nofault DEF GenRecord, SetExec
  <2>1. TypesOK' BY <1>26, <1>nofault, <2>0 DEF GenRecord, SetExec
  <2>2. SpanOK' BY <1>26 DEF GenRecord, SetExec, Fault
  <2>3. QueueOK' BY <1>26 DEF GenRecord, SetExec, Fault
  <2>4. WorkOK' BY <1>26 DEF GenRecord, SetExec, Fault
  <2>5. HoldIsSaved' BY <1>26 DEF GenRecord, SetExec, Fault
  <2> QED BY <2>1, <2>2, <2>3, <2>4, <2>5
<1>27. CASE GenFailed
  <2>0. exec' \in [Entries -> ExecStates] BY <1>27, <1>nofault DEF GenFailed, SetExec
  <2>1. TypesOK' BY <1>27, <1>nofault, <2>0 DEF GenFailed, SetExec
  <2>2. SpanOK' BY <1>27 DEF GenFailed, SetExec, Fault
  <2>3. QueueOK' BY <1>27 DEF GenFailed, SetExec, Fault
  <2>4. WorkOK' BY <1>27 DEF GenFailed, SetExec, Fault
  <2>5. HoldIsSaved' BY <1>27 DEF GenFailed, SetExec, Fault
  <2> QED BY <2>1, <2>2, <2>3, <2>4, <2>5
<1>28. CASE GenRetry
  <2>1. TypesOK' BY <1>28, <1>mark, <1>nofault DEF GenRetry, MarkFinished
  <2>2. SpanOK' BY <1>28 DEF GenRetry, MarkFinished, SetRow, Fault
  <2>3. QueueOK' BY <1>28, <1>mark
  <2>4. WorkOK' BY <1>28 DEF GenRetry, MarkFinished, SetRow, Fault
  <2>5. HoldIsSaved' BY <1>28 DEF GenRetry, MarkFinished, SetRow, Fault
  <2> QED BY <2>1, <2>2, <2>3, <2>4, <2>5
<1>29. CASE GenChildEnds BY <1>29 DEF GenChildEnds
<1>30. CASE WaitElapsed BY <1>30 DEF WaitElapsed
<1>31. CASE StopSet BY <1>31 DEF StopSet
<1>32. CASE StopReason BY <1>32 DEF StopReason, KeepPending
<1>33. CASE StopCancel BY <1>33 DEF StopCancel
<1>34. CASE StopJoined
  <2>1. TypesOK' BY <1>34 DEF StopJoined, MemoryLost, FreshFlags, LoopGone, IdleToken
  <2>2. SpanOK' BY <1>34 DEF StopJoined, MemoryLost, FreshFlags, LoopGone, IdleToken
  <2>3. QueueOK' BY <1>34 DEF StopJoined, MemoryLost, FreshFlags, LoopGone, IdleToken
  <2>4. WorkOK' BY <1>34 DEF StopJoined, MemoryLost, FreshFlags, LoopGone, IdleToken
  <2>5. HoldIsSaved' BY <1>34 DEF StopJoined, MemoryLost, FreshFlags, LoopGone, IdleToken
  <2> QED BY <2>1, <2>2, <2>3, <2>4, <2>5
<1>35. CASE Crash
  <2>1. TypesOK' BY <1>35 DEF Crash, MemoryLost, FreshFlags, LoopGone, IdleToken
  <2>2. SpanOK' BY <1>35 DEF Crash, MemoryLost, FreshFlags, LoopGone, IdleToken
  <2>3. QueueOK' BY <1>35 DEF Crash, MemoryLost, FreshFlags, LoopGone, IdleToken
  <2>4. WorkOK' BY <1>35 DEF Crash, MemoryLost, FreshFlags, LoopGone, IdleToken
  <2>5. HoldIsSaved' BY <1>35 DEF Crash, MemoryLost, FreshFlags, LoopGone, IdleToken
  <2> QED BY <2>1, <2>2, <2>3, <2>4, <2>5
<1>36. CASE RecoverSweep BY <1>36 DEF RecoverSweep, Swept
<1>37. CASE StartWorker
  <2>1. TypesOK' BY <1>37 DEF StartWorker
  <2>2. SpanOK' BY <1>37 DEF StartWorker
  <2>3. QueueOK' BY <1>37 DEF StartWorker
  <2>4. WorkOK' BY <1>37 DEF StartWorker
  <2>5. HoldIsSaved' BY <1>37 DEF StartWorker
  <2> QED BY <2>1, <2>2, <2>3, <2>4, <2>5
<1>38. ASSUME NEW e \in Entries, ClaimStopping(e)
      PROVE  ServiceInv'
  <2>1. TypesOK' BY <1>38 DEF ClaimStopping, SetExec, SetRow, Tell, Fault
  <2>2. SpanOK' BY <1>38 DEF ClaimStopping, SetExec, SetRow, Tell, Fault
  <2>3. QueueOK' BY <1>38 DEF ClaimStopping, SetExec, SetRow, Tell, Fault
  <2>4. WorkOK' BY <1>38 DEF ClaimStopping, SetExec, SetRow, Tell, Fault
  <2>5. HoldIsSaved' BY <1>38 DEF ClaimStopping, SetExec, SetRow, Tell, Fault
  <2> QED BY <2>1, <2>2, <2>3, <2>4, <2>5
<1>39. ASSUME NEW e \in Entries, Claim(e)
      PROVE  ServiceInv'
  <2>1. TypesOK' BY <1>39 DEF Claim, Claimable, IsOldest, Queued, SetRow, Tell, FreshFlags
  <2>2. SpanOK' BY <1>39 DEF Claim, Claimable, IsOldest, Queued, SetRow, Tell, FreshFlags
  <2>3. QueueOK' BY <1>39 DEF Claim, Claimable, IsOldest, Queued, SetRow, Tell, FreshFlags
  <2>4. WorkOK' BY <1>39 DEF Claim, Claimable, IsOldest, Queued, SetRow, Tell, FreshFlags
  <2>5. HoldIsSaved'
    BY <1>39 DEF Claim, Claimable, IsOldest, Queued, SetRow, Tell, FreshFlags
  <2> QED BY <2>1, <2>2, <2>3, <2>4, <2>5
<1>40. CASE \E e \in Entries : Submit(e)
  BY <1>40 DEF Submit, SetRow, Tell
<1>41. CASE \E e \in Entries, who \in Callers : CancelQueued(e, who)
  BY <1>41 DEF CancelQueued, Cancellable, SetRow, Tell
<1>42. ASSUME NEW e \in Entries, NEW who \in Callers, ParkEntry(e, who)
      PROVE  ServiceInv'
  <2>1. TypesOK' BY <1>42 DEF ParkEntry, SetHold
  <2>2. SpanOK' BY <1>42 DEF ParkEntry, SetHold
  <2>3. QueueOK' BY <1>42 DEF ParkEntry, SetHold
  <2>4. WorkOK' BY <1>42 DEF ParkEntry, SetHold
  <2>5. HoldIsSaved' BY <1>42, SavedHoldReadsBack DEF ParkEntry, SetHold
  <2> QED BY <2>1, <2>2, <2>3, <2>4, <2>5
<1>43. ASSUME NEW e \in Entries, NEW who \in Callers, UnparkEntry(e, who)
      PROVE  ServiceInv'
  <2>1. TypesOK' BY <1>43 DEF UnparkEntry, ClearHold
  <2>2. SpanOK' BY <1>43 DEF UnparkEntry, ClearHold
  <2>3. QueueOK' BY <1>43 DEF UnparkEntry, ClearHold
  <2>4. WorkOK' BY <1>43 DEF UnparkEntry, ClearHold
  <2>5. HoldIsSaved' BY <1>43, NoHoldReadsBack DEF UnparkEntry, ClearHold
  <2> QED BY <2>1, <2>2, <2>3, <2>4, <2>5
<1>44. CASE \E c \in Clients, e \in Entries, who \in Callers : CancelRunning(c, e, who)
  BY <1>44 DEF CancelRunning, KeepPending
<1>45. CASE \E c \in Clients : DeliverCancel(c)
  BY <1>45 DEF DeliverCancel
<1>46. ASSUME NEW who \in Callers, HoldQueue(who)
      PROVE  ServiceInv'
  <2>1. TypesOK' BY <1>46 DEF HoldQueue, SetHold
  <2>2. SpanOK' BY <1>46 DEF HoldQueue, SetHold
  <2>3. QueueOK' BY <1>46 DEF HoldQueue, SetHold
  <2>4. WorkOK' BY <1>46 DEF HoldQueue, SetHold
  <2>5. HoldIsSaved' BY <1>46, SavedHoldReadsBack DEF HoldQueue, SetHold
  <2> QED BY <2>1, <2>2, <2>3, <2>4, <2>5
<1>47. ASSUME NEW who \in Callers, ReleaseQueue(who)
      PROVE  ServiceInv'
  <2>1. TypesOK' BY <1>47 DEF ReleaseQueue, ClearHold
  <2>2. SpanOK' BY <1>47 DEF ReleaseQueue, ClearHold
  <2>3. QueueOK' BY <1>47 DEF ReleaseQueue, ClearHold
  <2>4. WorkOK' BY <1>47 DEF ReleaseQueue, ClearHold
  <2>5. HoldIsSaved' BY <1>47, NoHoldReadsBack DEF ReleaseQueue, ClearHold
  <2> QED BY <2>1, <2>2, <2>3, <2>4, <2>5
<1>48. ASSUME NEW e \in Entries, RecoverEntry(e)
      PROVE  ServiceInv'
  <2>1. TypesOK' BY <1>48 DEF RecoverEntry, RecoveredState, SetRow, SetExec
  <2>2. SpanOK' BY <1>48 DEF RecoverEntry, RecoveredState, SetRow, SetExec
  <2>3. QueueOK' BY <1>48 DEF RecoverEntry, RecoveredState, SetRow, SetExec
  <2>4. WorkOK' BY <1>48 DEF RecoverEntry, RecoveredState, SetRow, SetExec
  <2>5. HoldIsSaved' BY <1>48 DEF RecoverEntry, RecoveredState, SetRow, SetExec
  <2> QED BY <2>1, <2>2, <2>3, <2>4, <2>5
<1>49. CASE ChainStep
  <2>1. TypesOK' BY <1>49, <1>chain DEF ChainMove, ChainKeeps
  <2>2. SpanOK' BY <1>49, <1>chain DEF ChainMove, ChainKeeps
  <2>3. QueueOK' BY <1>49, <1>chain DEF ChainMove, ChainKeeps
  <2>4. WorkOK' BY <1>49, <1>chain DEF ChainMove, ChainKeeps
  <2>5. HoldIsSaved' BY <1>49, <1>chain DEF ChainMove, ChainKeeps
  <2> QED BY <2>1, <2>2, <2>3, <2>4, <2>5
<1>50. CASE UNCHANGED vars BY <1>50 DEF vars
<1> QED
 
    BY <1>1, <1>2, <1>3, <1>4, <1>5, <1>6, <1>7, <1>8, <1>9, <1>10, <1>11, <1>12, <1>13,
           <1>14, <1>15, <1>16, <1>17, <1>18, <1>19, <1>20, <1>21, <1>22, <1>23, <1>24,
           <1>25, <1>26, <1>27, <1>28, <1>29, <1>30, <1>31, <1>32, <1>33, <1>34, <1>35,
           <1>36, <1>37, <1>38, <1>39, <1>40, <1>41, <1>42, <1>43, <1>44, <1>45, <1>46,
           <1>47, <1>48, <1>49, <1>50
       DEF Next, WorkerRuns, WorkerWaits, Api, Process

\* The steps the queue's users do not see.
Unseen ==
  \/ Top \/ ClaimNone \/ IdleEnds \/ Parse \/ Begin \/ Reserve \/ JobStart \/ StartGuard
  \/ GuardCancel \/ RecordFinish \/ FinishReason \/ Publish \/ TokenEnds \/ Release
  \/ WaitAfter \/ WaitCut \/ WaitElapsed \/ GenLink \/ GenStart \/ GenBegin \/ GenGuard
  \/ GenCancel \/ GenAttach \/ GenChildEnds \/ GenRecord \/ GenFailed
  \/ StopSet \/ StopReason \/ StopCancel \/ StopJoined \/ Crash \/ RecoverSweep
  \/ StartWorker
  \/ \E c \in Clients : DeliverCancel(c)
  \/ \E c \in Clients, e \in Entries, who \in Callers : CancelRunning(c, e, who)

\* They change neither a row, nor the saved hold, nor what has run.
LEMMA UnseenStutters ==
  ASSUME Unseen
  PROVE  UNCHANGED <<rows, holdRow, ran>>
<1> USE DEF storeVars, ghostVars
<1>1. CASE Top \/ ClaimNone \/ IdleEnds \/ Parse \/ Begin \/ Reserve \/ JobStart
  BY <1>1 DEF Top, ClaimNone, IdleEnds, Parse, Begin, Reserve, JobStart
<1>2. CASE StartGuard \/ GuardCancel \/ RecordFinish \/ FinishReason \/ Publish
  BY <1>2 DEF StartGuard, GuardCancel, RecordFinish, FinishReason, Publish
<1>3. CASE TokenEnds \/ Release \/ WaitAfter \/ WaitCut \/ WaitElapsed
  BY <1>3 DEF TokenEnds, Release, WaitAfter, WaitCut, WaitElapsed
<1>4. CASE GenLink \/ GenStart \/ GenBegin \/ GenGuard \/ GenCancel \/ GenAttach
  BY <1>4 DEF GenLink, GenStart, GenBegin, GenGuard, GenCancel, GenAttach
<1>5. CASE GenChildEnds \/ GenRecord \/ GenFailed
  BY <1>5 DEF GenChildEnds, GenRecord, GenFailed
<1>6. CASE StopSet \/ StopReason \/ StopCancel \/ StopJoined \/ Crash
  BY <1>6 DEF StopSet, StopReason, StopCancel, StopJoined, Crash, MemoryLost
<1>7. CASE RecoverSweep \/ StartWorker
  BY <1>7 DEF RecoverSweep, StartWorker
<1>8. CASE \/ \E c \in Clients : DeliverCancel(c)
           \/ \E c \in Clients, e \in Entries, who \in Callers : CancelRunning(c, e, who)
  BY <1>8 DEF DeliverCancel, CancelRunning
<1> QED BY <1>1, <1>2, <1>3, <1>4, <1>5, <1>6, <1>7, <1>8 DEF Unseen

\* Each step of the worker, the API and the process is a step of the abstract
\* queue, or none.
LEMMA ServiceStep ==
  ASSUME MaxFaults = 0, ServiceInv, [Next]_vars
  PROVE  [Service!ServiceNext]_(Service!serviceVars)
<1> USE DEF Service!serviceVars, Service!SetState, Service!Entries, Entries
<1>fault. ~Fault
  BY DEF Fault, ServiceInv, TypesOK
<1>1. CASE UNCHANGED <<rows, holdRow, ran>>
  BY <1>1
<1>2. CASE Unseen
  BY <1>2, <1>1, UnseenStutters
<1>3. CASE UNCHANGED vars
  BY <1>3, <1>1 DEF vars, storeVars, ghostVars
<1>4. ASSUME NEW e \in Entries, ClaimStopping(e)
      PROVE  UNCHANGED <<rows, holdRow, ran>>
  BY <1>4, <1>fault DEF ClaimStopping, ghostVars
<1>5. ASSUME NEW e \in Entries, Claim(e)
      PROVE  Service!Start(e)
  <2>1. host = "up" /\ current = NoEntry
    BY <1>5 DEF Claim, ServiceInv, SpanOK, FreeSteps
  <2>2. \A d \in Entries : rows[d] # "running"
    BY <2>1 DEF ServiceInv, QueueOK, NoEntry
  <2>3. ~(holdRow.text # "absent")
    <3>1. hold = ReadHold(holdRow) BY <2>1 DEF ServiceInv, HoldIsSaved, Up
    <3>2. hold.held = (holdRow.text # "absent") BY <3>1 DEF ReadHold
    <3>3. ~hold.held BY <1>5 DEF Claim, Claimable
    <3> QED BY <3>2, <3>3
  <2> QED BY <1>5, <2>2, <2>3
          DEF Claim, Claimable, IsOldest, Queued, SetRow, Service!Start, Service!Waiting
<1>6. ASSUME NEW e \in Entries, Submit(e)
      PROVE  Service!Enter(e)
  BY <1>6 DEF Submit, SetRow, Service!Enter, ghostVars
<1>7. ASSUME NEW e \in Entries, NEW who \in Callers, CancelQueued(e, who)
      PROVE  Service!Withdraw(e)
  BY <1>7 DEF CancelQueued, Cancellable, SetRow, Service!Withdraw
<1>8. ASSUME NEW e \in Entries, NEW who \in Callers, ParkEntry(e, who)
      PROVE  Service!Hold \/ UNCHANGED <<rows, holdRow, ran>>
  BY <1>8 DEF ParkEntry, SetHold, SavedRow, Service!Hold
<1>9. ASSUME NEW e \in Entries, NEW who \in Callers, UnparkEntry(e, who)
      PROVE  Service!Free \/ UNCHANGED <<rows, holdRow, ran>>
  BY <1>9 DEF UnparkEntry, ClearHold, NoRow, Service!Free, ghostVars
<1>10. ASSUME NEW who \in Callers, HoldQueue(who)
       PROVE  Service!Hold
  BY <1>10 DEF HoldQueue, SetHold, SavedRow, Service!Hold, ghostVars
<1>11. ASSUME NEW who \in Callers, ReleaseQueue(who)
       PROVE  Service!Free
  BY <1>11 DEF ReleaseQueue, ClearHold, NoRow, Service!Free
<1>12. CASE FinishEntry \/ FailToStart \/ GenRetry
  <2>1. PICK s \in Finished :
          /\ MarkFinished(current, s)
          /\ s \in {"succeeded", "parked"} => current \in ran
    BY <1>12, <1>fault
       DEF FinishEntry, FailToStart, GenRetry, Finished, ServiceInv, WorkOK
  <2>2. current \in Entries /\ rows[current] = "running"
    BY <1>12 DEF FinishEntry, FailToStart, GenRetry, ServiceInv, SpanOK, EarlySteps,
                 LateSteps
  <2>3. UNCHANGED <<holdRow, ran>>
    BY <1>12 DEF FinishEntry, FailToStart, GenRetry, ghostVars
  <2>4. Service!End(current, s)
    BY <2>1, <2>2, <2>3 DEF MarkFinished, SetRow, Service!End
  <2> QED BY <2>1, <2>2, <2>4 DEF Service!ServiceNext, Service!Ends, Finished
<1>13. ASSUME NEW e \in Entries, RecoverEntry(e)
       PROVE  Service!ServiceNext
  <2>1. exec[e] \in ExecStates /\ exec[e] # "running" /\ rows[e] = "running"
    BY <1>13 DEF RecoverEntry, ServiceInv, TypesOK, WorkOK
  <2>2. CASE exec[e] \in {"unlinked", "reserved"}
    <3>1. Service!PutBack(e)
      BY <1>13, <2>1, <2>2
         DEF RecoverEntry, RecoveredState, SetRow, ServiceInv, WorkOK, Service!PutBack,
             ghostVars
    <3> QED BY <3>1 DEF Service!ServiceNext
  <2>3. CASE exec[e] \notin {"unlinked", "reserved"}
    <3>1. exec[e] \in Service!Ends
      BY <2>1, <2>3 DEF ExecStates, Service!Ends
    <3>2. Service!End(e, exec[e])
      BY <1>13, <2>1, <2>3
         DEF RecoverEntry, RecoveredState, SetRow, ServiceInv, WorkOK, Service!End,
             ghostVars
    <3> QED BY <3>1, <3>2 DEF Service!ServiceNext
  <2> QED BY <2>2, <2>3
<1>14. CASE ChainStep
  <2>1. ChainMove /\ ChainKeeps
    BY <1>14, ChainStepEffect
  <2>2. current \in Entries /\ rows[current] = "running"
    BY <2>1 DEF ChainMove, ServiceInv, SpanOK, LateSteps
  <2>3. Service!Work(current) \/ UNCHANGED <<rows, holdRow, ran>>
    BY <2>1, <2>2 DEF ChainKeeps, Service!Work
  <2> QED BY <1>1, <2>2, <2>3 DEF Service!ServiceNext
<1>15. CASE GenAttachStop
  <2>1. current \in Entries /\ rows[current] = "running"
    BY <1>15 DEF GenAttachStop, ServiceInv, SpanOK, LateSteps
  <2>2. Service!Work(current)
    BY <1>15, <2>1 DEF GenAttachStop, storeVars, Service!Work
  <2> QED BY <2>1, <2>2 DEF Service!ServiceNext
<1>16. CASE Next
  <2>1. CASE WorkerRuns
    BY <2>1, <1>1, <1>2, <1>4, <1>5, <1>12, <1>14, <1>15
       DEF WorkerRuns, Unseen, Service!ServiceNext
  <2>2. CASE WorkerWaits
    BY <2>2, <1>2, <1>14 DEF WorkerWaits, Unseen
  <2>3. CASE Api
    BY <2>3, <1>1, <1>2, <1>6, <1>7, <1>8, <1>9, <1>10, <1>11
       DEF Api, Unseen, Service!ServiceNext
  <2>4. CASE Process
    BY <2>4, <1>2, <1>13 DEF Process, Unseen
  <2> QED BY <1>16, <2>1, <2>2, <2>3, <2>4 DEF Next
<1> QED BY <1>3, <1>16

\* The invariant holds in every reachable state.
LEMMA ServiceInvariance ==
  ASSUME MaxFaults = 0
  PROVE  Spec => []ServiceInv
<1>1. Init => ServiceInv
  BY ServiceInvInit
<1>2. ServiceInv /\ [Next]_vars => ServiceInv'
  BY ServiceInvNext
<1> QED BY <1>1, <1>2, PTL DEF Spec

\* The queue keeps its promises (services/queue_worker.py with queue_recovery.py
\* and queue_hold.py): for any number of entries, callers, clients, runs, parks
\* and crashes, entries start oldest first, one at a time and never past a hold,
\* an entry that ended stays ended, and nothing that ran is put back.
THEOREM ServiceRefinedThm ==
  ASSUME MaxFaults = 0
  PROVE  Spec => ServiceRefined
<1>1. Init => Service!ServiceInit
  BY DEF Init, NoRow, DamagedRow, Service!ServiceInit, Service!Entries, Entries
<1>2. ServiceInv /\ [Next]_vars => [Service!ServiceNext]_(Service!serviceVars)
  BY ServiceStep
<1>3. Spec => []ServiceInv
  BY ServiceInvariance
<1> QED BY <1>1, <1>2, <1>3, PTL DEF Spec, ServiceRefined, Service!ServiceSpec

\* While the server is up the entry whose row reads running is the claimed one,
\* so a cancel of it is never lost between the row and the worker's memory.
THEOREM RunningIsClaimedThm ==
  ASSUME MaxFaults = 0
  PROVE  Spec => []RunningIsClaimed
<1>1. ServiceInv => RunningIsClaimed
  BY DEF ServiceInv, TypesOK, SpanOK, QueueOK, RunningIsClaimed, IsRunning, Up, FreeSteps,
         EarlySteps, LateSteps, StartSteps, ChainSteps, DoneSteps, NoEntry, Entries
<1> QED BY <1>1, ServiceInvariance, PTL

\* One entry runs at a time, and it is the oldest of those not yet ended, through
\* crashes, recoveries and entries put back.
THEOREM RunningIsOldestThm ==
  ASSUME MaxFaults = 0
  PROVE  Spec => []RunningIsOldest
<1>1. ServiceInv => RunningIsOldest
  BY DEF ServiceInv, QueueOK
<1> QED BY <1>1, ServiceInvariance, PTL

\* An entry that reads queued has never had a child process: recovery does no
\* work twice.
THEOREM QueuedNeverRanThm ==
  ASSUME MaxFaults = 0
  PROVE  Spec => []QueuedNeverRan
<1>1. ServiceInv => QueuedNeverRan
  BY DEF ServiceInv, QueueOK, QueuedNeverRan
<1> QED BY <1>1, ServiceInvariance, PTL

\* The hold in memory is always the one the next start would read.
THEOREM HoldIsSavedThm ==
  ASSUME MaxFaults = 0
  PROVE  Spec => []HoldIsSaved
<1>1. ServiceInv => HoldIsSaved
  BY DEF ServiceInv
<1> QED BY <1>1, ServiceInvariance, PTL

\* The four together: what the rows say is what happened, while the store's
\* writes succeed.
THEOREM RowsTrueThm ==
  ASSUME MaxFaults = 0
  PROVE  Spec => []RowsTrue
<1>1. RunningIsClaimed /\ RunningIsOldest /\ HoldIsSaved /\ QueuedNeverRan => RowsTrue
  BY DEF RowsTrue
<1> QED BY <1>1, RunningIsClaimedThm, RunningIsOldestThm, HoldIsSavedThm, QueuedNeverRanThm, PTL

------------------------------------------------------------------------------
(* What the queue says of an entry, against its execution and what a client   *)
(* was told.                                                                  *)

RunSteps == {"enter", "checkStop", "checkPark", "prepare", "attach", "attachCheck",
             "child", "finish"}
BoundarySteps == {"readParks", "afterStop", "afterPark", "between", "cooling",
                  "coolStop", "coolPark", "coolCount", "coolRest", "coolEnd"}

\* Where the loop stands in its chain: a chain that starts at run f.
LoopAt(f) ==
  /\ first = f /\ f \in Nat /\ run \in Nat /\ completed \in Nat
  /\ 1 <= f /\ f <= run /\ run <= TotalRuns
  /\ pc \in RunSteps => completed = run - 1
  /\ pc \in BoundarySteps => completed = run /\ run < TotalRuns
  /\ pc \in RunSteps \cup BoundarySteps => outcome = "running"
  /\ pc = "checkPark" => f < run
  /\ outcome = "parked" => f <= completed /\ completed < TotalRuns

\* The rows of the execution follow the loop.
LoopOK ==
  /\ pc \in ChainSteps => /\ LoopAt(FirstRun[current])
                          /\ completed >= first => ranTo[current] = completed
  /\ pc = "guardCancel" => /\ first = FirstRun[current] /\ run = first
                           /\ completed = first - 1
                           /\ outcome = "running"

\* A parked execution can be resumed, whoever ends its entry.
ParkedResumes ==
  \A e \in Entries : exec[e] = "parked" => FirstRun[e] <= ranTo[e] /\ ranTo[e] < TotalRuns

\* How the claimed entry's execution stands when its end is computed and written.
EndingOK ==
  /\ pc \in {"reserve", "records", "guard", "guardCancel"} \cup ChainSteps => recording = TRUE
  /\ pc \in {"guard", "guardCancel"} \cup ChainSteps => exec[current] = "running"
  /\ pc = "genRecord" => outcome # "parked"
  /\ pc = "finReason" => exec[current] = outcome
  /\ pc = "finEntry" =>
       /\ final \in {"succeeded", "parked", "interrupted"} => exec[current] = final
       /\ final = "cancelled" => exec[current] = "interrupted"
  /\ pc = "genRetry" => final = "failed"

ExecOK ==
  /\ ranTo \in [Entries -> Nat]
  /\ ParkedResumes
  /\ FinishedMatchesExecution
  /\ EndingOK

\* A client is told what the row says, except of the end not published yet.
TellOK ==
  /\ told \in [Entries -> RowStates]
  /\ pc = "publish" => rows[current] = final /\ final \in Finished
  /\ host = "up" =>
       \A e \in Entries :
         told[e] = rows[e] \/ (e = current /\ pc = "publish" /\ told[e] = "running")

MatchInv == LoopOK /\ ExecOK /\ TellOK

\* What a step of the chain does to where the loop stands.
LEMMA LoopEffect ==
  ASSUME NEW f, LoopAt(f), ChainThread
  PROVE  LoopAt(f)' /\ pc \in ChainSteps
<1> USE ChainAssumption
        DEF LoopAt, RunSteps, BoundarySteps, LeaveLoop, NextRun, ChainSteps
<1>1. CASE EnterLoop \/ Prepare \/ Attach \/ AttachStop
  BY <1>1 DEF EnterLoop, Prepare, Attach, AttachStop
<1>2. CASE CheckStop BY <1>2 DEF CheckStop
<1>3. CASE CheckPark BY <1>3 DEF CheckPark
<1>4. CASE ChildEnds BY <1>4 DEF ChildEnds
<1>5. CASE FinishRun BY <1>5 DEF FinishRun
<1>6. CASE ReadParks \/ AfterStop BY <1>6 DEF ReadParks, AfterStop
<1>7. CASE AfterPark BY <1>7 DEF AfterPark
<1>8. CASE Between BY <1>8 DEF Between
<1>9. CASE CoolElapsed \/ CoolWoken \/ CoolStop \/ CoolCount \/ CoolRest
  BY <1>9 DEF CoolElapsed, CoolWoken, CoolStop, CoolCount, CoolRest
<1>10. CASE CoolPark BY <1>10 DEF CoolPark
<1>11. CASE CoolEnd BY <1>11 DEF CoolEnd
<1>12. CASE Save BY <1>12 DEF Save
<1>13. CASE SaveRaises BY <1>13 DEF SaveRaises
<1> QED BY <1>1, <1>2, <1>3, <1>4, <1>5, <1>6, <1>7, <1>8, <1>9, <1>10, <1>11, <1>12, <1>13
        DEF ChainThread

\* Only the claimed entry's execution moves, and a parked one can be resumed.
LEMMA OneExecution ==
  ASSUME MatchInv, current \in Entries,
         \A e \in Entries \ {current} :
           rows'[e] = rows[e] /\ exec'[e] = exec[e] /\ ranTo'[e] = ranTo[e],
         rows'[current] \in {"running", "failed"},
         exec'[current] = "parked" =>
           FirstRun[current] <= ranTo'[current] /\ ranTo'[current] < TotalRuns
  PROVE  ParkedResumes' /\ FinishedMatchesExecution'
  BY DEF MatchInv, ExecOK, ParkedResumes, FinishedMatchesExecution

LEMMA MatchInvInit == Init => MatchInv
<1> SUFFICES ASSUME Init PROVE MatchInv
  OBVIOUS
<1> USE DEF Init
<1>1. LoopOK BY DEF LoopOK, ChainSteps
<1>2. ExecOK BY DEF ExecOK, ParkedResumes, FinishedMatchesExecution, EndingOK, ChainSteps
<1>3. TellOK BY DEF TellOK, RowStates
<1> QED BY <1>1, <1>2, <1>3 DEF MatchInv

\* Every step keeps the invariant.
LEMMA MatchInvNext ==
  ASSUME MaxFaults = 0, ServiceInv, MatchInv, [Next]_vars
  PROVE  MatchInv'
<1>nofault. ~Fault
  BY DEF Fault, ServiceInv, TypesOK
<1>chain. ChainStep => ChainKeeps /\ pc' \in ChainSteps /\ pc \in ChainSteps
  BY ChainStepEffect DEF ChainMove
<1>loop. ASSUME ChainStep PROVE LoopAt(FirstRun[current])'
  <2>1. LoopAt(FirstRun[current]) /\ current' = current
    BY <1>loop, <1>chain DEF MatchInv, LoopOK, ChainKeeps
  <2>2. PICK f : f = FirstRun[current] OBVIOUS
  <2>3. LoopAt(f)' BY <1>loop, <2>1, <2>2, LoopEffect DEF ChainStep
  <2> QED BY <2>1, <2>2, <2>3 DEF LoopAt
<1> USE WorkerAssumption, <1>nofault
        DEF ServiceInv, TypesOK, SpanOK, QueueOK, WorkOK, MatchInv, LoopOK, ExecOK, TellOK,
         ParkedResumes, FinishedMatchesExecution, EndingOK,
         Up, Entries, RowStates, Finished, ExecStates, FreeSteps, DoneSteps,
         StartSteps, EarlySteps, LateSteps, ChainSteps, EndSteps, NoEntry,
        chainVars, storeVars, flagVars, localVars, loopVars, hostVars, ghostVars
<1>1. CASE Top
  <2>1. LoopOK' BY <1>1 DEF Top, LoopAt
  <2>2. ExecOK' BY <1>1 DEF Top
  <2>3. TellOK' BY <1>1 DEF Top
  <2> QED BY <2>1, <2>2, <2>3
<1>2. CASE ClaimNone
  <2>1. LoopOK' BY <1>2 DEF ClaimNone, LoopAt
  <2>2. ExecOK' BY <1>2 DEF ClaimNone
  <2>3. TellOK' BY <1>2 DEF ClaimNone
  <2> QED BY <2>1, <2>2, <2>3
<1>3. CASE IdleEnds
  <2>1. LoopOK' BY <1>3 DEF IdleEnds, LoopAt
  <2>2. ExecOK' BY <1>3 DEF IdleEnds
  <2>3. TellOK' BY <1>3 DEF IdleEnds
  <2> QED BY <2>1, <2>2, <2>3
<1>4. CASE Parse
  <2>1. LoopOK' BY <1>4 DEF Parse, LoopAt
  <2>2. ExecOK' BY <1>4 DEF Parse
  <2>3. TellOK' BY <1>4 DEF Parse
  <2> QED BY <2>1, <2>2, <2>3
<1>5. CASE Begin
  <2>1. LoopOK' BY <1>5 DEF Begin, Swept, LoopAt
  <2>2. ExecOK' BY <1>5 DEF Begin, Swept
  <2>3. TellOK' BY <1>5 DEF Begin, Swept
  <2> QED BY <2>1, <2>2, <2>3
<1>6. CASE Reserve
  <2>1. LoopOK' BY <1>6 DEF Reserve, LeaveExecutor, SetExec, LoopAt
  <2>2. ExecOK'
    <3>0. current \in Entries /\ rows[current] = "running"
      BY <1>6 DEF Reserve
    <3>1. /\ \A e \in Entries \ {current} :
               rows'[e] = rows[e] /\ exec'[e] = exec[e] /\ ranTo'[e] = ranTo[e]
          /\ rows'[current] \in {"running", "failed"}
          /\ ranTo' \in [Entries -> Nat]
      BY <1>6, <3>0 DEF Reserve, LeaveExecutor, SetExec
    <3>2. exec'[current] = "parked" =>
            FirstRun[current] <= ranTo'[current] /\ ranTo'[current] < TotalRuns
      BY <1>6, <3>0 DEF Reserve, LeaveExecutor, SetExec
    <3>3. ParkedResumes' /\ FinishedMatchesExecution'
      BY <3>0, <3>1, <3>2, OneExecution
    <3>4. EndingOK' BY <1>6, <3>0 DEF Reserve, LeaveExecutor, SetExec
    <3> QED BY <3>1, <3>3, <3>4
  <2>3. TellOK' BY <1>6 DEF Reserve, LeaveExecutor, SetExec
  <2> QED BY <2>1, <2>2, <2>3
<1>7. CASE JobStart
  <2>1. LoopOK' BY <1>7 DEF JobStart, LeaveExecutor, SetExec, LoopAt
  <2>2. ExecOK'
    <3>0. current \in Entries /\ rows[current] = "running" /\ UNCHANGED <<rows, ranTo, current>>
      BY <1>7 DEF JobStart
    <3>r. pc = "records" /\ recording = TRUE
      BY <1>7 DEF JobStart
    <3>1. \/ /\ exec' = exec /\ pc' = "failStart"
          \/ /\ exec' = [exec EXCEPT ![current] = "running"]
             /\ pc' = "guard" /\ recording' = recording
      BY <1>7 DEF JobStart, LeaveExecutor, SetExec
    <3>2. \A e \in Entries \ {current} : exec'[e] = exec[e]
      BY <3>0, <3>1
    <3>3. exec'[current] \in {exec[current], "running"} BY <3>0, <3>1
    <3>4. ParkedResumes' /\ FinishedMatchesExecution'
      BY <3>0, <3>2, <3>3, OneExecution
    <3>5. CASE pc' = "failStart" BY <3>0, <3>2, <3>3, <3>4, <3>5
    <3>6. CASE pc' = "guard"
      <4>1. recording' = TRUE /\ exec'[current'] = "running" BY <3>0, <3>1, <3>r, <3>6
      <4>2. EndingOK' BY <4>1, <3>6
      <4> QED BY <3>0, <3>4, <4>2
    <3> QED BY <3>1, <3>5, <3>6
  <2>3. TellOK' BY <1>7 DEF JobStart, LeaveExecutor, SetExec
  <2> QED BY <2>1, <2>2, <2>3
<1>8. CASE StartGuard
  <2>0. /\ current \in Entries /\ FirstRun[current] \in Nat
        /\ 1 <= FirstRun[current] /\ FirstRun[current] <= TotalRuns
    BY <1>8 DEF StartGuard, Runs
  <2>1. LoopOK'
    <3>1. /\ first' = FirstRun[current] /\ run' = first' /\ completed' = first' - 1
          /\ outcome' = "running" /\ UNCHANGED <<current, ranTo>>
          /\ pc' \in {"guardCancel", "enter"}
      BY <1>8 DEF StartGuard, StartLoop, GuardNext
    <3> QED BY <2>0, <3>1 DEF LoopAt, RunSteps, BoundarySteps
  <2>2. ExecOK' BY <1>8 DEF StartGuard, GuardPark, GuardNext, StartLoop
  <2>3. TellOK' BY <1>8 DEF StartGuard, GuardPark, GuardNext, StartLoop
  <2> QED BY <2>1, <2>2, <2>3
<1>9. CASE GuardCancel
  <2>0. /\ current \in Entries /\ FirstRun[current] \in Nat
        /\ 1 <= FirstRun[current] /\ FirstRun[current] <= TotalRuns
    BY <1>9 DEF GuardCancel, Runs
  <2>1. LoopOK' BY <1>9, <2>0 DEF GuardCancel, LoopAt, RunSteps, BoundarySteps
  <2>2. ExecOK' BY <1>9 DEF GuardCancel
  <2>3. TellOK' BY <1>9 DEF GuardCancel
  <2> QED BY <2>1, <2>2, <2>3
<1>10. CASE RecordFinish
  <2>1. LoopOK' BY <1>10 DEF RecordFinish, SetExec, LoopAt
  <2>2. ExecOK'
    <3>0. current \in Entries /\ rows[current] = "running" /\ UNCHANGED <<rows, ranTo, current>>
      BY <1>10 DEF RecordFinish
    <3>r. recording = TRUE /\ pc = "jobFinished" /\ LoopAt(FirstRun[current])
          /\ (completed >= first => ranTo[current] = completed)
      BY <1>10 DEF RecordFinish
    <3>1. exec' = [exec EXCEPT ![current] = outcome] /\ pc' = "finReason" /\ outcome' = outcome
      BY <1>10, <3>r DEF RecordFinish, SetExec
    <3>2. \A e \in Entries \ {current} : exec'[e] = exec[e]
      BY <3>0, <3>1
    <3>3. exec'[current] = outcome BY <3>0, <3>1
    <3>4. outcome = "parked" => FirstRun[current] <= ranTo[current] /\ ranTo[current] < TotalRuns
      BY <3>r DEF LoopAt
    <3>5. ParkedResumes' /\ FinishedMatchesExecution'
      BY <3>0, <3>2, <3>3, <3>4, OneExecution
    <3>6. EndingOK' BY <3>0, <3>1, <3>3
    <3> QED BY <3>0, <3>5, <3>6
  <2>3. TellOK' BY <1>10 DEF RecordFinish, SetExec
  <2> QED BY <2>1, <2>2, <2>3
<1>11. CASE FinishReason
  <2>1. LoopOK' BY <1>11 DEF FinishReason, FinalState, LoopAt
  <2>2. ExecOK' BY <1>11 DEF FinishReason, FinalState
  <2>3. TellOK' BY <1>11 DEF FinishReason, FinalState
  <2> QED BY <2>1, <2>2, <2>3
<1>12. CASE FinishEntry
  <2>1. LoopOK' BY <1>12 DEF FinishEntry, MarkFinished, SetRow, LoopAt
  <2>2. ExecOK' BY <1>12 DEF FinishEntry, MarkFinished, SetRow
  <2>3. TellOK' BY <1>12 DEF FinishEntry, MarkFinished, SetRow
  <2> QED BY <2>1, <2>2, <2>3
<1>13. CASE FailToStart
  <2>1. LoopOK' BY <1>13 DEF FailToStart, MarkFinished, SetRow, SetExec, LoopAt
  <2>2. ExecOK'
    <3>0. current \in Entries /\ rows[current] = "running"
      BY <1>13 DEF FailToStart
    <3>1. /\ \A e \in Entries \ {current} :
               rows'[e] = rows[e] /\ exec'[e] = exec[e] /\ ranTo'[e] = ranTo[e]
          /\ rows'[current] \in {"running", "failed"}
          /\ ranTo' \in [Entries -> Nat]
      BY <1>13, <3>0 DEF FailToStart, MarkFinished, SetRow, SetExec
    <3>2. exec'[current] = "parked" =>
            FirstRun[current] <= ranTo'[current] /\ ranTo'[current] < TotalRuns
      BY <1>13, <3>0 DEF FailToStart, MarkFinished, SetRow, SetExec
    <3>3. ParkedResumes' /\ FinishedMatchesExecution'
      BY <3>0, <3>1, <3>2, OneExecution
    <3>4. EndingOK' BY <1>13, <3>0 DEF FailToStart, MarkFinished, SetRow, SetExec
    <3> QED BY <3>1, <3>3, <3>4
  <2>3. TellOK' BY <1>13 DEF FailToStart, MarkFinished, SetRow, SetExec
  <2> QED BY <2>1, <2>2, <2>3
<1>14. CASE Publish
  <2>1. LoopOK' BY <1>14 DEF Publish, Tell, Published, LoopAt
  <2>2. ExecOK' BY <1>14 DEF Publish, Tell, Published
  <2>3. TellOK' BY <1>14 DEF Publish, Tell, Published
  <2> QED BY <2>1, <2>2, <2>3
<1>15. CASE TokenEnds
  <2>1. LoopOK' BY <1>15 DEF TokenEnds, LoopAt
  <2>2. ExecOK' BY <1>15 DEF TokenEnds
  <2>3. TellOK' BY <1>15 DEF TokenEnds
  <2> QED BY <2>1, <2>2, <2>3
<1>16. CASE Release
  <2>1. LoopOK' BY <1>16 DEF Release, LoopGone, LoopAt
  <2>2. ExecOK' BY <1>16 DEF Release, LoopGone
  <2>3. TellOK' BY <1>16 DEF Release, LoopGone
  <2> QED BY <2>1, <2>2, <2>3
<1>17. CASE WaitAfter
  <2>1. LoopOK' BY <1>17 DEF WaitAfter, LoopAt
  <2>2. ExecOK' BY <1>17 DEF WaitAfter
  <2>3. TellOK' BY <1>17 DEF WaitAfter
  <2> QED BY <2>1, <2>2, <2>3
<1>18. CASE WaitCut
  <2>1. LoopOK' BY <1>18 DEF WaitCut, LoopAt
  <2>2. ExecOK' BY <1>18 DEF WaitCut
  <2>3. TellOK' BY <1>18 DEF WaitCut
  <2> QED BY <2>1, <2>2, <2>3
<1>19. CASE GenLink
  <2>1. LoopOK' BY <1>19 DEF GenLink, SetExec, LoopAt
  <2>2. ExecOK'
    <3>0. current \in Entries /\ rows[current] = "running"
      BY <1>19 DEF GenLink
    <3>1. /\ \A e \in Entries \ {current} :
               rows'[e] = rows[e] /\ exec'[e] = exec[e] /\ ranTo'[e] = ranTo[e]
          /\ rows'[current] \in {"running", "failed"}
          /\ ranTo' \in [Entries -> Nat]
      BY <1>19, <3>0 DEF GenLink, SetExec
    <3>2. exec'[current] = "parked" =>
            FirstRun[current] <= ranTo'[current] /\ ranTo'[current] < TotalRuns
      BY <1>19, <3>0 DEF GenLink, SetExec
    <3>3. ParkedResumes' /\ FinishedMatchesExecution'
      BY <3>0, <3>1, <3>2, OneExecution
    <3>4. EndingOK' BY <1>19, <3>0 DEF GenLink, SetExec
    <3> QED BY <3>1, <3>3, <3>4
  <2>3. TellOK' BY <1>19 DEF GenLink, SetExec
  <2> QED BY <2>1, <2>2, <2>3
<1>20. CASE GenStart
  <2>1. LoopOK' BY <1>20 DEF GenStart, SetExec, LoopAt
  <2>2. ExecOK' BY <1>20 DEF GenStart, SetExec
  <2>3. TellOK' BY <1>20 DEF GenStart, SetExec
  <2> QED BY <2>1, <2>2, <2>3
<1>21. CASE GenBegin
  <2>1. LoopOK' BY <1>21 DEF GenBegin, LoopAt
  <2>2. ExecOK' BY <1>21 DEF GenBegin
  <2>3. TellOK' BY <1>21 DEF GenBegin
  <2> QED BY <2>1, <2>2, <2>3
<1>22. CASE GenGuard
  <2>1. LoopOK' BY <1>22 DEF GenGuard, LoopAt
  <2>2. ExecOK' BY <1>22 DEF GenGuard
  <2>3. TellOK' BY <1>22 DEF GenGuard
  <2> QED BY <2>1, <2>2, <2>3
<1>23. CASE GenCancel
  <2>1. LoopOK' BY <1>23 DEF GenCancel, LoopAt
  <2>2. ExecOK' BY <1>23 DEF GenCancel
  <2>3. TellOK' BY <1>23 DEF GenCancel
  <2> QED BY <2>1, <2>2, <2>3
<1>24. CASE GenAttach
  <2>1. LoopOK' BY <1>24 DEF GenAttach, LoopAt
  <2>2. ExecOK' BY <1>24 DEF GenAttach
  <2>3. TellOK' BY <1>24 DEF GenAttach
  <2> QED BY <2>1, <2>2, <2>3
<1>25. CASE GenAttachStop
  <2>1. LoopOK' BY <1>25 DEF GenAttachStop, LoopAt
  <2>2. ExecOK' BY <1>25 DEF GenAttachStop
  <2>3. TellOK' BY <1>25 DEF GenAttachStop
  <2> QED BY <2>1, <2>2, <2>3
<1>26. CASE GenRecord
  <2>1. LoopOK' BY <1>26 DEF GenRecord, SetExec, LoopAt
  <2>2. ExecOK'
    <3>0. current \in Entries /\ rows[current] = "running"
      BY <1>26 DEF GenRecord
    <3>1. /\ \A e \in Entries \ {current} :
               rows'[e] = rows[e] /\ exec'[e] = exec[e] /\ ranTo'[e] = ranTo[e]
          /\ rows'[current] \in {"running", "failed"}
          /\ ranTo' \in [Entries -> Nat]
      BY <1>26, <3>0 DEF GenRecord, SetExec
    <3>2. exec'[current] = "parked" =>
            FirstRun[current] <= ranTo'[current] /\ ranTo'[current] < TotalRuns
      BY <1>26, <3>0 DEF GenRecord, SetExec
    <3>3. ParkedResumes' /\ FinishedMatchesExecution'
      BY <3>0, <3>1, <3>2, OneExecution
    <3>4. EndingOK' BY <1>26, <3>0 DEF GenRecord, SetExec
    <3> QED BY <3>1, <3>3, <3>4
  <2>3. TellOK' BY <1>26 DEF GenRecord, SetExec
  <2> QED BY <2>1, <2>2, <2>3
<1>27. CASE GenFailed
  <2>1. LoopOK' BY <1>27 DEF GenFailed, SetExec, LoopAt
  <2>2. ExecOK'
    <3>0. current \in Entries /\ rows[current] = "running"
      BY <1>27 DEF GenFailed
    <3>1. /\ \A e \in Entries \ {current} :
               rows'[e] = rows[e] /\ exec'[e] = exec[e] /\ ranTo'[e] = ranTo[e]
          /\ rows'[current] \in {"running", "failed"}
          /\ ranTo' \in [Entries -> Nat]
      BY <1>27, <3>0 DEF GenFailed, SetExec
    <3>2. exec'[current] = "parked" =>
            FirstRun[current] <= ranTo'[current] /\ ranTo'[current] < TotalRuns
      BY <1>27, <3>0 DEF GenFailed, SetExec
    <3>3. ParkedResumes' /\ FinishedMatchesExecution'
      BY <3>0, <3>1, <3>2, OneExecution
    <3>4. EndingOK' BY <1>27, <3>0 DEF GenFailed, SetExec
    <3> QED BY <3>1, <3>3, <3>4
  <2>3. TellOK' BY <1>27 DEF GenFailed, SetExec
  <2> QED BY <2>1, <2>2, <2>3
<1>28. CASE GenRetry
  <2>1. LoopOK' BY <1>28 DEF GenRetry, MarkFinished, SetRow, LoopAt
  <2>2. ExecOK' BY <1>28 DEF GenRetry, MarkFinished, SetRow
  <2>3. TellOK' BY <1>28 DEF GenRetry, MarkFinished, SetRow
  <2> QED BY <2>1, <2>2, <2>3
<1>29. CASE GenChildEnds
  <2>1. LoopOK' BY <1>29 DEF GenChildEnds, LoopAt
  <2>2. ExecOK' BY <1>29 DEF GenChildEnds
  <2>3. TellOK' BY <1>29 DEF GenChildEnds
  <2> QED BY <2>1, <2>2, <2>3
<1>30. CASE WaitElapsed
  <2>1. LoopOK' BY <1>30 DEF WaitElapsed, LoopAt
  <2>2. ExecOK' BY <1>30 DEF WaitElapsed
  <2>3. TellOK' BY <1>30 DEF WaitElapsed
  <2> QED BY <2>1, <2>2, <2>3
<1>31. CASE StopSet
  <2>1. LoopOK' BY <1>31 DEF StopSet, LoopAt
  <2>2. ExecOK' BY <1>31 DEF StopSet
  <2>3. TellOK' BY <1>31 DEF StopSet
  <2> QED BY <2>1, <2>2, <2>3
<1>32. CASE StopReason
  <2>1. LoopOK' BY <1>32 DEF StopReason, KeepPending, LoopAt
  <2>2. ExecOK' BY <1>32 DEF StopReason, KeepPending
  <2>3. TellOK' BY <1>32 DEF StopReason, KeepPending
  <2> QED BY <2>1, <2>2, <2>3
<1>33. CASE StopCancel
  <2>1. LoopOK' BY <1>33 DEF StopCancel, LoopAt
  <2>2. ExecOK' BY <1>33 DEF StopCancel
  <2>3. TellOK' BY <1>33 DEF StopCancel
  <2> QED BY <2>1, <2>2, <2>3
<1>34. CASE StopJoined
  <2>1. LoopOK' BY <1>34 DEF StopJoined, MemoryLost, FreshFlags, LoopGone, LoopAt
  <2>2. ExecOK' BY <1>34 DEF StopJoined, MemoryLost, FreshFlags, LoopGone
  <2>3. TellOK' BY <1>34 DEF StopJoined, MemoryLost, FreshFlags, LoopGone
  <2> QED BY <2>1, <2>2, <2>3
<1>35. CASE Crash
  <2>1. LoopOK' BY <1>35 DEF Crash, MemoryLost, FreshFlags, LoopGone, LoopAt
  <2>2. ExecOK' BY <1>35 DEF Crash, MemoryLost, FreshFlags, LoopGone
  <2>3. TellOK' BY <1>35 DEF Crash, MemoryLost, FreshFlags, LoopGone
  <2> QED BY <2>1, <2>2, <2>3
<1>36. CASE RecoverSweep
  <2>1. LoopOK' BY <1>36 DEF RecoverSweep, Swept, LoopAt
  <2>2. ExecOK' BY <1>36 DEF RecoverSweep, Swept
  <2>3. TellOK' BY <1>36 DEF RecoverSweep, Swept
  <2> QED BY <2>1, <2>2, <2>3
<1>37. CASE StartWorker
  <2>1. LoopOK' BY <1>37 DEF StartWorker, LoopAt
  <2>2. ExecOK' BY <1>37 DEF StartWorker
  <2>3. TellOK' BY <1>37 DEF StartWorker
  <2> QED BY <2>1, <2>2, <2>3
<1>38. ASSUME NEW e \in Entries, ClaimStopping(e)
      PROVE  MatchInv'
  <2>1. LoopOK' BY <1>38 DEF ClaimStopping, SetExec, SetRow, Tell, Claimable, IsOldest, Queued, LoopAt
  <2>2. ExecOK' BY <1>38 DEF ClaimStopping, SetExec, SetRow, Tell, Claimable, IsOldest, Queued
  <2>3. TellOK' BY <1>38 DEF ClaimStopping, SetExec, SetRow, Tell, Claimable, IsOldest, Queued
  <2> QED BY <2>1, <2>2, <2>3
<1>39. ASSUME NEW e \in Entries, Claim(e)
      PROVE  MatchInv'
  <2>1. LoopOK' BY <1>39 DEF Claim, FreshFlags, Claimable, IsOldest, Queued, SetRow, Tell, LoopAt
  <2>2. ExecOK' BY <1>39 DEF Claim, FreshFlags, Claimable, IsOldest, Queued, SetRow, Tell
  <2>3. TellOK' BY <1>39 DEF Claim, FreshFlags, Claimable, IsOldest, Queued, SetRow, Tell
  <2> QED BY <2>1, <2>2, <2>3
<1>40. ASSUME NEW e \in Entries, Submit(e)
      PROVE  MatchInv'
  <2>1. LoopOK' BY <1>40 DEF Submit, SetRow, Tell, LoopAt
  <2>2. ExecOK' BY <1>40 DEF Submit, SetRow, Tell
  <2>3. TellOK' BY <1>40 DEF Submit, SetRow, Tell
  <2> QED BY <2>1, <2>2, <2>3
<1>41. ASSUME NEW e \in Entries, RecoverEntry(e)
      PROVE  MatchInv'
  <2>1. LoopOK' BY <1>41 DEF RecoverEntry, RecoveredState, SetRow, SetExec, LoopAt
  <2>2. ExecOK' BY <1>41 DEF RecoverEntry, RecoveredState, SetRow, SetExec
  <2>3. TellOK' BY <1>41 DEF RecoverEntry, RecoveredState, SetRow, SetExec
  <2> QED BY <2>1, <2>2, <2>3
<1>42. ASSUME NEW e \in Entries, NEW who \in Callers, CancelQueued(e, who)
      PROVE  MatchInv'
  <2>1. LoopOK' BY <1>42 DEF CancelQueued, Cancellable, SetRow, Tell, LoopAt
  <2>2. ExecOK' BY <1>42 DEF CancelQueued, Cancellable, SetRow, Tell
  <2>3. TellOK' BY <1>42 DEF CancelQueued, Cancellable, SetRow, Tell
  <2> QED BY <2>1, <2>2, <2>3
<1>43. ASSUME NEW c \in Clients, NEW e \in Entries, NEW who \in Callers, CancelRunning(c, e, who)
      PROVE  MatchInv'
  <2>1. LoopOK' BY <1>43 DEF CancelRunning, KeepPending, LoopAt
  <2>2. ExecOK' BY <1>43 DEF CancelRunning, KeepPending
  <2>3. TellOK' BY <1>43 DEF CancelRunning, KeepPending
  <2> QED BY <2>1, <2>2, <2>3
<1>44. ASSUME NEW c \in Clients, DeliverCancel(c)
      PROVE  MatchInv'
  <2>1. LoopOK' BY <1>44 DEF DeliverCancel, LoopAt
  <2>2. ExecOK' BY <1>44 DEF DeliverCancel
  <2>3. TellOK' BY <1>44 DEF DeliverCancel
  <2> QED BY <2>1, <2>2, <2>3
<1>45. ASSUME NEW e \in Entries, NEW who \in Callers, ParkEntry(e, who)
      PROVE  MatchInv'
  <2>1. LoopOK' BY <1>45 DEF ParkEntry, SetHold, LoopAt
  <2>2. ExecOK' BY <1>45 DEF ParkEntry, SetHold
  <2>3. TellOK' BY <1>45 DEF ParkEntry, SetHold
  <2> QED BY <2>1, <2>2, <2>3
<1>46. ASSUME NEW e \in Entries, NEW who \in Callers, UnparkEntry(e, who)
      PROVE  MatchInv'
  <2>1. LoopOK' BY <1>46 DEF UnparkEntry, ClearHold, LoopAt
  <2>2. ExecOK' BY <1>46 DEF UnparkEntry, ClearHold
  <2>3. TellOK' BY <1>46 DEF UnparkEntry, ClearHold
  <2> QED BY <2>1, <2>2, <2>3
<1>47. ASSUME NEW who \in Callers, HoldQueue(who)
      PROVE  MatchInv'
  <2>1. LoopOK' BY <1>47 DEF HoldQueue, SetHold, LoopAt
  <2>2. ExecOK' BY <1>47 DEF HoldQueue, SetHold
  <2>3. TellOK' BY <1>47 DEF HoldQueue, SetHold
  <2> QED BY <2>1, <2>2, <2>3
<1>48. ASSUME NEW who \in Callers, ReleaseQueue(who)
      PROVE  MatchInv'
  <2>1. LoopOK' BY <1>48 DEF ReleaseQueue, ClearHold, LoopAt
  <2>2. ExecOK' BY <1>48 DEF ReleaseQueue, ClearHold
  <2>3. TellOK' BY <1>48 DEF ReleaseQueue, ClearHold
  <2> QED BY <2>1, <2>2, <2>3
<1>49. CASE ChainStep
  <2>0. /\ current \in Entries /\ rows[current] = "running" /\ UNCHANGED <<current, rows, exec>>
        /\ recording = TRUE /\ exec[current] = "running"
        /\ pc \in ChainSteps /\ pc' \in ChainSteps
        /\ completed' \in Nat
    BY <1>49, <1>chain, <1>loop DEF ChainKeeps, LoopAt
  <2>r. /\ \/ ranTo' = [ranTo EXCEPT ![current] = completed'] /\ completed' # completed
           \/ ranTo' = ranTo /\ completed' = completed
        /\ recording' = recording
    BY <1>49, <2>0 DEF ChainStep
  <2>1. LoopOK'
    <3>1. LoopAt(FirstRun[current]) /\ LoopAt(FirstRun[current])'
          /\ (completed >= first => ranTo[current] = completed)
      BY <1>49, <1>loop, <2>0
    <3>2. completed' >= first' => ranTo'[current'] = completed'
      BY <2>0, <2>r, <3>1 DEF LoopAt
    <3> QED BY <2>0, <3>1, <3>2
  <2>2. ExecOK'
    <3>1. ranTo' \in [Entries -> Nat] BY <2>0, <2>r
    <3>2. ParkedResumes' /\ FinishedMatchesExecution' BY <2>0, <2>r, OneExecution
    <3>3. EndingOK' BY <1>49, <2>0, <2>r
    <3> QED BY <3>1, <3>2, <3>3
  <2>3. TellOK' BY <1>49, <1>chain DEF ChainStep, ChainKeeps
  <2> QED BY <2>1, <2>2, <2>3
<1>50. CASE UNCHANGED vars BY <1>50 DEF vars, LoopAt
<1> QED
  BY <1>1, <1>2, <1>3, <1>4, <1>5, <1>6, <1>7, <1>8, <1>9, <1>10, <1>11, <1>12, <1>13, <1>14, <1>15, <1>16,
     <1>17, <1>18, <1>19, <1>20, <1>21, <1>22, <1>23, <1>24, <1>25, <1>26, <1>27, <1>28, <1>29, <1>30, <1>31,
     <1>32, <1>33, <1>34, <1>35, <1>36, <1>37, <1>38, <1>39, <1>40, <1>41, <1>42, <1>43, <1>44, <1>45, <1>46,
     <1>47, <1>48, <1>49, <1>50
     DEF Next, WorkerRuns, WorkerWaits, Api, Process

\* The invariant holds in every reachable state.
LEMMA MatchInvariance ==
  ASSUME MaxFaults = 0
  PROVE  Spec => []MatchInv
<1>1. ServiceInv /\ MatchInv /\ [Next]_vars => MatchInv'
  BY MatchInvNext
<1> QED BY <1>1, MatchInvInit, ServiceInvariance, PTL DEF Spec

\* What the queue says of a finished entry is what its execution's row says, over
\* the two separate writes, a crash between them and the recovery; an entry that
\* reads parked has a run to resume from and one left.
THEOREM FinishedMatchesExecutionThm ==
  ASSUME MaxFaults = 0
  PROVE  Spec => []FinishedMatchesExecution
<1>1. MatchInv => FinishedMatchesExecution
  BY DEF MatchInv, ExecOK
<1> QED BY <1>1, MatchInvariance, PTL

\* The steps that tell a client nothing.
Silent ==
  \/ Top \/ ClaimNone \/ IdleEnds \/ Parse \/ Begin \/ Reserve \/ JobStart \/ StartGuard
  \/ GuardCancel \/ ChainStep \/ RecordFinish \/ FinishReason \/ FinishEntry
  \/ FailToStart \/ TokenEnds \/ Release \/ WaitAfter \/ WaitCut \/ WaitElapsed
  \/ GenLink \/ GenStart \/ GenBegin \/ GenGuard \/ GenCancel \/ GenAttach
  \/ GenAttachStop \/ GenChildEnds \/ GenRecord \/ GenFailed \/ GenRetry
  \/ StopSet \/ StopReason \/ StopCancel \/ StopJoined \/ Crash \/ RecoverSweep
  \/ \E e \in Entries : RecoverEntry(e)
  \/ \E e \in Entries, who \in Callers : ParkEntry(e, who) \/ UnparkEntry(e, who)
  \/ \E who \in Callers : HoldQueue(who) \/ ReleaseQueue(who)
  \/ \E c \in Clients : DeliverCancel(c)
  \/ \E c \in Clients, e \in Entries, who \in Callers : CancelRunning(c, e, who)

LEMMA SilentTellsNothing ==
  ASSUME Silent
  PROVE  UNCHANGED told
<1>1. CASE Top \/ ClaimNone \/ IdleEnds \/ Parse \/ Begin \/ Reserve \/ JobStart
  BY <1>1 DEF Top, ClaimNone, IdleEnds, Parse, Begin, Reserve, JobStart
<1>2. CASE StartGuard \/ GuardCancel \/ RecordFinish \/ FinishReason \/ FinishEntry
  BY <1>2 DEF StartGuard, GuardCancel, RecordFinish, FinishReason, FinishEntry
<1>3. CASE TokenEnds \/ Release \/ WaitAfter \/ WaitCut \/ WaitElapsed \/ FailToStart
  BY <1>3 DEF TokenEnds, Release, WaitAfter, WaitCut, WaitElapsed, FailToStart
<1>4. CASE GenLink \/ GenStart \/ GenBegin \/ GenGuard \/ GenCancel \/ GenAttach
  BY <1>4 DEF GenLink, GenStart, GenBegin, GenGuard, GenCancel, GenAttach
<1>5. CASE GenAttachStop \/ GenChildEnds \/ GenRecord \/ GenFailed \/ GenRetry
  BY <1>5 DEF GenAttachStop, GenChildEnds, GenRecord, GenFailed, GenRetry
<1>6. CASE StopSet \/ StopReason \/ StopCancel \/ StopJoined \/ Crash \/ RecoverSweep
  BY <1>6 DEF StopSet, StopReason, StopCancel, StopJoined, Crash, MemoryLost, RecoverSweep
<1>7. CASE ChainStep
  BY <1>7 DEF ChainStep
<1>8. CASE \/ \E e \in Entries : RecoverEntry(e)
           \/ \E e \in Entries, who \in Callers : ParkEntry(e, who) \/ UnparkEntry(e, who)
           \/ \E who \in Callers : HoldQueue(who) \/ ReleaseQueue(who)
           \/ \E c \in Clients : DeliverCancel(c)
           \/ \E c \in Clients, e \in Entries, who \in Callers : CancelRunning(c, e, who)
  BY <1>8 DEF RecoverEntry, ParkEntry, UnparkEntry, HoldQueue, ReleaseQueue, DeliverCancel,
              CancelRunning
<1> QED BY <1>1, <1>2, <1>3, <1>4, <1>5, <1>6, <1>7, <1>8 DEF Silent

\* A step of the worker, the API or the process tells a client nothing that goes
\* back, and nothing the row does not say.
LEMMA ToldForward ==
  ASSUME MaxFaults = 0, ServiceInv, MatchInv, [Next]_vars, Up
  PROVE  \A e \in Entries :
           told'[e] # told[e] => Rank(told'[e]) > Rank(told[e]) /\ told'[e] = rows'[e]
<1> DEFINE Forward == \A e \in Entries :
             told'[e] # told[e] => Rank(told'[e]) > Rank(told[e]) /\ told'[e] = rows'[e]
<1>1. CASE UNCHANGED told
  BY <1>1
<1>2. ASSUME NEW d \in Entries, NEW s \in {"running", "cancelled"} \cup Finished,
             told[d] \in {"absent", "queued", "running"},
             told[d] = "running" => s # "running",
             Tell(d, s), rows'[d] = s
      PROVE  Forward
  BY <1>2 DEF Tell, Rank, Finished, MatchInv, TellOK
<1>3. \A e \in Entries : rows[e] \in {"absent", "queued"} => told[e] = rows[e]
  BY DEF MatchInv, TellOK, Up, Finished
<1>4. CASE Publish
  <2>1. current \in Entries /\ rows' = rows /\ rows[current] = final /\ final \in Finished
        /\ Tell(current, final)
    BY <1>4 DEF Publish, Published, storeVars, ServiceInv, SpanOK, DoneSteps, MatchInv, TellOK
  <2>2. told[current] = final \/ told[current] = "running"
    BY <2>1 DEF MatchInv, TellOK, Up
  <2>3. CASE told[current] = final
    BY <2>1, <2>3, <1>1 DEF Tell, MatchInv, TellOK
  <2>4. CASE told[current] = "running"
    BY <2>1, <2>4, <1>2 DEF Finished
  <2> QED BY <2>2, <2>3, <2>4
<1>5. ASSUME NEW d \in Entries, ClaimStopping(d)
      PROVE  Forward
  <2>1. ~Fault BY DEF Fault, ServiceInv, TypesOK
  <2>2. rows[d] = "queued" /\ Tell(d, "queued")
    BY <1>5, <2>1 DEF ClaimStopping, Claimable, IsOldest, Queued
  <2> QED BY <2>2, <1>3, <1>1 DEF Tell, MatchInv, TellOK
<1>6. ASSUME NEW d \in Entries, Claim(d)
      PROVE  Forward
  <2>1. rows[d] = "queued" /\ rows'[d] = "running" /\ Tell(d, "running")
    BY <1>6 DEF Claim, Claimable, IsOldest, Queued, SetRow, ServiceInv, TypesOK
  <2> QED BY <2>1, <1>3, <1>2
<1>7. ASSUME NEW d \in Entries, Submit(d)
      PROVE  Forward
  <2>1. rows[d] = "absent" /\ rows'[d] = "queued" /\ Tell(d, "queued")
    BY <1>7 DEF Submit, SetRow, ServiceInv, TypesOK
  <2> QED BY <2>1, <1>3 DEF Tell, Rank, MatchInv, TellOK
<1>8. ASSUME NEW d \in Entries, NEW who \in Callers, CancelQueued(d, who)
      PROVE  Forward
  <2>1. rows[d] = "queued" /\ rows'[d] = "cancelled" /\ Tell(d, "cancelled")
    BY <1>8 DEF CancelQueued, Cancellable, SetRow, ServiceInv, TypesOK
  <2> QED BY <2>1, <1>3, <1>2
<1>9. ~StartWorker
  BY DEF StartWorker, Up
<1>10. CASE Silent
  BY <1>10, <1>1, SilentTellsNothing
<1>11. CASE UNCHANGED vars
  BY <1>11, <1>1 DEF vars
<1>12. CASE Next
  <2>1. CASE WorkerRuns BY <2>1, <1>4, <1>5, <1>6, <1>10 DEF WorkerRuns, Silent
  <2>2. CASE WorkerWaits BY <2>2, <1>10 DEF WorkerWaits, Silent
  <2>3. CASE Api BY <2>3, <1>7, <1>8, <1>10 DEF Api, Silent
  <2>4. CASE Process BY <2>4, <1>9, <1>10 DEF Process, Silent
  <2> QED BY <1>12, <2>1, <2>2, <2>3, <2>4 DEF Next
<1> QED BY <1>11, <1>12

\* A client that watches the events sees each entry go forward only, and only to
\* states it was brought to (queue_claim_gate.py, queue_worker.py's publication
\* after the lock), for every interleaving of submission, claim, cancel and end.
THEOREM EventsInOrderThm ==
  ASSUME MaxFaults = 0
  PROVE  Spec => EventsInOrder
<1>1. ServiceInv /\ MatchInv /\ [Next]_vars =>
        [Up => \A e \in Entries :
           told'[e] # told[e] => Rank(told'[e]) > Rank(told[e]) /\ told'[e] = rows'[e]]_vars
  BY ToldForward
<1> QED BY <1>1, ServiceInvariance, MatchInvariance, PTL DEF Spec, EventsInOrder
==============================================================================
