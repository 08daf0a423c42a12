---------------------------- MODULE TimingProofs ----------------------------
(* Proofs about whose forecast stands (ForecastFlow), for any number of       *)
(* entries, of threads that serve requests and of requests; about what a      *)
(* publisher shows (ForecastPublisher), for any plan of runs and steps;       *)
(* about the files of the timing knobs (KnobFiles), for any number of         *)
(* changes, of edits by a person and of crashes; and about what the knobs     *)
(* learn from (KnobLearning), for any number of runs, updates and resets.     *)
EXTENDS ForecastFlow, ForecastPublisher, KnobFiles, KnobLearning, Integers, FiniteSetTheorems, SequenceTheorems, WellFoundedInduction, TLAPS

------------------------------------------------------------------------------
(* Whose forecast stands.                                                     *)

Hands == [at : {"idle", "hold", "tell", "pop", "cancel", "park"}, entry : 0 .. Entries, some : BOOLEAN]

FlowTypeOK ==
  /\ current \in 0 .. Entries /\ claimed \in 0 .. Entries /\ publisher \in 0 .. Entries
  /\ phase \in {"idle", "claimed", "running", "releasing"}
  /\ had \subseteq 1 .. Entries /\ stands \in 0 .. Entries
  /\ told \in [1 .. Entries -> BOOLEAN]
  /\ hand \in [Threads -> Hands]
  /\ hand[Worker].at \in {"idle", "hold", "tell"}
  /\ \A t \in Threads : hand[t].at \in {"hold", "tell", "cancel", "park"} => hand[t].entry # Nobody

\* Where the worker is tells the entry that runs and whose publisher may be kept.
PhaseOK ==
  /\ phase \in {"claimed", "running"} => current = claimed /\ claimed # Nobody
  /\ phase \in {"idle", "releasing"} => current = Nobody
  /\ phase \in {"idle", "claimed"} => publisher = Nobody
  /\ publisher \in {Nobody, claimed}
  /\ phase \in {"claimed", "releasing"} => hand[Worker].at = "idle"

\* A publisher is kept by the worker, or by the request that took it away to
\* cancel it: one that may have a forecast is always in somebody's care.
Cancelling(e) == \E t \in Requests : hand[t].at = "cancel" /\ hand[t].entry = e
Kept(e) == publisher = e \/ Cancelling(e)

HadOK ==
  /\ \A e \in had : Kept(e)
  /\ phase = "running" => current \in done \/ Kept(current)
  /\ \A t \in Threads : hand[t].at = "park" => hand[t].entry = current /\ (current \in dead \/ Kept(current))

\* A forecast in a thread's hand is of a publisher that has one; one that stands
\* or was told of is too, or is being cleared.
Clearing(t, e) == hand[t].entry = e /\ ~hand[t].some
InHand ==
  \A t \in Threads : hand[t].at \in {"hold", "tell"} /\ hand[t].some => hand[t].entry \in had
StandsOK ==
  stands \in {Nobody} \cup had \/ \E t \in Threads : hand[t].at = "hold" /\ Clearing(t, stands)
ToldOK ==
  \A e \in 1 .. Entries :
    told[e] => e \in had \/ \E t \in Threads : hand[t].at \in {"hold", "tell"} /\ Clearing(t, e)

FlowInv == FlowTypeOK /\ PhaseOK /\ HadOK /\ InHand /\ StandsOK /\ ToldOK

\* A request clears the publisher it took away: nobody else has its forecast in
\* hand, and the one that stands is cleared by the same request.
LEMMA CancelStep ==
  ASSUME FlowInv, NEW t \in Requests, CancelPublisher(t)
  PROVE  FlowInv'
<1>1. t \in Threads /\ hand \in [Threads -> Hands] /\ hand[t].at = "cancel" /\ Finished(t, hand[t].entry, TRUE)
      /\ UNCHANGED <<current, phase, claimed, publisher, stands, told>>
  BY DEF FlowInv, FlowTypeOK, Threads, CancelPublisher
<1>2. hand[t] \in Hands /\ hand[t].entry # Nobody
  BY <1>1 DEF FlowInv, FlowTypeOK
<1>3. hand[t].entry \in 1 .. Entries
  BY <1>2, FlowAssumption DEF Hands, Nobody
<1>4. PICK e \in 1 .. Entries : e = hand[t].entry
  BY <1>3
<1>5. had' = had \ {e} /\ done' = done \cup {e} /\ dead' = dead \cup {e}
  BY <1>1, <1>4 DEF Finished
<1>6. \A u \in Threads : hand[u].at \in {"hold", "tell"} => hand[u].entry # e
  BY <1>1, <1>4 DEF Finished, Locked
<1>7. PICK h : h = (IF e \in had THEN Doing("hold", e, FALSE) ELSE Idle)
  OBVIOUS
<1>8. hand' = [hand EXCEPT ![t] = h]
  BY <1>1, <1>4, <1>7 DEF Finished
<1>9. /\ h \in Hands
      /\ h.at \in {"idle", "hold"} /\ ~h.some
      /\ h.at = "hold" => h.entry = e
      /\ e \in had => h.at = "hold"
  BY <1>7, FlowAssumption DEF Doing, Idle, Nobody, Hands
<1>10. /\ hand' \in [Threads -> Hands] /\ hand'[t] = h
       /\ \A u \in Threads : u # t => hand'[u] = hand[u]
  BY <1>1, <1>8, <1>9
<1> HIDE DEF Hands
<1>11. FlowTypeOK'
  <2>1. \A u \in Threads : hand'[u].at \in {"hold", "tell", "cancel", "park"} => hand'[u].entry # Nobody
    BY <1>9, <1>10 DEF FlowInv, FlowTypeOK, Nobody
  <2>2. t # Worker BY FlowAssumption DEF Worker
  <2>3. Worker \in Threads BY DEF Threads
  <2> QED BY <1>1, <1>5, <1>10, <2>1, <2>2, <2>3 DEF FlowInv, FlowTypeOK
<1>12. PhaseOK'
  <2>1. Worker \in Threads /\ t # Worker BY FlowAssumption DEF Worker, Threads
  <2> QED BY <1>1, <1>10, <2>1 DEF FlowInv, PhaseOK
<1>13. ASSUME NEW x, Kept(x), x # e PROVE Kept(x)'
  <2>1. CASE publisher = x BY <1>1, <2>1 DEF Kept
  <2>2. CASE Cancelling(x)
    <3>1. PICK u \in Requests : hand[u].at = "cancel" /\ hand[u].entry = x BY <2>2 DEF Cancelling
    <3>2. hand'[u] = hand[u] BY <1>4, <1>10, <1>13, <3>1 DEF Threads
    <3> QED BY <3>1, <3>2 DEF Kept, Cancelling
  <2> QED BY <1>13, <2>1, <2>2 DEF Kept
<1>14. HadOK'
  <2>1. \A x \in had' : Kept(x)' BY <1>5, <1>13 DEF FlowInv, HadOK
  <2>2. phase' = "running" => current' \in done' \/ Kept(current)'
    <3>1. CASE current = e BY <1>1, <1>5, <3>1
    <3>2. CASE current # e
      <4>1. Kept(current) => Kept(current)' BY <1>1, <1>13, <3>2 DEF Kept, Cancelling
      <4> QED BY <1>1, <1>5, <4>1 DEF FlowInv, HadOK
    <3> QED BY <3>1, <3>2
  <2>3. ASSUME NEW u \in Threads, hand'[u].at = "park"
        PROVE  hand'[u].entry = current' /\ (current' \in dead' \/ Kept(current)')
    <3>1. hand'[u] = hand[u] BY <1>9, <1>10, <2>3
    <3>2. hand[u].entry = current /\ (current \in dead \/ Kept(current)) BY <2>3, <3>1 DEF FlowInv, HadOK
    <3>3. CASE current = e BY <1>1, <1>5, <3>1, <3>2, <3>3
    <3>4. CASE current # e
      <4>1. Kept(current) => Kept(current)' BY <1>1, <1>13, <3>4 DEF Kept, Cancelling
      <4> QED BY <1>1, <1>5, <3>1, <3>2, <4>1
    <3> QED BY <3>3, <3>4
  <2> QED BY <2>1, <2>2, <2>3 DEF HadOK
<1>15. InHand'
  BY <1>5, <1>6, <1>9, <1>10 DEF FlowInv, InHand
<1>16. StandsOK'
  <2>1. CASE stands = e /\ e \in had
    BY <1>1, <1>9, <1>10, <2>1 DEF StandsOK, Clearing
  <2>2. CASE stands \in {Nobody} \cup had /\ stands # e
    BY <1>1, <1>5, <2>2 DEF StandsOK
  <2>3. CASE stands = Nobody BY <1>1, <2>3 DEF StandsOK
  <2>4. CASE \E u \in Threads : hand[u].at = "hold" /\ Clearing(u, stands)
    <3>1. PICK u \in Threads : hand[u].at = "hold" /\ Clearing(u, stands) BY <2>4
    <3>2. hand'[u] = hand[u] BY <1>1, <1>10, <3>1
    <3> QED BY <1>1, <3>1, <3>2 DEF StandsOK, Clearing
  <2> QED BY <2>1, <2>2, <2>3, <2>4 DEF FlowInv, StandsOK
<1>17. ToldOK'
  <2> SUFFICES ASSUME NEW x \in 1 .. Entries, told'[x]
               PROVE  x \in had' \/ \E u \in Threads : hand'[u].at \in {"hold", "tell"} /\ Clearing(u, x)'
    BY DEF ToldOK
  <2>1. CASE x = e /\ x \in had BY <1>9, <1>10, <1>1, <2>1 DEF Clearing
  <2>2. CASE x # e /\ x \in had BY <1>5, <2>2
  <2>3. CASE x \notin had
    <3>1. PICK u \in Threads : hand[u].at \in {"hold", "tell"} /\ Clearing(u, x)
      BY <1>1, <2>3 DEF FlowInv, ToldOK
    <3>2. hand'[u] = hand[u] BY <1>1, <1>10, <3>1
    <3> QED BY <3>1, <3>2 DEF Clearing
  <2> QED BY <2>1, <2>2, <2>3
<1> QED BY <1>11, <1>12, <1>14, <1>15, <1>16, <1>17 DEF FlowInv

\* Every step of the worker and of the requests preserves the invariant.
LEMMA FlowInvNext == FlowInv /\ [FlowNext]_flowVars => FlowInv'
<1> SUFFICES ASSUME FlowInv, [FlowNext]_flowVars PROVE FlowInv'
  OBVIOUS
<1> USE FlowAssumption DEF FlowInv, FlowTypeOK, Hands, PhaseOK, HadOK, Kept, Cancelling, InHand, StandsOK,
     ToldOK, Clearing, Threads, Worker, Nobody, pub, Idle, Doing
<1>1. CASE UNCHANGED flowVars BY <1>1 DEF flowVars
<1>2. CASE Claim BY <1>2 DEF Claim, WorkerFree
<1>3. ASSUME NEW d \in BOOLEAN, StartForecast(d) PROVE FlowInv'
  BY <1>3 DEF StartForecast
<1>4. CASE Observe BY <1>4 DEF Observe, WorkerFree
<1>5. CASE ObserveEnd BY <1>5 DEF ObserveEnd, Finished, Locked, WorkerFree
<1>6. CASE Release BY <1>6 DEF Release, WorkerFree, StateLocked
<1>7. CASE ReleaseForecast
  <2>1. CASE publisher = Nobody
    <3>1. /\ phase = "releasing" /\ phase' = "idle" /\ publisher' = Nobody
          /\ UNCHANGED <<current, claimed, stands, told, had, done, dead, hand>>
      BY <1>7, <2>1 DEF ReleaseForecast
    <3> QED BY <2>1, <3>1
  <2>2. CASE publisher # Nobody
    <3>1. /\ phase = "releasing" /\ phase' = "idle" /\ publisher' = Nobody
          /\ UNCHANGED <<current, claimed, stands, told>>
          /\ Finished(Worker, publisher, TRUE)
      BY <1>7, <2>2 DEF ReleaseForecast
    <3>2. /\ had' = had \ {publisher} /\ done' = done \cup {publisher} /\ dead' = dead \cup {publisher}
          /\ hand' = [hand EXCEPT ![Worker] = IF publisher \in had THEN Doing("hold", publisher, FALSE) ELSE Idle]
      BY <3>1 DEF Finished
    <3>3. FlowTypeOK' /\ PhaseOK' BY <2>2, <3>1, <3>2
    <3>4. HadOK' BY <2>2, <3>1, <3>2
    <3>5. InHand'
      <4>1. \A t \in Threads : hand[t].at \in {"hold", "tell"} => hand[t].entry # publisher
        BY <3>1 DEF Finished, Locked
      <4> QED BY <3>1, <3>2, <4>1
    <3>6. StandsOK' BY <3>1, <3>2
    <3>7. ToldOK' BY <3>1, <3>2
    <3> QED BY <3>3, <3>4, <3>5, <3>6, <3>7
  <2> QED BY <2>1, <2>2
<1>8. ASSUME NEW t \in Threads, Hold(t) PROVE FlowInv'
  BY <1>8 DEF Hold
<1>9. ASSUME NEW t \in Threads, Tell(t) PROVE FlowInv'
  BY <1>9 DEF Tell
<1>10. ASSUME NEW t \in Requests, Cancel(t) PROVE FlowInv'
  BY <1>10 DEF Cancel, CanServe
<1>11. ASSUME NEW t \in Requests, Pop(t) PROVE FlowInv'
  <2>0. publisher' = Nobody /\ UNCHANGED <<current, phase, claimed, had, done, dead, stands, told>>
    BY <1>11 DEF Pop
  <2>1. CASE publisher = Nobody
    <3>1. hand' = [hand EXCEPT ![t] = Idle] /\ hand[t].at = "pop" BY <1>11, <2>1 DEF Pop
    <3> QED BY <2>0, <2>1, <3>1
  <2>2. CASE publisher # Nobody
    <3>1. hand' = [hand EXCEPT ![t] = Doing("cancel", publisher, FALSE)] /\ hand[t].at = "pop"
      BY <1>11, <2>2 DEF Pop
    <3>0. /\ hand'[t] = Doing("cancel", publisher, FALSE)
          /\ \A u \in Threads : hand[u].at # "pop" => hand'[u] = hand[u]
      BY <3>1
    <3>2. ASSUME NEW e \in 1 .. Entries, Kept(e) PROVE Kept(e)'
      <4>1. CASE publisher = e BY <3>0, <4>1
      <4>2. CASE Cancelling(e)
        <5>1. PICK u \in Requests : hand[u].at = "cancel" /\ hand[u].entry = e BY <4>2
        <5>2. hand'[u] = hand[u] BY <3>0, <5>1
        <5> QED BY <5>1, <5>2
      <4> QED BY <3>2, <4>1, <4>2
    <3>3. FlowTypeOK' /\ PhaseOK' BY <2>0, <2>2, <3>1
    <3>4. HadOK' BY <2>0, <3>1, <3>2
    <3>5. InHand' /\ StandsOK' /\ ToldOK' BY <2>0, <3>1
    <3> QED BY <3>3, <3>4, <3>5
  <2> QED BY <2>1, <2>2
<1>12. ASSUME NEW t \in Requests, CancelPublisher(t) PROVE FlowInv'
  BY <1>12, CancelStep DEF FlowInv
<1>13. ASSUME NEW t \in Requests, Park(t) PROVE FlowInv'
  <2>0. /\ hand[t].at = "idle" /\ current # Nobody /\ phase \in {"claimed", "running"}
        /\ UNCHANGED <<current, phase, claimed, publisher, had, done, dead, stands, told>>
    BY <1>13 DEF Park, CanServe
  <2>1. CASE publisher = Nobody \/ publisher \in done
    <3>1. hand' = [hand EXCEPT ![t] = Idle] BY <1>13, <2>1 DEF Park
    <3> QED BY <2>0, <3>1
  <2>2. CASE publisher # Nobody /\ publisher \notin done
    <3>1. hand' = [hand EXCEPT ![t] = Doing("park", publisher, TRUE)] BY <1>13, <2>2 DEF Park
    <3>2. publisher = current BY <2>0, <2>2
    <3> QED BY <2>0, <2>2, <3>1, <3>2
  <2> QED BY <2>1, <2>2
<1>14. ASSUME NEW t \in Requests, ParkPublish(t) PROVE FlowInv'
  <2>1. /\ hand[t].at = "park" /\ UNCHANGED <<current, phase, claimed, publisher, done, dead, stands, told>>
        /\ hand[t].entry = current /\ (current \in dead \/ Kept(current))
    BY <1>14 DEF ParkPublish
  <2>2. CASE hand[t].entry \in dead
    <3>1. hand' = [hand EXCEPT ![t] = Idle] /\ had' = had BY <1>14, <2>2 DEF ParkPublish
    <3> QED BY <2>1, <3>1
  <2>3. CASE hand[t].entry \notin dead
    <3>1. /\ hand' = [hand EXCEPT ![t].at = "hold"] /\ had' = had \cup {hand[t].entry}
      BY <1>14, <2>3 DEF ParkPublish
    <3>2. /\ hand'[t].at = "hold" /\ hand'[t].entry = hand[t].entry /\ hand'[t].some = hand[t].some
          /\ \A u \in Threads \ {t} : hand'[u] = hand[u]
          /\ hand' \in [Threads -> Hands]
      BY <3>1
    <3>3. FlowTypeOK' /\ PhaseOK' BY <2>1, <3>1, <3>2
    <3>4. HadOK' BY <2>1, <2>3, <3>1, <3>2
    <3>5. InHand' BY <2>1, <3>1, <3>2
    <3>6. StandsOK' BY <2>1, <3>1, <3>2
    <3>7. ToldOK' BY <2>1, <3>1, <3>2
    <3> QED BY <3>3, <3>4, <3>5, <3>6, <3>7
  <2> QED BY <2>2, <2>3
<1> QED
  BY <1>1, <1>2, <1>3, <1>4, <1>5, <1>6, <1>7, <1>8, <1>9, <1>10, <1>11, <1>12,
     <1>13, <1>14 DEF FlowNext

\* For any number of entries and requests: the forecast that stands is the
\* running entry's or is being cleared, and no bar is left behind an entry.
THEOREM ForecastOfCurrentThm == FlowSpec => []ForecastOfCurrent
<1> USE FlowAssumption DEF FlowInv, FlowTypeOK, Hands, PhaseOK, HadOK, Kept, Cancelling, InHand, StandsOK,
     ToldOK, Clearing, Threads, Worker, Nobody, Idle
<1>1. FlowInit => FlowInv
  BY DEF FlowInit
<1>2. FlowInv => StandsForCurrent
  BY DEF StandsForCurrent, WorkerFree
<1>3. FlowInv => NoBarLeft
  <2> SUFFICES ASSUME FlowInv, phase = "idle", \A t \in Threads : hand[t].at = "idle",
                      NEW e \in 1 .. Entries, told[e]
               PROVE  FALSE
    BY DEF NoBarLeft
  <2>1. e \in had BY DEF ToldOK
  <2>2. publisher = e BY <2>1 DEF HadOK
  <2> QED BY <2>2
<1> QED BY <1>1, <1>2, <1>3, FlowInvNext, PTL DEF FlowSpec, ForecastOfCurrent

------------------------------------------------------------------------------
(* What a publisher shows.                                                    *)

Drawn == [start : Nat, end : Nat, floor : 0 .. Whole, there : {TRUE}]
Spans == {NoSpan} \cup Drawn
Stages == {"none", "denoise"}
Lines == [none : {FALSE}, stage : Stages, units : Nat, run : Spans, job : Spans]
Forecasters ==
  [at : {"new", "run", "between", "finished"}, job : {"new", "started", "run", "between", "ended"},
   run : Nat, origin : Nat, started : Nat, stage : Stages, units : Nat,
   timed : BOOLEAN, planned : BOOLEAN, priced : BOOLEAN, cancelled : BOOLEAN]

PubTypeOK ==
  /\ now \in Nat /\ fc \in Forecasters
  /\ shown \in {None} \cup Lines /\ last = shown
  /\ runFloor \in 0 .. Whole /\ jobFloor \in 0 .. Whole
  /\ over \in BOOLEAN /\ fails \in Nat /\ parking \in BOOLEAN

\* Where the job's events take the forecaster.
Place(at) ==
  CASE at = "new" -> "new" [] at \in {"started", "run"} -> "run"
    [] at = "between" -> "between" [] OTHER -> "finished"

\* The forecaster follows the job until the publisher is done, and a publisher
\* that is done shows nothing.
FollowsOK ==
  /\ fails = 0 /\ over => shown.none /\ (fc.cancelled \/ fc.at = "finished")
  /\ fc.cancelled \/ fc.job = "ended" => over
  /\ ~fc.cancelled => fc.at = Place(fc.job)
  /\ fc.at = "new" => shown.none

\* The last forecast is of the stage the job is in, and of no later step.
StageShown ==
  ~over /\ fc.job # "new" =>
    /\ ~shown.none
    /\ fc.at = "run" => shown.stage = fc.stage /\ shown.units <= fc.units
    /\ fc.at = "between" => ~shown.run.there
    /\ fc.units <= Units
    /\ fc.at = "run" /\ fc.units = Units => shown.units = Units

\* Before its first run a job has no share of it yet.
StartOK ==
  /\ fc.origin <= now
  /\ fc.job = "new" => runFloor = 0
  /\ fc.job \in {"new", "started"} /\ ~over => fc.stage = "none" /\ fc.units = 0 /\ fc.priced = fc.planned
  /\ fc.job = "started" /\ ~over =>
       /\ ~shown.none /\ shown.run.there => shown.run.start = fc.origin /\ fc.planned
       /\ fc.origin = now => runFloor = 0 /\ (~shown.none /\ shown.run.there => shown.run.floor = 0)

PubInv == PubTypeOK /\ FollowsOK /\ StageShown /\ StartOK

LEMMA SpanFact ==
  /\ NoSpan \in Spans /\ ~NoSpan.there
  /\ \A s \in Spans : s.start \in Nat /\ s.end \in Nat /\ s.floor \in 0 .. Whole /\ s.there \in BOOLEAN
  /\ \A s \in Spans : s.there => s \in Drawn
  /\ \A s \in Drawn, x \in 0 .. Whole :
       /\ [s EXCEPT !.floor = x] \in Drawn
       /\ [s EXCEPT !.floor = x].start = s.start /\ [s EXCEPT !.floor = x].floor = x
  /\ \A b \in Nat, e \in Nat : SpanOf(b, e) \in Spans /\ SpanOf(b, e).start = b /\ SpanOf(b, e).there
<1>0. Whole \in Nat
  BY PublisherAssumption
<1>1. NoSpan \in Spans /\ ~NoSpan.there
  BY DEF Spans, NoSpan
<1>2. ASSUME NEW s \in Spans
      PROVE  s.start \in Nat /\ s.end \in Nat /\ s.floor \in 0 .. Whole
  <2>1. CASE s = NoSpan BY <1>0, <2>1 DEF NoSpan
  <2>2. CASE s \in Drawn BY <2>2 DEF Drawn
  <2> QED BY <2>1, <2>2 DEF Spans
<1>3. ASSUME NEW s \in Spans PROVE s.there \in BOOLEAN
  <2>1. CASE s = NoSpan BY <2>1 DEF NoSpan
  <2>2. CASE s \in Drawn BY <2>2 DEF Drawn
  <2> QED BY <2>1, <2>2 DEF Spans
<1>4. \A s \in Spans : s.there => s \in Drawn
  BY <1>1 DEF Spans
<1>5. ASSUME NEW s \in Drawn, NEW x \in 0 .. Whole
      PROVE  /\ [s EXCEPT !.floor = x] \in Drawn
             /\ [s EXCEPT !.floor = x].start = s.start /\ [s EXCEPT !.floor = x].floor = x
  BY DEF Drawn
<1>6. ASSUME NEW b \in Nat, NEW e \in Nat
      PROVE  SpanOf(b, e) \in Spans /\ SpanOf(b, e).start = b /\ SpanOf(b, e).there
  BY <1>0 DEF SpanOf, Spans, Drawn
<1> QED BY <1>1, <1>2, <1>3, <1>4, <1>5, <1>6

\* The share of a bar is one, and never below its floor.
LEMMA ShareFact ==
  ASSUME NEW span \in Spans, NEW t \in Nat
  PROVE  /\ Progress(span, t) \in 0 .. Whole /\ Progress(span, t) >= span.floor
         /\ t <= span.start => Progress(span, t) = span.floor
<1> Whole \in Nat /\ Reach \in Nat /\ Runs \in Nat
  BY PublisherAssumption
<1>1. span.start \in Nat /\ span.end \in Nat /\ span.floor \in 0 .. Whole
  BY SpanFact
<1>2. PICK length \in Int : length = span.end - span.start
  BY <1>1
<1>3. PICK share : share = (IF t <= span.start THEN 0 ELSE ((t - span.start) * Whole) \div length)
  OBVIOUS
<1>4. Progress(span, t) = IF length <= 0 THEN span.floor
                          ELSE IF share >= Whole THEN Whole
                          ELSE IF share > span.floor THEN share ELSE span.floor
  BY <1>2, <1>3 DEF Progress
<1>5. ASSUME length > 0 PROVE share \in Int
  <2>1. CASE t <= span.start BY <1>3, <2>1
  <2>2. CASE t > span.start
    <3>1. PICK x \in Int : x = (t - span.start) * Whole BY <1>1
    <3>2. share = x \div length BY <1>1, <1>3, <2>2, <3>1
    <3> QED BY <1>2, <1>5, <3>2
  <2> QED BY <1>1, <2>1, <2>2
<1>6. t <= span.start => share = 0
  BY <1>3
<1> HIDE DEF Progress
<1> QED BY <1>1, <1>2, <1>4, <1>5, <1>6

\* What is held is the most of three shares.
LEMMA HeldFact ==
  ASSUME now \in Nat, NEW span \in Spans, span.there, NEW before \in Spans, NEW floor \in 0 .. Whole
  PROVE  /\ Held(span, before, floor) \in Spans /\ Held(span, before, floor).there
         /\ Held(span, before, floor).start = span.start
         /\ before.there /\ before.start = span.start
              => Held(span, before, floor).floor >= Progress(before, now)
         /\ span.start = now /\ floor = 0 /\ (before.there => before.floor = 0)
              => Held(span, before, floor).floor = 0
<1> Whole \in Nat /\ Reach \in Nat /\ Runs \in Nat
  BY PublisherAssumption
<1>1. PICK a : a = Progress([span EXCEPT !.floor = 0], now)
  OBVIOUS
<1>2. PICK b : b = Progress(before, now)
  OBVIOUS
<1>3. PICK S : S = {floor, a} \cup (IF before.there /\ before.start = span.start THEN {b} ELSE {})
  OBVIOUS
<1>4. PICK cut \in Spans : cut = [span EXCEPT !.floor = 0] /\ cut.start = span.start /\ cut.floor = 0
  <2>1. span \in Drawn /\ 0 \in 0 .. Whole BY SpanFact
  <2>2. /\ [span EXCEPT !.floor = 0] \in Drawn
        /\ [span EXCEPT !.floor = 0].start = span.start /\ [span EXCEPT !.floor = 0].floor = 0
    BY <2>1 DEF Drawn
  <2> QED BY <2>2 DEF Spans
<1>5. a \in 0 .. Whole /\ b \in 0 .. Whole /\ (now <= span.start => a = 0) /\ (now <= before.start => b = before.floor)
  BY <1>1, <1>2, <1>4, ShareFact
<1>6. PICK x : x = CHOOSE y \in S : \A z \in S : z <= y
  OBVIOUS
<1>7. \E y \in S : \A z \in S : z <= y
  <2>1. PICK c \in {floor, a} : floor <= c /\ a <= c BY <1>5
  <2>2. CASE before.there /\ before.start = span.start
    <3>1. PICK d \in {c, b} : c <= d /\ b <= d BY <1>5, <2>1
    <3>2. d \in S /\ \A z \in S : z <= d BY <1>3, <1>5, <2>1, <2>2, <3>1
    <3> QED BY <3>2
  <2>3. CASE ~(before.there /\ before.start = span.start) BY <1>3, <2>1, <2>3
  <2> QED BY <2>2, <2>3
<1>8. x \in S /\ \A z \in S : z <= x
  BY <1>6, <1>7
<1>9. Held(span, before, floor) = [span EXCEPT !.floor = x]
  BY <1>1, <1>2, <1>3, <1>6 DEF Held
<1>10. x \in 0 .. Whole
  BY <1>3, <1>5, <1>8
<1>11. span \in Drawn
  BY SpanFact
<1>12. /\ Held(span, before, floor) \in Spans /\ Held(span, before, floor).there
       /\ Held(span, before, floor).start = span.start /\ Held(span, before, floor).floor = x
  BY <1>9, <1>10, <1>11, SpanFact DEF Spans
<1>13. before.there /\ before.start = span.start => x >= b
  BY <1>3, <1>8
<1>14. span.start = now /\ floor = 0 /\ (before.there => before.floor = 0) => x = 0
  BY <1>3, <1>5, <1>8
<1> QED BY <1>2, <1>12, <1>13, <1>14

\* A forecast is of where the forecaster is, and takes no floor with it.
OfRun(f, g) ==
  /\ f \in Lines /\ g.at = "run" /\ f.stage = g.stage /\ f.units = g.units
  /\ f.run.there <=> Estimated(g)
  /\ f.run.there => f.run.start = g.origin
OfGap(f, g) == f \in Lines /\ g.at = "between" /\ f.stage = "none" /\ f.units = 0 /\ ~f.run.there

LEMMA ForecastsShape ==
  ASSUME NEW g \in Forecasters, NEW park \in BOOLEAN, NEW t \in Nat, NEW f \in Forecasts(g, park, t)
  PROVE  \/ f = None /\ (g.cancelled \/ g.at \in {"new", "finished"})
         \/ ~g.cancelled /\ (OfRun(f, g) \/ OfGap(f, g))
<1> Whole \in Nat /\ Reach \in Nat /\ Runs \in Nat
  BY PublisherAssumption
<1>1. CASE g.cancelled \/ g.at \in {"new", "finished"}
  BY <1>1 DEF Forecasts
<1>2. CASE ~g.cancelled /\ g.at = "run"
  <2> DEFINE line == [none |-> FALSE, stage |-> g.stage, units |-> g.units, run |-> NoSpan, job |-> NoSpan]
  <2>1. f \in InRun(g, park, t) BY <1>2 DEF Forecasts
  <2>2. line.stage = g.stage /\ line.units = g.units /\ line.run = NoSpan OBVIOUS
  <2>3. line \in Lines /\ NoSpan \in Spans BY SpanFact DEF Forecasters, Lines
  <2>4. CASE ~Estimated(g)
    <3>1. f = line BY <2>1, <2>2, <2>4 DEF InRun
    <3> QED BY <1>2, <2>2, <2>3, <2>4, <3>1, SpanFact DEF OfRun
  <2>5. CASE Estimated(g)
    <3>0. \A e \in Nat : SpanOf(g.origin, e) \in Spans /\ SpanOf(g.started, e) \in Spans
      BY SpanFact DEF Forecasters
    <3>00. t .. t + Reach \subseteq Nat OBVIOUS
    <3>1. PICK e \in t .. t + Reach, j \in Spans : f = [line EXCEPT !.run = SpanOf(g.origin, e), !.job = j]
      <4> DEFINE Ends(e) ==
             {[line EXCEPT !.run = SpanOf(g.origin, e), !.job = j] :
               j \in IF park THEN {SpanOf(g.origin, e)}
                     ELSE IF g.run = Runs THEN {SpanOf(g.started, e)}
                     ELSE {NoSpan} \cup {SpanOf(g.started, e2) : e2 \in e .. t + Reach}}
      <4>0. f \in UNION {Ends(e) : e \in t .. t + Reach}
        BY <2>1, <2>5, Zenon DEF InRun
      <4> HIDE DEF line
      <4>1. PICK e \in t .. t + Reach : f \in Ends(e)
        BY <4>0, Zenon
      <4>2. e .. t + Reach \subseteq Nat OBVIOUS
      <4> QED BY <3>0, <3>00, <4>1, <4>2, <2>3
    <3>2. SpanOf(g.origin, e) \in Spans BY <3>0, <3>00
    <3> HIDE DEF line
    <3>3. f \in Lines /\ f.stage = g.stage /\ f.units = g.units /\ f.run = SpanOf(g.origin, e)
      BY <2>2, <2>3, <3>1, <3>2 DEF Lines
    <3> QED BY <1>2, <2>5, <3>0, <3>00, <3>3, SpanFact DEF OfRun, Forecasters
  <2> QED BY <2>4, <2>5
<1>3. CASE ~g.cancelled /\ g.at = "between"
  <2>1. f \in BetweenRuns(g, park, t) BY <1>3 DEF Forecasts
  <2>2. PICK line : line = [none |-> FALSE, stage |-> "none", units |-> 0, run |-> NoSpan, job |-> NoSpan]
    OBVIOUS
  <2>3. line \in Lines /\ NoSpan \in Spans BY <2>2, SpanFact DEF Stages, Lines
  <2>4. \A e \in t .. t + Reach : SpanOf(g.started, e) \in Spans
    BY SpanFact DEF Forecasters
  <2>5. f = line \/ \E e \in t .. t + Reach : f = [line EXCEPT !.job = SpanOf(g.started, e)]
    BY <2>1, <2>2 DEF BetweenRuns
  <2>6. f \in Lines /\ f.stage = "none" /\ f.units = 0 /\ f.run = NoSpan
    <3>1. CASE f = line BY <2>2, <2>3, <3>1
    <3>2. ASSUME NEW e \in t .. t + Reach, f = [line EXCEPT !.job = SpanOf(g.started, e)]
          PROVE  f \in Lines /\ f.stage = "none" /\ f.units = 0 /\ f.run = NoSpan
      <4>1. SpanOf(g.started, e) \in Spans BY <2>4
      <4> QED BY <2>2, <2>3, <3>2, <4>1 DEF Lines
    <3> QED BY <2>5, <3>1, <3>2
  <2> QED BY <1>3, <2>6, SpanFact DEF OfGap
<1> QED BY <1>1, <1>2, <1>3 DEF Forecasters

\* What goes out, and the share each bar keeps of the one that was there.
LEMMA SendEffect ==
  ASSUME now \in Nat, jobFloor \in 0 .. Whole, NEW f \in Lines, NEW before \in {None} \cup Lines,
         NEW floor \in 0 .. Whole, Send(f, before, floor)
  PROVE  /\ shown' \in Lines /\ last' = shown' /\ ~shown'.none
         /\ shown'.stage = f.stage /\ shown'.units = f.units
         /\ shown'.run.there = f.run.there /\ (f.run.there => shown'.run.start = f.run.start)
         /\ runFloor' \in 0 .. Whole /\ jobFloor' \in 0 .. Whole
         /\ ~before.none /\ before.run.there /\ shown'.run.there /\ before.run.start = shown'.run.start
              => shown'.run.floor >= Progress(before.run, now)
         /\ ~before.none /\ before.job.there /\ shown'.job.there /\ before.job.start = shown'.job.start
              => shown'.job.floor >= Progress(before.job, now)
         /\ f.run.there /\ f.run.start = now /\ floor = 0 /\ (~before.none /\ before.run.there => before.run.floor = 0)
              => shown'.run.floor = 0
         /\ floor = 0 /\ (f.run.there => shown'.run.floor = 0) => runFloor' = 0
<1> Whole \in Nat /\ Reach \in Nat /\ Runs \in Nat
  BY PublisherAssumption
<1>1. PICK br, bj : /\ br = (IF before.none THEN NoSpan ELSE before.run)
                    /\ bj = (IF before.none THEN NoSpan ELSE before.job)
  OBVIOUS
<1>2. /\ br \in Spans /\ bj \in Spans /\ f.run \in Spans /\ f.job \in Spans /\ NoSpan \in Spans
      /\ before.none => ~br.there /\ ~bj.there
      /\ ~NoSpan.there
  <2>1. f.run \in Spans /\ f.job \in Spans BY DEF Lines
  <2>2. CASE before = None BY <1>1, <2>1, <2>2, SpanFact DEF None
  <2>3. CASE before \in Lines
    <3>1. before.run \in Spans /\ before.job \in Spans /\ before.none = FALSE BY <2>3 DEF Lines
    <3> QED BY <1>1, <2>1, <3>1, SpanFact
  <2> QED BY <2>2, <2>3
<1>3. PICK run, whole : /\ run = (IF f.run.there THEN Held(f.run, br, floor) ELSE NoSpan)
                        /\ whole = (IF f.job.there THEN Held(f.job, bj, jobFloor) ELSE NoSpan)
  OBVIOUS
<1>4. /\ last' = [f EXCEPT !.run = run, !.job = whole] /\ shown' = last'
      /\ runFloor' = (IF run.there THEN run.floor ELSE floor)
      /\ jobFloor' = (IF whole.there THEN whole.floor ELSE jobFloor)
  BY <1>1, <1>3 DEF Send
<1>5. /\ run \in Spans /\ (f.run.there => run.there /\ run.start = f.run.start) /\ (~f.run.there => ~run.there)
      /\ f.run.there /\ br.there /\ br.start = f.run.start => run.floor >= Progress(br, now)
      /\ f.run.there /\ f.run.start = now /\ floor = 0 /\ (br.there => br.floor = 0) => run.floor = 0
  <2>1. CASE f.run.there
    <3>0. f.run \in Spans /\ br \in Spans BY <1>2
    <3>1. run = Held(f.run, br, floor) BY <1>3, <2>1
    <3>2. /\ run \in Spans /\ run.there /\ run.start = f.run.start
          /\ br.there /\ br.start = f.run.start => run.floor >= Progress(br, now)
          /\ f.run.start = now /\ floor = 0 /\ (br.there => br.floor = 0) => run.floor = 0
      BY <2>1, <3>0, <3>1, HeldFact
    <3> QED BY <2>1, <3>2
  <2>2. CASE ~f.run.there BY <1>2, <1>3, <2>2
  <2> QED BY <2>1, <2>2
<1>6. /\ whole \in Spans /\ (f.job.there => whole.there /\ whole.start = f.job.start) /\ (~f.job.there => ~whole.there)
      /\ f.job.there /\ bj.there /\ bj.start = f.job.start => whole.floor >= Progress(bj, now)
  <2>1. CASE f.job.there
    <3>0. f.job \in Spans /\ bj \in Spans BY <1>2
    <3>1. whole = Held(f.job, bj, jobFloor) BY <1>3, <2>1
    <3>2. /\ whole \in Spans /\ whole.there /\ whole.start = f.job.start
          /\ bj.there /\ bj.start = f.job.start => whole.floor >= Progress(bj, now)
      BY <2>1, <3>0, <3>1, HeldFact
    <3> QED BY <2>1, <3>2
  <2>2. CASE ~f.job.there BY <1>2, <1>3, <2>2
  <2> QED BY <2>1, <2>2
<1>7. /\ shown' \in Lines /\ shown'.run = run /\ shown'.job = whole /\ ~shown'.none
      /\ shown'.stage = f.stage /\ shown'.units = f.units
  BY <1>4, <1>5, <1>6 DEF Lines
<1>8. run.floor \in 0 .. Whole /\ whole.floor \in 0 .. Whole /\ run.there \in BOOLEAN /\ f.run.there \in BOOLEAN
  BY <1>2, <1>5, <1>6, SpanFact
<1>9. runFloor' \in 0 .. Whole /\ jobFloor' \in 0 .. Whole
  BY <1>4, <1>8
<1>10. shown'.run.there = f.run.there
  BY <1>5, <1>7, <1>8
<1>11. ~before.none => br = before.run /\ bj = before.job
  BY <1>1
<1>12. f.job.there \in BOOLEAN /\ (shown'.job.there => f.job.there)
  BY <1>2, <1>6, <1>7, SpanFact
<1>13. ~before.none /\ before.run.there /\ shown'.run.there /\ before.run.start = shown'.run.start
         => shown'.run.floor >= Progress(before.run, now)
  BY <1>5, <1>7, <1>10, <1>11
<1>14. ~before.none /\ before.job.there /\ shown'.job.there /\ before.job.start = shown'.job.start
         => shown'.job.floor >= Progress(before.job, now)
  BY <1>6, <1>7, <1>11, <1>12
<1>15. f.run.there /\ f.run.start = now /\ floor = 0 /\ (~before.none /\ before.run.there => before.run.floor = 0)
         => shown'.run.floor = 0
  BY <1>1, <1>2, <1>5, <1>7
<1>16. floor = 0 /\ (f.run.there => shown'.run.floor = 0) => runFloor' = 0
  BY <1>4, <1>5, <1>7, <1>8
<1> QED BY <1>4, <1>5, <1>7, <1>9, <1>10, <1>13, <1>14, <1>15, <1>16

\* Where an event of the job takes the forecaster.
LEMMA ObservedFact ==
  ASSUME PubInv, ~fc.cancelled, NEW event \in Events, ObserveEvent(event)
  PROVE  /\ fc' \in Forecasters /\ ~fc'.cancelled /\ fc'.at = Place(fc'.job) /\ fc'.job = JobAfter(event)
         /\ fc'.planned = fc.planned
         /\ event = "JobStarted" =>
              /\ fc.job = "new" /\ fc'.job = "started" /\ fc'.origin = now
              /\ fc'.stage = fc.stage /\ fc'.units = fc.units /\ fc'.priced = fc.priced
         /\ event = "RunStarted" =>
              /\ fc.job \in {"started", "between"} /\ fc'.job = "run" /\ fc'.origin = now
              /\ fc'.stage = "none" /\ fc'.units = 0 /\ fc'.priced = fc.planned
         /\ event \notin {"JobStarted", "RunStarted"} => fc'.origin = fc.origin /\ fc.job # "new"
         /\ event \in {"Described", "Repriced", "Silent"} =>
              fc.job = "run" /\ fc'.job = "run" /\ fc'.stage = fc.stage /\ fc'.units = fc.units
         /\ event = "StageStarted" =>
              fc.job = "run" /\ fc'.job = "run" /\ fc.stage = "none" /\ fc'.stage = "denoise" /\ fc'.units = 0
         /\ event = "RunOutput" =>
              /\ fc.job = "run" /\ fc'.job = "run" /\ fc.stage = "denoise" /\ fc'.stage = "denoise"
              /\ fc'.units = fc.units + 1 /\ fc.units < Units
         /\ event \in {"RunFinished", "Cooldown"} =>
              fc.job \in {"run", "between"} /\ fc'.job = "between" /\ fc'.units = fc.units
         /\ event = "JobFinished" => fc'.at = "finished"
<1>1. /\ fc \in Forecasters /\ ~fc.cancelled /\ fc.at = Place(fc.job) /\ now \in Nat
  BY DEF PubInv, PubTypeOK, FollowsOK
<1>2. Follows(event) /\ fc' = [Observed(event) EXCEPT !.job = JobAfter(event)]
  BY <1>1 DEF ObserveEvent
<1>3. CASE event = "JobStarted"
  <2>1. fc' = [fc EXCEPT !.at = "run", !.run = 1, !.origin = now, !.started = now, !.job = "started"] /\ fc.job = "new"
    BY <1>2, <1>3 DEF Observed, JobAfter, Follows
  <2> QED BY <1>1, <1>3, <2>1 DEF Forecasters, Place, JobAfter
<1>4. CASE event = "RunStarted"
  <2>1. PICK n : n = IF fc.job = "between" THEN fc.run + 1 ELSE fc.run
    OBVIOUS
  <2>2. /\ fc' = [fc EXCEPT !.at = "run", !.run = n, !.origin = now, !.stage = "none", !.units = 0,
                            !.timed = FALSE, !.priced = fc.planned, !.job = "run"]
        /\ fc.job \in {"started", "between"}
    BY <1>2, <1>4, <2>1 DEF Observed, JobAfter, Follows
  <2>3. n \in Nat BY <1>1, <2>1 DEF Forecasters
  <2> QED BY <1>1, <1>4, <2>2, <2>3 DEF Forecasters, Place, JobAfter, Stages
<1>5. CASE event \in {"Described", "Repriced", "Silent"}
  <2>1. PICK p \in BOOLEAN, q \in BOOLEAN : fc' = [fc EXCEPT !.timed = p, !.priced = q, !.job = "run"]
    <3>1. CASE event = "Described"
      <4>1. fc' = [fc EXCEPT !.timed = TRUE, !.priced = fc.priced, !.job = "run"]
        BY <1>1, <1>2, <3>1 DEF Observed, JobAfter, Follows, Forecasters
      <4> QED BY <1>1, <4>1 DEF Forecasters
    <3>2. CASE event = "Repriced"
      <4>1. fc' = [fc EXCEPT !.timed = TRUE, !.priced = ~fc.priced, !.job = "run"]
        BY <1>1, <1>2, <3>2 DEF Observed, JobAfter, Follows
      <4> QED BY <1>1, <4>1 DEF Forecasters
    <3>3. CASE event = "Silent"
      <4>1. fc' = [fc EXCEPT !.timed = fc.timed, !.priced = fc.priced, !.job = "run"]
        BY <1>1, <1>2, <3>3 DEF Observed, JobAfter, Follows, Forecasters
      <4> QED BY <1>1, <4>1 DEF Forecasters
    <3> QED BY <1>5, <3>1, <3>2, <3>3
  <2>2. fc.job = "run" BY <1>2, <1>5 DEF Follows
  <2> QED BY <1>1, <1>5, <2>1, <2>2 DEF Forecasters, Place, JobAfter
<1>6. CASE event = "StageStarted"
  <2>1. fc' = [fc EXCEPT !.stage = "denoise", !.units = 0, !.job = "run"] /\ fc.job = "run" /\ fc.stage = "none"
    BY <1>2, <1>6 DEF Observed, JobAfter, Follows
  <2> QED BY <1>1, <1>6, <2>1 DEF Forecasters, Place, JobAfter, Stages
<1>7. CASE event = "RunOutput"
  <2>1. fc' = [fc EXCEPT !.units = fc.units + 1, !.job = "run"] /\ fc.job = "run" /\ fc.stage = "denoise" /\ fc.units < Units
    BY <1>2, <1>7 DEF Observed, JobAfter, Follows
  <2>2. fc.units + 1 \in Nat BY <1>1 DEF Forecasters
  <2> QED BY <1>1, <1>7, <2>1, <2>2 DEF Forecasters, Place, JobAfter
<1>8. CASE event \in {"RunFinished", "Cooldown"}
  <2>1. fc' = [fc EXCEPT !.at = "between", !.job = "between"] /\ fc.job \in {"run", "between"}
    BY <1>1, <1>2, <1>8 DEF Observed, JobAfter, Follows, Place, Forecasters
  <2> QED BY <1>1, <1>2, <1>8, <2>1 DEF Forecasters, Place, JobAfter, Follows
<1>9. CASE event = "JobFinished"
  <2>1. fc' = [fc EXCEPT !.at = "finished", !.job = "ended"] /\ fc.job \in {"between", "started"}
    BY <1>2, <1>9 DEF Observed, JobAfter, Follows
  <2> QED BY <1>1, <1>9, <2>1 DEF Forecasters, Place, JobAfter
<1> QED BY <1>3, <1>4, <1>5, <1>6, <1>7, <1>8, <1>9 DEF Events

\* What a step does to the two bars.
BarsStep ==
  /\ Bars("run") /\ shown'.run.start = shown.run.start => Progress(shown'.run, now) >= Progress(shown.run, now)
  /\ Bars("job") /\ shown'.job.start = shown.job.start => Progress(shown'.job, now) >= Progress(shown.job, now)

LEMMA BarsOfFloors ==
  ASSUME now \in Nat, shown \in {None} \cup Lines, shown' \in {None} \cup Lines,
         ~shown.none /\ ~shown'.none /\ shown.run.there /\ shown'.run.there /\ shown'.run.start = shown.run.start
           => shown'.run.floor >= Progress(shown.run, now),
         ~shown.none /\ ~shown'.none /\ shown.job.there /\ shown'.job.there /\ shown'.job.start = shown.job.start
           => shown'.job.floor >= Progress(shown.job, now)
  PROVE  BarsStep
<1>1. Whole \in Nat
  BY PublisherAssumption
<1>2. CASE shown.none \/ shown'.none
  BY <1>2 DEF BarsStep, Bars
<1>3. CASE ~shown.none /\ ~shown'.none
  <2>1. shown \in Lines /\ shown' \in Lines BY <1>3 DEF None
  <2>2. /\ shown.run \in Spans /\ shown'.run \in Spans /\ shown.job \in Spans /\ shown'.job \in Spans
    BY <2>1 DEF Lines
  <2>3. /\ Progress(shown'.run, now) >= shown'.run.floor /\ Progress(shown'.job, now) >= shown'.job.floor
        /\ Progress(shown'.run, now) \in 0 .. Whole /\ Progress(shown'.job, now) \in 0 .. Whole
        /\ Progress(shown.run, now) \in 0 .. Whole /\ Progress(shown.job, now) \in 0 .. Whole
        /\ shown'.run.floor \in 0 .. Whole /\ shown'.job.floor \in 0 .. Whole
    BY <2>2, ShareFact, SpanFact
  <2> QED BY <1>1, <1>3, <2>3 DEF BarsStep, Bars
<1> QED BY <1>2, <1>3

LEMMA StillBars ==
  ASSUME now \in Nat, shown \in {None} \cup Lines, shown' = shown \/ shown' = None
  PROVE  BarsStep
<1>1. CASE shown' = None BY <1>1 DEF BarsStep, Bars, None
<1>2. CASE shown' = shown
  <2>1. CASE shown.none BY <2>1 DEF BarsStep, Bars
  <2>2. CASE ~shown.none
    <3>0. shown \in Lines BY <2>2 DEF None
    <3>1. shown.run \in Spans /\ shown.job \in Spans BY <3>0 DEF Lines
    <3>2. Progress(shown.run, now) \in 0 .. Whole /\ Progress(shown.job, now) \in 0 .. Whole
      BY <3>1, ShareFact
    <3>3. Whole \in Nat BY PublisherAssumption
    <3> QED BY <1>2, <3>2, <3>3 DEF BarsStep, Bars
  <2> QED BY <2>1, <2>2
<1> QED BY <1>1, <1>2

\* A publisher that is done, and one that finishes.
LEMMA FinishStep ==
  ASSUME PubInv, Finish, UNCHANGED <<now, parking>>, fc' \in Forecasters, fails' \in Nat,
         ~fc'.cancelled => fc'.at = Place(fc'.job), fc'.job = "new" => fc.job = "new", fc'.origin <= now,
         fails' = 0 => fails = 0 /\ (fc'.cancelled \/ fc'.at = "finished")
  PROVE  PubInv' /\ BarsStep
<1>1. /\ over' = TRUE /\ last' = None /\ shown' = None /\ runFloor' = runFloor /\ jobFloor' = jobFloor
      /\ now' = now /\ parking' = parking
  BY DEF PubInv, PubTypeOK, Finish, None, Lines
<1>2. None.none = TRUE
  BY DEF None
<1>3. PubTypeOK' /\ StageShown'
  BY <1>1 DEF PubInv, PubTypeOK, StageShown
<1>4. FollowsOK'
  BY <1>1, <1>2 DEF PubInv, PubTypeOK, FollowsOK
<1>5. StartOK'
  BY <1>1 DEF PubInv, StartOK
<1>6. BarsStep
  BY <1>1, StillBars DEF PubInv, PubTypeOK
<1> QED BY <1>3, <1>4, <1>5, <1>6 DEF PubInv

\* Once it is done, the job's events change nothing that is shown.
LEMMA ObserveOver ==
  ASSUME PubInv, over, NEW event \in Events, ObserveEvent(event)
  PROVE  PubInv' /\ BarsStep
<1>1. /\ fc \in Forecasters /\ now \in Nat /\ fc.origin <= now /\ (fc.cancelled \/ fc.at = Place(fc.job))
      /\ Follows(event) /\ now' = now /\ fails' = fails /\ UNCHANGED pubVars
      /\ fc' = [(IF fc.cancelled THEN fc ELSE Observed(event)) EXCEPT !.job = JobAfter(event)]
  BY DEF PubInv, PubTypeOK, FollowsOK, StartOK, ObserveEvent
<1>2. /\ fc' \in Forecasters /\ fc'.cancelled = fc.cancelled /\ fc'.origin <= now
      /\ fc'.at = "new" => fc.at = "new"
      /\ fc'.job # "new"
      /\ ~fc'.cancelled => fc.at # "finished" /\ fc'.at = Place(fc'.job)
  <2>1. CASE fc.cancelled
    <3>1. fc' = [fc EXCEPT !.job = JobAfter(event)] BY <1>1, <2>1
    <3>2. JobAfter(event) \in {"started", "run", "between", "ended"}
      BY <1>1 DEF JobAfter, Follows, Forecasters, Events
    <3> QED BY <1>1, <2>1, <3>1, <3>2 DEF Forecasters
  <2>2. CASE ~fc.cancelled
    <3>1. fc.at # "finished" BY <1>1, <2>2 DEF Follows, Place, Forecasters, Events
    <3>2. JobAfter(event) \in {"started", "run", "between", "ended"}
      BY <1>1 DEF JobAfter, Follows, Forecasters, Events
    <3>3. /\ fc' \in Forecasters /\ ~fc'.cancelled /\ fc'.at = Place(fc'.job) /\ fc'.job = JobAfter(event)
          /\ fc'.origin \in {fc.origin, now}
      BY <2>2, ObservedFact
    <3>4. now <= now BY <1>1
    <3>5. fc'.at # "new" BY <3>2, <3>3 DEF Place
    <3>6. fc'.origin <= now BY <1>1, <3>3, <3>4
    <3>7. fc.cancelled = FALSE /\ fc'.cancelled = FALSE BY <1>1, <2>2, <3>3 DEF Forecasters
    <3> QED BY <3>1, <3>2, <3>3, <3>5, <3>6, <3>7
  <2> QED BY <2>1, <2>2
<1>3. last' = last /\ shown' = shown /\ runFloor' = runFloor /\ jobFloor' = jobFloor /\ over' = over /\ parking' = parking
  BY <1>1 DEF pubVars
<1>4. PubTypeOK'
  BY <1>1, <1>2, <1>3 DEF PubInv, PubTypeOK
<1>5. FollowsOK'
  BY <1>1, <1>2, <1>3 DEF PubInv, FollowsOK
<1>6. StageShown' /\ StartOK'
  BY <1>1, <1>2, <1>3 DEF StageShown, StartOK
<1>7. BarsStep
  BY <1>3, StillBars DEF PubInv, PubTypeOK
<1> QED BY <1>4, <1>5, <1>6, <1>7 DEF PubInv

\* Until then, an event's forecast goes out, or nothing changes that anyone sees.
LEMMA ObserveLive ==
  ASSUME PubInv, ~over, NEW event \in Events, event # "JobFinished", ObserveEvent(event)
  PROVE  PubInv' /\ BarsStep
<1>1. /\ fc \in Forecasters /\ now \in Nat /\ now' = now /\ fails' = fails /\ fails \in Nat
      /\ ~fc.cancelled /\ fc.at = Place(fc.job) /\ parking \in BOOLEAN
      /\ fc.job # "ended" /\ last = shown /\ shown \in {None} \cup Lines
      /\ runFloor \in 0 .. Whole /\ jobFloor \in 0 .. Whole /\ Units \in Nat \ {0}
  BY PublisherAssumption DEF PubInv, PubTypeOK, FollowsOK, ObserveEvent
<1>2. PICK f \in Forecasts(fc', parking, now) : Publish(event, f) /\ parking' = parking
  BY DEF ObserveEvent
<1>3. /\ fc' \in Forecasters /\ ~fc'.cancelled /\ fc'.at = Place(fc'.job) /\ fc'.job = JobAfter(event)
      /\ fc'.planned = fc.planned /\ fc'.origin \in {fc.origin, now}
  BY <1>1, ObservedFact
<1>4. fc'.job \in {"started", "run", "between"}
  BY <1>1, <1>3, ObservedFact DEF Events
<1>5. f \in Lines /\ ~f.none /\ (OfRun(f, fc') \/ OfGap(f, fc'))
  <2>1. OfRun(f, fc') \/ OfGap(f, fc')
    BY <1>1, <1>2, <1>3, <1>4, ForecastsShape DEF Place
  <2>2. f \in Lines BY <2>1 DEF OfRun, OfGap
  <2> QED BY <2>1, <2>2 DEF Lines
<1>6. PICK before, floor :
        /\ before = (IF event = "RunStarted" /\ ~last.none THEN [last EXCEPT !.run = NoSpan] ELSE last)
        /\ floor = (IF event = "RunStarted" THEN 0 ELSE runFloor)
  OBVIOUS
<1>7. /\ before \in {None} \cup Lines /\ floor \in 0 .. Whole
      /\ before.none <=> shown.none
      /\ ~shown.none => before.stage = shown.stage /\ before.units = shown.units /\ before.job = shown.job
      /\ event # "RunStarted" => before = shown /\ floor = runFloor
      /\ event = "RunStarted" => floor = 0 /\ (~shown.none => before.run = NoSpan)
  <2>1. 0 \in 0 .. Whole BY PublisherAssumption
  <2>2. CASE event = "RunStarted" /\ ~last.none
    <3>1. last \in Lines BY <1>1, <2>2 DEF None
    <3>2. before = [last EXCEPT !.run = NoSpan] BY <1>6, <2>2
    <3>3. before \in Lines /\ ~before.none /\ before.stage = last.stage /\ before.units = last.units
          /\ before.job = last.job /\ before.run = NoSpan
      BY <3>1, <3>2, SpanFact DEF Lines
    <3> QED BY <1>1, <1>6, <2>1, <2>2, <3>3
  <2>3. CASE ~(event = "RunStarted" /\ ~last.none)
    BY <1>1, <1>6, <2>1, <2>3
  <2> QED BY <2>2, <2>3
<1>8. ASSUME ~Send(f, before, floor)
      PROVE  /\ last' = before /\ runFloor' = floor /\ shown' = shown /\ jobFloor' = jobFloor
             /\ \/ event = "Silent" \/ Identical(f, before)
                \/ event = "RunOutput" /\ (~Advanced(f, before) \/ TooSoon(event, f))
  BY <1>2, <1>5, <1>6, <1>8 DEF Publish
<1>9. over' = over /\ fc'.origin <= now' /\ fc'.at # "new" /\ fc'.job \notin {"new", "ended"}
  <2>1. fc.origin <= now /\ now <= now BY <1>1 DEF PubInv, StartOK
  <2> QED BY <1>1, <1>2, <1>3, <1>4, <2>1 DEF Publish, Place
<1>10. FollowsOK'
  BY <1>1, <1>3, <1>9 DEF FollowsOK
<1>11. /\ fc'.units \in Nat /\ fc'.units <= Units
       /\ fc'.job = "started" <=> event = "JobStarted"
  <2>1. fc.units \in Nat /\ fc'.units \in Nat BY <1>1, <1>3 DEF Forecasters
  <2>2. fc.units <= Units BY <1>1, <2>1 DEF PubInv, StageShown, StartOK, Forecasters
  <2>3. CASE event \in {"JobStarted", "Described", "Repriced", "Silent", "RunFinished", "Cooldown"}
    BY <1>1, <2>1, <2>2, <2>3, ObservedFact
  <2>4. CASE event \in {"RunStarted", "StageStarted"}
    BY <1>1, <2>1, <2>2, <2>4, ObservedFact
  <2>5. CASE event = "RunOutput"
    BY <1>1, <2>1, <2>2, <2>5, ObservedFact
  <2> QED BY <2>3, <2>4, <2>5 DEF Events
<1>12. fc'.job = "started" =>
         /\ fc'.stage = "none" /\ fc'.units = 0 /\ fc'.priced = fc'.planned /\ shown.none /\ runFloor = 0
         /\ fc'.origin = now /\ fc'.at = "run"
  <2>1. SUFFICES ASSUME event = "JobStarted"
                 PROVE  /\ fc'.stage = "none" /\ fc'.units = 0 /\ fc'.priced = fc'.planned /\ shown.none /\ runFloor = 0
                        /\ fc'.origin = now /\ fc'.at = "run"
    BY <1>11
  <2>2. /\ fc.job = "new" /\ fc'.job = "started" /\ fc'.origin = now
        /\ fc'.stage = fc.stage /\ fc'.units = fc.units /\ fc'.priced = fc.priced
    BY <1>1, <2>1, ObservedFact
  <2>3. fc.at = "new" BY <1>1, <2>2 DEF Place
  <2>4. /\ fc.stage = "none" /\ fc.units = 0 /\ fc.priced = fc.planned /\ runFloor = 0 /\ shown.none
    BY <2>2, <2>3 DEF PubInv, FollowsOK, StartOK
  <2> QED BY <1>3, <2>2, <2>4 DEF Place
<1>13. CASE Send(f, before, floor)
  <2>1. /\ shown' \in Lines /\ last' = shown' /\ ~shown'.none /\ shown'.stage = f.stage /\ shown'.units = f.units
        /\ shown'.run.there = f.run.there /\ (f.run.there => shown'.run.start = f.run.start)
        /\ runFloor' \in 0 .. Whole /\ jobFloor' \in 0 .. Whole
    BY <1>1, <1>5, <1>7, <1>13, SendEffect
  <2>2. PubTypeOK'
    BY <1>1, <1>2, <1>3, <1>9, <2>1 DEF PubInv, PubTypeOK
  <2>3. StageShown'
    BY <1>5, <1>11, <2>1 DEF StageShown, OfRun, OfGap
  <2>4. StartOK'
    <3>1. CASE fc'.job # "started" BY <1>9, <3>1 DEF StartOK
    <3>2. CASE fc'.job = "started"
      <4>1. /\ f.run.there <=> Estimated(fc')
            /\ f.run.there => f.run.start = fc'.origin
        BY <1>5, <1>12, <3>2 DEF OfRun, OfGap
      <4>2. Estimated(fc') => fc'.planned BY <1>12, <3>2 DEF Estimated
      <4>3. f.run.there => shown'.run.floor = 0
        BY <1>1, <1>5, <1>7, <1>11, <1>12, <1>13, <3>2, <4>1, SendEffect
      <4>4. runFloor' = 0
        BY <1>1, <1>5, <1>7, <1>11, <1>12, <1>13, <3>2, <4>3, SendEffect
      <4> QED BY <1>9, <1>12, <2>1, <3>2, <4>1, <4>2, <4>3, <4>4 DEF StartOK
    <3> QED BY <3>1, <3>2
  <2>5. BarsStep
    <3>1. ~shown.none /\ ~shown'.none /\ shown.job.there /\ shown'.job.there /\ shown'.job.start = shown.job.start
            => shown'.job.floor >= Progress(shown.job, now)
      BY <1>1, <1>5, <1>7, <1>13, SendEffect
    <3>2. ASSUME ~shown.none, shown.run.there, shown'.run.there, shown'.run.start = shown.run.start
          PROVE  shown'.run.floor >= Progress(shown.run, now)
      <4>1. CASE event # "RunStarted"
        BY <1>1, <1>5, <1>7, <1>13, <3>2, <4>1, SendEffect
      <4>2. CASE event = "RunStarted"
        <5>1. fc.job \in {"started", "between"} /\ fc'.origin = now /\ fc'.at = "run"
          BY <1>1, <1>3, <4>2, ObservedFact DEF Place
        <5>2. fc.job = "started"
          <6>1. fc.job = "between" => ~shown.run.there BY <1>1 DEF PubInv, StageShown, Place
          <6> QED BY <3>2, <5>1, <6>1
        <5>3. shown.run.start = fc.origin /\ (fc.origin = now => shown.run.floor = 0)
          BY <1>1, <3>2, <5>2 DEF PubInv, StartOK
        <5>4. shown'.run.start = now
          BY <1>5, <2>1, <3>2, <5>1 DEF OfRun, OfGap
        <5>5. shown.run \in Spans /\ shown'.run \in Spans
          <6>1. shown \in Lines BY <1>1, <3>2 DEF None
          <6> QED BY <2>1, <6>1 DEF Lines
        <5>6. Progress(shown.run, now) = 0
          BY <1>1, <3>2, <5>3, <5>4, <5>5, ShareFact
        <5>7. shown'.run.floor \in 0 .. Whole BY <5>5, SpanFact
        <5> QED BY <5>6, <5>7, PublisherAssumption
      <4> QED BY <4>1, <4>2
    <3> QED BY <1>1, <2>1, <3>1, <3>2, BarsOfFloors
  <2> QED BY <1>10, <2>2, <2>3, <2>4, <2>5 DEF PubInv
<1>14. CASE ~Send(f, before, floor)
  <2>1. before = shown
    <3>1. SUFFICES ASSUME event = "RunStarted", ~shown.none PROVE before = shown
      BY <1>1, <1>6, <1>7
    <3>2. Identical(f, before) BY <1>8, <1>14, <3>1
    <3>3. before.run = NoSpan /\ ~before.run.there BY <1>7, <3>1, SpanFact
    <3>4. f.run.there = before.run.there BY <3>2 DEF Identical, SameEnds
    <3>5. /\ fc.job \in {"started", "between"} /\ fc'.at = "run" /\ fc'.stage = "none"
          /\ fc'.priced = fc.planned
      BY <1>1, <1>3, <3>1, ObservedFact DEF Place
    <3>6. ~fc.planned
      BY <1>5, <3>3, <3>4, <3>5 DEF OfRun, OfGap, Estimated
    <3>7. ~shown.run.there
      <4>1. fc.job = "between" => ~shown.run.there BY <1>1 DEF PubInv, StageShown, Place
      <4>2. fc.job = "started" => ~shown.run.there BY <1>1, <3>1, <3>6 DEF PubInv, StartOK
      <4> QED BY <3>5, <4>1, <4>2
    <3>8. shown \in Lines BY <1>1, <3>1 DEF None
    <3>9. shown.run = NoSpan BY <3>7, <3>8, SpanFact DEF Lines, Spans, Drawn
    <3>10. before = [shown EXCEPT !.run = NoSpan] BY <1>1, <1>6, <3>1
    <3> QED BY <3>8, <3>9, <3>10 DEF Lines
  <2>2. PubTypeOK'
    BY <1>1, <1>2, <1>3, <1>7, <1>8, <1>9, <1>14, <2>1 DEF PubInv, PubTypeOK
  <2>3. StageShown'
    <3>1. CASE Identical(f, before) \/ (event = "RunOutput" /\ ~Advanced(f, before))
      <4>0. ~Advanced(f, shown) /\ (f.run.there = shown.run.there \/ event = "RunOutput")
        BY <2>1, <3>1 DEF Identical, SameEnds
      <4>1. ~shown.none /\ shown.stage = f.stage /\ shown.units = f.units /\ (f.run.there = shown.run.there \/ event = "RunOutput")
        BY <4>0 DEF Advanced
      <4>2. event = "RunOutput" => fc'.at = "run"
        BY <1>1, <1>3, ObservedFact DEF Place
      <4> QED BY <1>5, <1>8, <1>11, <1>14, <4>1, <4>2 DEF StageShown, OfRun, OfGap
    <3>2. CASE event = "Silent"
      <4>1. fc.job = "run" /\ fc'.job = "run" /\ fc'.stage = fc.stage /\ fc'.units = fc.units
        BY <1>1, <3>2, ObservedFact
      <4>2. fc.at = "run" /\ fc'.at = "run" BY <1>1, <1>3, <4>1 DEF Place
      <4> QED BY <1>8, <1>11, <1>14, <4>1, <4>2 DEF PubInv, StageShown
    <3>3. CASE event = "RunOutput" /\ TooSoon(event, f)
      <4>1. /\ fc.job = "run" /\ fc'.job = "run" /\ fc'.stage = fc.stage /\ fc'.units = fc.units + 1
        BY <1>1, <3>3, ObservedFact
      <4>2. fc.at = "run" /\ fc'.at = "run" BY <1>1, <1>3, <4>1 DEF Place
      <4>3. f.units # Units /\ f.units = fc'.units BY <1>5, <3>3, <4>2 DEF TooSoon, OfRun, OfGap
      <4>4. ~shown.none /\ shown.stage = fc.stage /\ shown.units <= fc.units
        BY <4>1, <4>2 DEF PubInv, StageShown
      <4>5. shown \in Lines BY <1>1, <4>4 DEF None
      <4>6. shown.units \in Nat /\ fc.units \in Nat BY <1>1, <4>5 DEF Lines, Forecasters
      <4> QED BY <1>8, <1>11, <1>14, <4>1, <4>2, <4>3, <4>4, <4>6 DEF StageShown
    <3> QED BY <1>8, <1>14, <3>1, <3>2, <3>3
  <2>4. StartOK'
    <3>1. fc'.job # "started"
      BY <1>7, <1>8, <1>11, <1>12, <1>14, <2>1 DEF Identical, Advanced
    <3> QED BY <1>9, <3>1 DEF StartOK
  <2>5. BarsStep
    BY <1>1, <1>8, <1>14, StillBars
  <2> QED BY <1>10, <2>2, <2>3, <2>4, <2>5 DEF PubInv
<1> QED BY <1>13, <1>14

\* A park change publishes the forecast of now, or none when there is none.
LEMMA ParkStep ==
  ASSUME PubInv, ParkChanged
  PROVE  PubInv' /\ BarsStep
<1>1. PICK f \in Forecasts(fc, request = "park", now) :
        IF f.none THEN UNCHANGED <<last, shown, runFloor, jobFloor, parkingAtLast>>
        ELSE Send(f, last, runFloor) /\ parkingAtLast' = (request = "park")
  BY DEF ParkChanged
<1>2. /\ now' = now /\ fc' = fc /\ over' = over /\ fails' = fails /\ parking' \in BOOLEAN
      /\ fc \in Forecasters /\ now \in Nat /\ last = shown /\ shown \in {None} \cup Lines
      /\ runFloor \in 0 .. Whole /\ jobFloor \in 0 .. Whole
  BY DEF PubInv, PubTypeOK, ParkChanged
<1>3. CASE f.none
  <2>1. last' = last /\ shown' = shown /\ runFloor' = runFloor /\ jobFloor' = jobFloor
    BY <1>1, <1>3
  <2> QED BY <1>2, <2>1, StillBars DEF PubInv, PubTypeOK, FollowsOK, StageShown, StartOK
<1>4. CASE ~f.none
  <2>1. (request = "park") \in BOOLEAN
    OBVIOUS
  <2>2. ~fc.cancelled /\ (OfRun(f, fc) \/ OfGap(f, fc))
    <3>1. f # None BY <1>4 DEF None
    <3> QED BY <1>1, <1>2, <2>1, <3>1, ForecastsShape
  <2>3. f \in Lines /\ Send(f, shown, runFloor)
    BY <1>1, <1>2, <1>4, <2>2 DEF OfRun, OfGap
  <2>4. /\ shown' \in Lines /\ last' = shown' /\ ~shown'.none /\ shown'.stage = f.stage /\ shown'.units = f.units
        /\ shown'.run.there = f.run.there /\ (f.run.there => shown'.run.start = f.run.start)
        /\ runFloor' \in 0 .. Whole /\ jobFloor' \in 0 .. Whole
    BY <1>2, <2>3, SendEffect
  <2>5. PubTypeOK'
    BY <1>2, <2>4 DEF PubInv, PubTypeOK
  <2>6. fc.at \in {"run", "between"} /\ fc.at = Place(fc.job)
    BY <2>2 DEF OfRun, OfGap, PubInv, FollowsOK
  <2>7. FollowsOK'
    BY <1>2, <2>2, <2>6 DEF PubInv, FollowsOK
  <2>8. StageShown'
    BY <1>2, <2>2, <2>4 DEF PubInv, StageShown, OfRun, OfGap, Forecasters
  <2>9. StartOK'
    <3>1. CASE fc.job = "started" /\ ~over
      <4>1. /\ fc.stage = "none" /\ fc.priced = fc.planned /\ fc.at = "run" /\ fc.origin <= now
            /\ shown.none \/ (shown.run.there => shown.run.start = fc.origin)
            /\ fc.origin = now => runFloor = 0 /\ (~shown.none /\ shown.run.there => shown.run.floor = 0)
        BY <2>6, <3>1 DEF PubInv, StartOK, Place
      <4>2. f.run.there <=> fc.planned
        BY <2>2, <4>1 DEF OfRun, OfGap, Estimated
      <4>3. f.run.there => f.run.start = fc.origin
        BY <2>2 DEF OfRun, OfGap
      <4>4. fc.origin = now /\ f.run.there => shown'.run.floor = 0
        BY <1>2, <2>3, <4>1, <4>3, SendEffect
      <4>5. fc.origin = now => runFloor' = 0
        BY <1>2, <2>3, <4>1, <4>4, SendEffect
      <4> QED BY <1>2, <2>4, <3>1, <4>1, <4>2, <4>3, <4>4, <4>5 DEF PubInv, StartOK
    <3>2. CASE ~(fc.job = "started" /\ ~over)
      <4>1. fc.job # "new" BY <2>6 DEF Place
      <4> QED BY <1>2, <3>2, <4>1 DEF PubInv, StartOK
    <3> QED BY <3>1, <3>2
  <2>10. BarsStep
    <3>1. ~shown.none /\ ~shown'.none /\ shown.run.there /\ shown'.run.there /\ shown'.run.start = shown.run.start
            => shown'.run.floor >= Progress(shown.run, now)
      BY <1>2, <2>3, SendEffect
    <3>2. ~shown.none /\ ~shown'.none /\ shown.job.there /\ shown'.job.there /\ shown'.job.start = shown.job.start
            => shown'.job.floor >= Progress(shown.job, now)
      BY <1>2, <2>3, SendEffect
    <3> QED BY <1>2, <2>4, <3>1, <3>2, BarsOfFloors
  <2> QED BY <2>5, <2>7, <2>8, <2>9, <2>10 DEF PubInv
<1> QED BY <1>3, <1>4

\* Every step keeps the invariant, and no step moves a bar back.
LEMMA PubInvNext ==
  ASSUME PubInv, [PublisherNext]_publisherVars
  PROVE  PubInv' /\ (publisherVars' # publisherVars => BarsStep)
<1>1. ASSUME NEW event \in Events, ObserveEvent(event) PROVE PubInv' /\ BarsStep
  <2>1. CASE over BY <1>1, <2>1, ObserveOver
  <2>2. CASE ~over /\ event # "JobFinished" BY <1>1, <2>2, ObserveLive
  <2>3. CASE ~over /\ event = "JobFinished"
    <3>1. ~fc.cancelled BY <2>3 DEF PubInv, FollowsOK
    <3>2. /\ fc' \in Forecasters /\ fc'.at = Place(fc'.job) /\ fc'.job = "ended" /\ fc'.origin = fc.origin
          /\ fc'.at = "finished"
      BY <1>1, <2>3, <3>1, ObservedFact DEF JobAfter
    <3>3. Finish /\ parking' = parking /\ now' = now /\ fails' = fails BY <1>1, <2>3 DEF ObserveEvent
    <3>4. fails \in Nat /\ fc.origin <= now BY DEF PubInv, PubTypeOK, StartOK
    <3> QED BY <3>2, <3>3, <3>4, FinishStep
  <2> QED BY <2>1, <2>2, <2>3
<1>2. CASE Fail
  <2>1. /\ Finish /\ UNCHANGED <<now, parking>> /\ fc' = fc /\ fails' = fails + 1
        /\ fails \in Nat /\ fc \in Forecasters /\ fc.origin <= now /\ (~fc.cancelled => fc.at = Place(fc.job))
    BY <1>2 DEF Fail, PubInv, PubTypeOK, FollowsOK, StartOK
  <2>2. fails' \in Nat /\ fails' # 0 BY <2>1
  <2> QED BY <2>1, <2>2, FinishStep
<1>3. CASE ParkRead
  <2>1. now' = now /\ fc' = fc /\ fails' = fails /\ UNCHANGED pubVars BY <1>3 DEF ParkRead
  <2> QED BY <2>1, StillBars DEF PubInv, PubTypeOK, FollowsOK, StageShown, StartOK, pubVars
<1>4. CASE ParkChanged BY <1>4, ParkStep
<1>5. CASE CancelForecast
  <2>1. /\ Finish /\ UNCHANGED <<now, parking>> /\ fails' = fails /\ fc' = [fc EXCEPT !.cancelled = TRUE]
        /\ fails \in Nat /\ fc \in Forecasters /\ fc.origin <= now
    BY <1>5 DEF CancelForecast, PubInv, PubTypeOK, StartOK
  <2>2. /\ fc' \in Forecasters /\ fc'.cancelled /\ fc'.job = fc.job /\ fc'.origin = fc.origin /\ fc'.at = fc.at
    BY <2>1 DEF Forecasters
  <2> QED BY <2>1, <2>2, FinishStep
<1>6. CASE Tick
  <2>1. now' = now + 1 /\ fc' = fc /\ fails' = fails /\ UNCHANGED pubVars BY <1>6 DEF Tick
  <2>2. now \in Nat /\ now' \in Nat /\ fc.origin \in Nat /\ fc.origin <= now /\ fc.origin # now' /\ fc.origin <= now'
    BY <2>1 DEF PubInv, PubTypeOK, StartOK, Forecasters
  <2> QED BY <2>1, <2>2, StillBars DEF PubInv, PubTypeOK, FollowsOK, StageShown, StartOK, pubVars
<1>7. CASE UNCHANGED publisherVars
  BY <1>7 DEF publisherVars, pubVars, PubInv, PubTypeOK, FollowsOK, StageShown, StartOK
<1> QED BY <1>1, <1>2, <1>3, <1>4, <1>5, <1>6, <1>7 DEF PublisherNext

LEMMA PubInvInit == PublisherInit => PubInv
<1> SUFFICES ASSUME PublisherInit PROVE PubInv
  OBVIOUS
<1>1. PICK history \in BOOLEAN :
        fc = [at |-> "new", job |-> "new", run |-> 1, origin |-> 0, started |-> 0, stage |-> "none", units |-> 0,
              timed |-> FALSE, planned |-> history, priced |-> history, cancelled |-> FALSE]
  BY DEF PublisherInit
<1>2. fc \in Forecasters
  BY <1>1 DEF Forecasters, Stages
<1>3. /\ shown.none /\ shown = None /\ last = None /\ runFloor = 0 /\ jobFloor = 0 /\ now = 0 /\ fails = 0
      /\ over = FALSE /\ parking = FALSE
  BY DEF PublisherInit, None
<1>4. PubTypeOK
  <2>1. 0 \in 0 .. Whole BY PublisherAssumption
  <2> QED BY <1>2, <1>3, <2>1 DEF PubTypeOK
<1>5. FollowsOK
  BY <1>1, <1>3 DEF FollowsOK, Place
<1>6. StageShown /\ StartOK
  BY <1>1, <1>3 DEF StageShown, StartOK
<1> QED BY <1>4, <1>5, <1>6 DEF PubInv

\* For any plan of runs and steps and any clock: the last step of a stage always
\* shows, and no forecast of a job stands once it has ended or been cancelled.
THEOREM ForecastShownThm == PublisherSpec => []ForecastShown
<1>1. PubInv => ForecastShown
  BY PublisherAssumption
     DEF PubInv, PubTypeOK, FollowsOK, StageShown, Place, Forecasters, ForecastShown, LastReadingShown, EndedCleared
<1> QED BY <1>1, PubInvInit, PubInvNext, PTL DEF PublisherSpec

\* And neither bar moves back while it is counted from the same start.
THEOREM BarsHoldThm == PublisherSpec => BarsHold
<1>1. PubInv /\ [PublisherNext]_publisherVars
        => [Bars("run") /\ shown'.run.start = shown.run.start
              => Progress(shown'.run, now) >= Progress(shown.run, now)]_publisherVars
  BY PubInvNext DEF BarsStep
<1>2. PubInv /\ [PublisherNext]_publisherVars
        => [Bars("job") /\ shown'.job.start = shown.job.start
              => Progress(shown'.job, now) >= Progress(shown.job, now)]_publisherVars
  BY PubInvNext DEF BarsStep
<1>3. PubInv /\ [PublisherNext]_publisherVars => PubInv'
  BY PubInvNext
<1> QED BY <1>1, <1>2, <1>3, PubInvInit, PTL DEF PublisherSpec, BarsHold, RunBarHolds, JobBarHolds

------------------------------------------------------------------------------
(* The files of the timing knobs: what a change replaced can be put back with *)
(* the record of that time, whatever was interrupted or edited in between.    *)

Content == [by : {"none", "machine", "empty", "hand", "bad"}, v : Nat]
Recs == [Files -> Content]
PartialTexts == UNION {[S -> Content] : S \in SUBSET Files}
PartialBackups == UNION {[S -> [for : Nat, content : Content]] : S \in SUBSET Files}
Journals == [id : Nat, texts : PartialTexts, prior : Recs, written : Recs, priorRec : Recs, seen : Recs]
Undoable == [id : Nat, prior : Recs, files : PartialBackups]
Preparing == {"check", "backup", "journal"}
Applying == {"apply", "manifest", "unlink"}

KnobTypes ==
  /\ file \in Recs /\ written \in Recs /\ manifest \in Seq(Undoable)
  /\ changes \in Nat /\ edits \in Nat /\ crashes \in Nat
  /\ journal # NoJournal => journal \in Journals
  /\ pc \in {"idle"} \cup Preparing \cup Applying
  /\ pc \in Preparing =>
       /\ journal = NoJournal /\ changes # 0
       /\ job.texts \in PartialTexts /\ job.seen \in Recs /\ job.prior \in Recs /\ job.written \in Recs /\ job.expects \in BOOLEAN
       /\ job.left = DOMAIN job.texts /\ job.skipped = {}
  /\ pc \in Applying => /\ journal # NoJournal /\ job.skipped \subseteq DOMAIN journal.texts
                        /\ job.left \subseteq DOMAIN journal.texts \ job.skipped
  /\ job = [texts |-> job.texts, seen |-> job.seen, prior |-> job.prior, written |-> job.written, expects |-> job.expects,
            left |-> job.left, skipped |-> job.skipped]

\* What was read, or what a person wrote too late to be compared, or what no person wrote.
Accounted(c, read, tooLate) == c = read \/ c.by \notin {"hand", "bad"} \/ c.v \in tooLate

EditsKept ==
  /\ lost \subseteq late
  /\ pc \in {"backup", "journal"} /\ job.expects => \A f \in DOMAIN job.texts : Accounted(file[f], job.seen[f], late)
  /\ pc = "journal" => \A f \in DOMAIN job.texts : /\ Accounted(file[f], job.prior[f], late)
                                                   /\ job.expects => Accounted(job.prior[f], job.seen[f], late)
  /\ journal # NoJournal => \A f \in DOMAIN journal.texts : Accounted(journal.prior[f], journal.seen[f], late)
  /\ pc = "apply" => \A f \in job.left : file[f] = journal.texts[f] \/ Accounted(file[f], journal.seen[f], late)

\* The record names a machine's content; an approval is not newer than the calibration recorded with it.
Named(f, c, record, met) == MachineMade(c) /\ <<f, c>> \notin met => record[f] = c
Backed(c, record, met) ==
  c.by = "machine" /\ record["validated"] = c /\ <<"validated", c>> \notin met => record["backend"].v >= c.v
Bounded(record, n) == record["validated"].by = "machine" => record["validated"].v <= n

\* A change that was decided, or is in the journal: what it writes is what it records, and outside it the record stays.
Recorded(texts, new, old, approval, met, n) ==
  /\ \A f \in DOMAIN texts : Named(f, texts[f], new, met)
  /\ \A f \in Files \ DOMAIN texts : new[f] = old[f]
  /\ Bounded(new, n)
  /\ "validated" \in DOMAIN texts => Backed(texts["validated"], new, met)
  /\ "validated" \notin DOMAIN texts => Backed(approval, new, met)

JournalTrue ==
  journal # NoJournal =>
    /\ journal.id = changes /\ changes # 0
    /\ Recorded(journal.texts, journal.written, journal.priorRec, file["validated"], surfaced, changes)
    /\ \A f \in Files : Named(f, journal.prior[f], journal.priorRec, surfaced)
    /\ Bounded(journal.priorRec, changes)
    /\ Backed(journal.prior["validated"], journal.priorRec, surfaced)
    /\ \A f \in Files \ DOMAIN journal.texts : /\ written[f] = journal.priorRec[f]
                                               /\ Named(f, file[f], journal.priorRec, surfaced)
    /\ \A f \in DOMAIN journal.texts : file[f] \in {journal.prior[f], journal.texts[f]} \/ ~MachineMade(file[f])
    /\ "validated" \notin DOMAIN journal.texts => Backed(file["validated"], journal.priorRec, surfaced)

Resting == journal = NoJournal \/ pc \in {"manifest", "unlink"}

RecordsTrue ==
  /\ Bounded(written, changes)
  /\ pc \in Preparing => Recorded(job.texts, job.written, written, file["validated"], surfaced, changes)
  /\ pc = "journal" => /\ Backed(job.prior["validated"], written, surfaced)
                       /\ \A f \in Files : /\ Named(f, job.prior[f], written, surfaced)
                                           /\ file[f] = job.prior[f] \/ ~MachineMade(file[f])
  /\ Resting => /\ \A f \in Files : Named(f, file[f], written, surfaced)
                /\ Backed(file["validated"], written, surfaced)
  /\ pc = "apply" =>
       /\ \A f \in job.skipped : Named(f, file[f], journal.priorRec, surfaced)
       /\ \A f \in DOMAIN journal.texts \ (job.left \cup job.skipped) : Named(f, file[f], journal.written, surfaced)
       /\ "validated" \in DOMAIN journal.texts /\ job.skipped # {} => job.skipped = DOMAIN journal.texts
       /\ "validated" \in job.skipped => Backed(file["validated"], journal.priorRec, surfaced)
       /\ "validated" \in DOMAIN journal.texts \ (job.left \cup job.skipped) => Backed(file["validated"], journal.written, surfaced)

\* The changes that can be rolled back, the one in the journal among them.
JournalEntry ==
  [id |-> journal.id, prior |-> journal.priorRec,
   files |-> [f \in DOMAIN journal.texts |-> [for |-> journal.id, content |-> journal.prior[f]]]]
InManifest == \E i \in 1 .. Len(manifest) : manifest[i].id = journal.id
Changing == journal # NoJournal /\ DOMAIN journal.texts # {}
Undo == IF Changing /\ ~InManifest THEN Append(manifest, JournalEntry) ELSE manifest

\* No change from the i-th to before the j-th replaced the file.
Untouched(m, f, i, j) == \A l \in 1 .. Len(m) : i <= l /\ l < j => f \notin DOMAIN m[l].files

UndoTrue(m, record, approval, met, n) ==
  /\ \A i \in 1 .. Len(m) : m[i].id <= n /\ Bounded(m[i].prior, n)
  /\ \A i \in 1 .. Len(m) : \A f \in DOMAIN m[i].files : Named(f, m[i].files[f].content, m[i].prior, met)
  /\ \A i, j \in 1 .. Len(m) : \A f \in Files : i <= j /\ Untouched(m, f, i, j) => m[i].prior[f] = m[j].prior[f]
  /\ \A i \in 1 .. Len(m) : \A f \in Files : Untouched(m, f, i, Len(m) + 1) => m[i].prior[f] = record[f]
  /\ \A i, j \in 1 .. Len(m) : i <= j /\ Untouched(m, "validated", i, j) /\ "validated" \in DOMAIN m[j].files =>
       Backed(m[j].files["validated"].content, m[i].prior, met)
  /\ \A i \in 1 .. Len(m) : Untouched(m, "validated", i, Len(m) + 1) => Backed(approval, m[i].prior, met)

ManifestTrue ==
  /\ UndoTrue(Undo, written, file["validated"], surfaced, changes)
  /\ Changing => Undo # <<>> /\ Undo[Len(Undo)] = JournalEntry
  /\ Changing /\ pc = "unlink" => InManifest
  /\ pc \in Preparing => \A i \in 1 .. Len(manifest) : manifest[i].id < changes
  /\ pc = "journal" => \A i \in 1 .. Len(manifest) :
       Untouched(manifest, "validated", i, Len(manifest) + 1) => Backed(job.prior["validated"], manifest[i].prior, surfaced)

KnobInv == KnobTypes /\ EditsKept /\ JournalTrue /\ RecordsTrue /\ ManifestTrue

------------------------------------------------------------------------------

\* What the sets of contents, records, texts and changes are made of.
LEMMA KnobShapes ==
  /\ \A r \in Recs : /\ DOMAIN r = Files /\ \A f \in Files : r[f] \in Content
  /\ \A t \in PartialTexts : DOMAIN t \subseteq Files /\ \A f \in DOMAIN t : t[f] \in Content
  /\ \A S \in SUBSET Files : [S -> Content] \subseteq PartialTexts
  /\ \A S \in SUBSET Files : [S -> [for : Nat, content : Content]] \subseteq PartialBackups
  /\ \A e \in Undoable : /\ e.id \in Nat /\ e.prior \in Recs /\ DOMAIN e.files \subseteq Files
                        /\ \A f \in DOMAIN e.files : e.files[f] \in [for : Nat, content : Content] /\ e.files[f].content \in Content
  /\ \A c \in Content : c.by \in {"none", "machine", "empty", "hand", "bad"} /\ c.v \in Nat
  /\ "validated" \in Files /\ "backend" \in Files /\ "tuning" \in Files /\ Knobs = {"tuning", "backend"}
  /\ Absent \in Content /\ \A n \in Nat : Machine(n) \in Content /\ Empty(n) \in Content
  /\ Absent.by = "none" /\ \A n : Machine(n).by = "machine" /\ Machine(n).v = n /\ Empty(n).by = "empty"
<1>1. \A r \in Recs : /\ DOMAIN r = Files /\ \A f \in Files : r[f] \in Content
  BY DEF Recs
<1>2. \A t \in PartialTexts : DOMAIN t \subseteq Files /\ \A f \in DOMAIN t : t[f] \in Content
  BY DEF PartialTexts
<1>3. \A S \in SUBSET Files : [S -> Content] \subseteq PartialTexts
  BY DEF PartialTexts
<1>4. \A S \in SUBSET Files : [S -> [for : Nat, content : Content]] \subseteq PartialBackups
  BY DEF PartialBackups
<1>5. \A e \in Undoable : /\ e.id \in Nat /\ e.prior \in Recs /\ DOMAIN e.files \subseteq Files
                        /\ \A f \in DOMAIN e.files : e.files[f] \in [for : Nat, content : Content] /\ e.files[f].content \in Content
  BY DEF Undoable, PartialBackups
<1>6. \A c \in Content : c.by \in {"none", "machine", "empty", "hand", "bad"} /\ c.v \in Nat
  BY DEF Content
<1>7. "validated" \in Files /\ "backend" \in Files /\ "tuning" \in Files /\ Knobs = {"tuning", "backend"}
  BY DEF Files, Knobs
<1>8. Absent \in Content /\ \A n \in Nat : Machine(n) \in Content /\ Empty(n) \in Content
  BY DEF Content, Absent, Machine, Empty
<1>9. Absent.by = "none"
  BY DEF Absent
<1>10. \A n : Machine(n).by = "machine" /\ Machine(n).v = n /\ Empty(n).by = "empty"
  BY DEF Machine, Empty
<1> QED
  BY <1>1, <1>2, <1>3, <1>4, <1>5, <1>6, <1>7, <1>8, <1>9, <1>10

\* The steps of a change, and the fields of an operation that is none.
LEMMA KnobSets ==
  /\ Preparing = {"check", "backup", "journal"} /\ Applying = {"apply", "manifest", "unlink"}
  /\ NoJob.texts = <<>> /\ NoJob.left = {} /\ NoJob.skipped = {}
  /\ NoJob = [texts |-> NoJob.texts, seen |-> NoJob.seen, prior |-> NoJob.prior, written |-> NoJob.written,
              expects |-> NoJob.expects, left |-> NoJob.left, skipped |-> NoJob.skipped]
BY DEF Preparing, Applying, NoJob

\* The same for more changes, and for more contents that met an edit.
LEMMA UndoLater ==
  ASSUME NEW m \in Seq(Undoable), NEW record, NEW approval, NEW met, NEW met2, met \subseteq met2, NEW n \in Nat, NEW n2 \in Nat, n <= n2,
         UndoTrue(m, record, approval, met, n)
  PROVE  UndoTrue(m, record, approval, met2, n2)
<1>1. \A i \in 1 .. Len(m) : m[i] \in Undoable
  OBVIOUS
<1>2. \A i \in 1 .. Len(m) : m[i].id <= n2 /\ Bounded(m[i].prior, n2)
  <2> TAKE i \in 1 .. Len(m)
  <2>1. m[i].id \in Nat /\ m[i].prior["validated"] \in Content /\ m[i].id <= n /\ Bounded(m[i].prior, n)
    BY <1>1, KnobShapes DEF UndoTrue
  <2>2. m[i].prior["validated"].v \in Nat
    BY <2>1, KnobShapes
  <2> QED
    BY <2>1, <2>2 DEF Bounded
<1> QED
  BY <1>2 DEF UndoTrue, Named, Backed

\* The approval may be replaced by a person, or by the last of the changes.
LEMMA UndoApproval ==
  ASSUME NEW m, NEW record, NEW approval, NEW other, NEW met, NEW n, UndoTrue(m, record, approval, met, n), Len(m) \in Nat,
         \/ other.by # "machine"
         \/ other = approval
         \/ Len(m) # 0 /\ "validated" \in DOMAIN m[Len(m)].files
  PROVE  UndoTrue(m, record, other, met, n)
<1>1. \A i \in 1 .. Len(m) : Untouched(m, "validated", i, Len(m) + 1) => Backed(other, m[i].prior, met)
  BY DEF UndoTrue, Backed, Untouched
<1> QED
  BY <1>1 DEF UndoTrue

\* The record may change where the last of the changes is.
LEMMA UndoRecord ==
  ASSUME NEW m, NEW record, NEW other, NEW approval, NEW met, NEW n, UndoTrue(m, record, approval, met, n), Len(m) \in Nat,
         \A f \in Files : other[f] = record[f] \/ (Len(m) # 0 /\ f \in DOMAIN m[Len(m)].files)
  PROVE  UndoTrue(m, other, approval, met, n)
<1>1. \A i \in 1 .. Len(m) : \A f \in Files : Untouched(m, f, i, Len(m) + 1) => m[i].prior[f] = other[f]
  BY DEF UndoTrue, Untouched
<1> QED
  BY <1>1 DEF UndoTrue

\* One change more.
LEMMA UndoGrows ==
  ASSUME NEW m \in Seq(Undoable), NEW e \in Undoable, NEW record, NEW approval, NEW met, NEW n \in Nat, UndoTrue(m, record, approval, met, n),
         e.id <= n, e.prior = record, Bounded(record, n),
         \A f \in DOMAIN e.files : Named(f, e.files[f].content, record, met),
         "validated" \in DOMAIN e.files =>
           /\ Backed(e.files["validated"].content, record, met)
           /\ \A i \in 1 .. Len(m) : Untouched(m, "validated", i, Len(m) + 1) => Backed(e.files["validated"].content, m[i].prior, met),
         "validated" \notin DOMAIN e.files => Backed(approval, record, met)
  PROVE  UndoTrue(Append(m, e), record, approval, met, n)
<1> DEFINE g == Append(m, e)
           l == Len(m)
<1>1. /\ l \in Nat /\ Len(g) = l + 1 /\ g[l + 1] = e /\ \A i \in 1 .. l : g[i] = m[i]
      /\ 1 .. Len(g) = (1 .. l) \cup {l + 1}
  OBVIOUS
<1> HIDE DEF g, l
<1>2. \A f : \A i, j \in 1 .. l + 1 : Untouched(g, f, i, j) <=> Untouched(m, f, i, j)
  BY <1>1 DEF Untouched, l
<1>3. \A f : \A i \in 1 .. l + 1 : Untouched(g, f, i, l + 2) <=> (Untouched(m, f, i, l + 1) /\ f \notin DOMAIN e.files)
  BY <1>1 DEF Untouched, l
<1>4. \A i \in 1 .. Len(g) : g[i].id <= n /\ Bounded(g[i].prior, n)
  BY <1>1 DEF UndoTrue, l
<1>5. \A i \in 1 .. Len(g) : \A f \in DOMAIN g[i].files : Named(f, g[i].files[f].content, g[i].prior, met)
  BY <1>1 DEF UndoTrue, l
<1>6. \A i, j \in 1 .. Len(g) : \A f \in Files : i <= j /\ Untouched(g, f, i, j) => g[i].prior[f] = g[j].prior[f]
  <2> SUFFICES ASSUME NEW i \in 1 .. l + 1, NEW j \in 1 .. l + 1, NEW f \in Files, i <= j, Untouched(g, f, i, j)
               PROVE  g[i].prior[f] = g[j].prior[f]
    BY <1>1
  <2>1. Untouched(m, f, i, j)
    BY <1>2
  <2>2. CASE i = j
    BY <2>2
  <2>3. CASE i # j /\ j # l + 1
    BY <1>1, <2>1, <2>3 DEF UndoTrue, l
  <2>4. CASE i # j /\ j = l + 1
    <3>1. i \in 1 .. l
      BY <1>1, <2>4
    <3> QED
      BY <1>1, <2>1, <2>4, <3>1 DEF UndoTrue, l
  <2> QED
    BY <2>2, <2>3, <2>4
<1>7. \A i \in 1 .. Len(g) : \A f \in Files : Untouched(g, f, i, Len(g) + 1) => g[i].prior[f] = record[f]
  <2> SUFFICES ASSUME NEW i \in 1 .. l + 1, NEW f \in Files, Untouched(g, f, i, l + 2)
               PROVE  g[i].prior[f] = record[f]
    BY <1>1
  <2>1. Untouched(m, f, i, l + 1)
    BY <1>3
  <2>2. i \in 1 .. l \/ i = l + 1
    BY <1>1
  <2> QED
    BY <1>1, <2>1, <2>2 DEF UndoTrue, l
<1>8. \A i, j \in 1 .. Len(g) : i <= j /\ Untouched(g, "validated", i, j) /\ "validated" \in DOMAIN g[j].files =>
       Backed(g[j].files["validated"].content, g[i].prior, met)
  <2> SUFFICES ASSUME NEW i \in 1 .. l + 1, NEW j \in 1 .. l + 1, i <= j, Untouched(g, "validated", i, j), "validated" \in DOMAIN g[j].files
               PROVE  Backed(g[j].files["validated"].content, g[i].prior, met)
    BY <1>1
  <2>1. Untouched(m, "validated", i, j)
    BY <1>2
  <2>2. CASE j # l + 1
    <3>1. i \in 1 .. l /\ j \in 1 .. l
      BY <1>1, <2>2
    <3> QED
      BY <1>1, <2>1, <3>1 DEF UndoTrue, l
  <2>3. CASE j = l + 1 /\ i # l + 1
    <3>1. i \in 1 .. l
      BY <1>1, <2>3
    <3> QED
      BY <1>1, <2>1, <2>3, <3>1 DEF l
  <2>4. CASE j = l + 1 /\ i = l + 1
    BY <1>1, <2>4
  <2> QED
    BY <2>2, <2>3, <2>4
<1>9. \A i \in 1 .. Len(g) : Untouched(g, "validated", i, Len(g) + 1) => Backed(approval, g[i].prior, met)
  <2> SUFFICES ASSUME NEW i \in 1 .. l + 1, Untouched(g, "validated", i, l + 2)
               PROVE  Backed(approval, g[i].prior, met)
    BY <1>1
  <2>1. Untouched(m, "validated", i, l + 1) /\ "validated" \notin DOMAIN e.files
    BY <1>3
  <2>2. i \in 1 .. l \/ i = l + 1
    BY <1>1
  <2> QED
    BY <1>1, <2>1, <2>2 DEF UndoTrue, l
<1> QED
  BY <1>4, <1>5, <1>6, <1>7, <1>8, <1>9 DEF UndoTrue, g

\* The oldest change less.
LEMMA UndoShort ==
  ASSUME NEW m \in Seq(Undoable), NEW record, NEW approval, NEW met, NEW n, UndoTrue(m, record, approval, met, n), Len(m) >= 2
  PROVE  /\ UndoTrue(SubSeq(m, 2, Len(m)), record, approval, met, n)
         /\ SubSeq(m, 2, Len(m)) \in Seq(Undoable)
         /\ Len(SubSeq(m, 2, Len(m))) = Len(m) - 1 /\ SubSeq(m, 2, Len(m))[Len(m) - 1] = m[Len(m)]
<1> DEFINE g == SubSeq(m, 2, Len(m))
           l == Len(m)
<1>1. /\ l \in Nat /\ l >= 2 /\ Len(g) = l - 1 /\ g \in Seq(Undoable) /\ \A i \in 1 .. l - 1 : g[i] = m[i + 1] /\ i + 1 \in 1 .. l
  OBVIOUS
<1> HIDE DEF g
<1>2. \A f : \A i \in 1 .. l - 1, j \in 1 .. l : Untouched(g, f, i, j) <=> Untouched(m, f, i + 1, j + 1)
  <2> SUFFICES ASSUME NEW f, NEW i \in 1 .. l - 1, NEW j \in 1 .. l
               PROVE  Untouched(g, f, i, j) <=> Untouched(m, f, i + 1, j + 1)
    OBVIOUS
  <2>1. ASSUME Untouched(m, f, i + 1, j + 1) PROVE Untouched(g, f, i, j)
    BY <1>1, <2>1 DEF Untouched
  <2>2. ASSUME Untouched(g, f, i, j), NEW k \in 1 .. l, i + 1 <= k, k < j + 1 PROVE f \notin DOMAIN m[k].files
    <3>1. k - 1 \in 1 .. l - 1 /\ i <= k - 1 /\ k - 1 < j /\ (k - 1) + 1 = k
      BY <1>1, <2>2
    <3>2. f \notin DOMAIN g[k - 1].files
      BY <1>1, <2>2, <3>1 DEF Untouched
    <3>3. g[k - 1] = m[k]
      BY <1>1, <3>1
    <3> QED
      BY <3>2, <3>3
  <2> QED
    BY <2>1, <2>2 DEF Untouched
<1> HIDE DEF l
<1>3. \A i \in 1 .. Len(g) : g[i].id <= n /\ Bounded(g[i].prior, n)
  BY <1>1 DEF UndoTrue, l
<1>4. \A i \in 1 .. Len(g) : \A f \in DOMAIN g[i].files : Named(f, g[i].files[f].content, g[i].prior, met)
  BY <1>1 DEF UndoTrue, l
<1>5. \A i, j \in 1 .. Len(g) : i <= j => i + 1 <= j + 1 /\ i \in 1 .. l - 1 /\ j \in 1 .. l
  BY <1>1
<1>6. \A i, j \in 1 .. Len(g) : \A f \in Files : i <= j /\ Untouched(g, f, i, j) => g[i].prior[f] = g[j].prior[f]
  BY <1>1, <1>2, <1>5 DEF UndoTrue, l
<1>7. \A i \in 1 .. Len(g) : \A f \in Files : Untouched(g, f, i, Len(g) + 1) => g[i].prior[f] = record[f]
  <2>1. Len(g) + 1 = l /\ l \in 1 .. l
    BY <1>1
  <2> QED
    BY <1>1, <1>2, <2>1 DEF UndoTrue, l
<1>8. \A i, j \in 1 .. Len(g) : i <= j /\ Untouched(g, "validated", i, j) /\ "validated" \in DOMAIN g[j].files =>
       Backed(g[j].files["validated"].content, g[i].prior, met)
  BY <1>1, <1>2, <1>5 DEF UndoTrue, l
<1>9. \A i \in 1 .. Len(g) : Untouched(g, "validated", i, Len(g) + 1) => Backed(approval, g[i].prior, met)
  <2>1. Len(g) + 1 = l /\ l \in 1 .. l
    BY <1>1
  <2> QED
    BY <1>1, <1>2, <2>1 DEF UndoTrue, l
<1>10. UndoTrue(g, record, approval, met, n)
  BY <1>3, <1>4, <1>6, <1>7, <1>8, <1>9 DEF UndoTrue
<1>11. l - 1 \in 1 .. l - 1 /\ (l - 1) + 1 = l
  BY <1>1
<1> QED
  BY <1>1, <1>10, <1>11 DEF g, l

\* What is named, backed or bounded stays so for more contents met and more changes.
LEMMA MetLater ==
  ASSUME NEW met, NEW met2, met \subseteq met2
  PROVE  /\ \A f, c, record : Named(f, c, record, met) => Named(f, c, record, met2)
         /\ \A c, record : Backed(c, record, met) => Backed(c, record, met2)
         /\ \A texts, new, old, approval, n : Recorded(texts, new, old, approval, met, n) => Recorded(texts, new, old, approval, met2, n)
<1>1. \A f, c, record : Named(f, c, record, met) => Named(f, c, record, met2)
  BY DEF Named
<1>2. \A c, record : Backed(c, record, met) => Backed(c, record, met2)
  BY DEF Backed
<1> QED
  BY <1>1, <1>2 DEF Recorded

\* A bound on the recorded approval holds for more changes.
LEMMA BoundedLater ==
  ASSUME NEW record \in Recs, NEW n \in Nat, NEW n2 \in Nat, n <= n2, Bounded(record, n)
  PROVE  Bounded(record, n2)
<1>1. record["validated"].v \in Nat
  BY KnobShapes
<1> QED
  BY <1>1 DEF Bounded

\* A change is decided: what it writes is what it will record.
LEMMA BeginKeeps ==
  ASSUME KnobInv, MayBegin, NEW texts \in PartialTexts, NEW new \in Recs, NEW expects \in BOOLEAN,
         Recorded(texts, new, written, file["validated"], surfaced, changes + 1), Begin(texts, new, expects)
  PROVE  KnobInv'
<1>1. /\ pc = "idle" /\ journal = NoJournal /\ pc' = "check" /\ changes' = changes + 1 /\ changes \in Nat
      /\ UNCHANGED <<file, written, journal, backups, manifest, edits, crashes, late, lost, surfaced>>
      /\ job'.texts = texts /\ job'.seen = file /\ job'.prior = file /\ job'.written = new /\ job'.expects = expects
      /\ job'.left = DOMAIN texts /\ job'.skipped = {}
  BY DEF MayBegin, Begin, KnobInv, KnobTypes, readVars, ghosts
<1>2. KnobTypes'
  <2>1. (job = [texts |-> job.texts, seen |-> job.seen, prior |-> job.prior, written |-> job.written, expects |-> job.expects,
            left |-> job.left, skipped |-> job.skipped])'
    BY <1>1 DEF Begin
  <2> QED
    BY <1>1, <2>1, KnobSets DEF KnobInv, KnobTypes
<1>3. EditsKept'
  BY <1>1 DEF KnobInv, EditsKept
<1>4. JournalTrue'
  BY <1>1 DEF JournalTrue
<1>5. RecordsTrue'
  <2>1. Bounded(written, changes + 1)
    BY <1>1, BoundedLater DEF KnobInv, KnobTypes, RecordsTrue
  <2>2. Resting
    BY <1>1 DEF Resting
  <2> QED
    BY <1>1, <2>1, <2>2 DEF KnobInv, RecordsTrue
<1>6. ManifestTrue'
  <2>1. Undo = manifest /\ Undo' = manifest /\ ~Changing' /\ manifest \in Seq(Undoable)
    BY <1>1 DEF Undo, Changing, KnobInv, KnobTypes
  <2>2. UndoTrue(manifest, written, file["validated"], surfaced, changes)
    BY <2>1 DEF KnobInv, ManifestTrue
  <2>3. UndoTrue(manifest, written, file["validated"], surfaced, changes + 1)
    BY <1>1, <2>1, <2>2, UndoLater
  <2>4. \A i \in 1 .. Len(manifest) : manifest[i].id < changes + 1
    <3> TAKE i \in 1 .. Len(manifest)
    <3>1. manifest[i].id \in Nat
      BY <2>1, KnobShapes
    <3> QED
      BY <1>1, <2>2, <3>1 DEF UndoTrue
  <2> QED
    BY <1>1, <2>1, <2>3, <2>4 DEF ManifestTrue
<1> QED
  BY <1>2, <1>3, <1>4, <1>5, <1>6 DEF KnobInv

\* An update writes what it fitted, and an approval with the file it is of.
LEMMA UpdateFilesKeeps ==
  ASSUME KnobInv, NEW names \in SUBSET Files, UpdateFiles(names)
  PROVE  KnobInv'
<1> DEFINE v == changes + 1
           texts == [f \in names |-> Machine(v)]
           new == [f \in Files |-> IF f \in names THEN Machine(v) ELSE written[f]]
<1>1. MayBegin /\ ("validated" \in names => "backend" \in names) /\ Begin(texts, new, TRUE)
  BY DEF UpdateFiles
<1>2. changes \in Nat /\ v \in Nat /\ written \in Recs /\ Machine(v) \in Content /\ \A f \in Files : written[f] \in Content
  BY KnobShapes DEF KnobInv, KnobTypes
<1>3. texts \in PartialTexts /\ new \in Recs
  <2>1. texts \in [names -> Content]
    BY <1>2
  <2> QED
    BY <1>2, <2>1, KnobShapes DEF Recs
<1>4. Recorded(texts, new, written, file["validated"], surfaced, v)
  <2>1. DOMAIN texts = names /\ \A f \in names : texts[f] = Machine(v) /\ new[f] = Machine(v)
    OBVIOUS
  <2>2. \A f \in Files \ names : new[f] = written[f]
    OBVIOUS
  <2>3. Machine(v).by = "machine" /\ Machine(v).v = v
    BY KnobShapes
  <2>4. Bounded(written, changes) /\ Backed(file["validated"], written, surfaced)
    BY <1>1 DEF KnobInv, RecordsTrue, Resting, MayBegin
  <2>5. "validated" \in Files /\ "backend" \in Files /\ written["validated"].v \in Nat
    BY <1>2, KnobShapes
  <2> HIDE DEF texts, new
  <2>6. Bounded(new, v)
    BY <1>2, <2>1, <2>2, <2>3, <2>4, <2>5 DEF Bounded
  <2>7. "validated" \in names => Backed(texts["validated"], new, surfaced)
    BY <1>1, <1>2, <2>1, <2>3 DEF Backed
  <2>8. "validated" \notin names => Backed(file["validated"], new, surfaced)
    <3>1. CASE "backend" \in names
      BY <1>2, <2>1, <2>2, <2>3, <2>4, <2>5, <3>1 DEF Backed, Bounded
    <3>2. CASE "backend" \notin names
      BY <2>2, <2>4, <2>5, <3>2 DEF Backed
    <3> QED
      BY <3>1, <3>2
  <2> QED
    BY <2>1, <2>2, <2>6, <2>7, <2>8 DEF Recorded, Named
<1> HIDE DEF texts, new
<1> QED
  BY <1>1, <1>3, <1>4, BeginKeeps

\* A reset drops the file of a backend, and its approval or every approval.
LEMMA ResetFilesKeeps ==
  ASSUME KnobInv, NEW all \in BOOLEAN, ResetFiles(all)
  PROVE  KnobInv'
<1> DEFINE moved == {f \in {"backend"} : file[f] # Absent}
           drops == ~all /\ file["validated"].by = "machine"
           approvals == IF drops THEN Empty(changes + 1) ELSE Absent
           names == moved \cup {f \in {"validated"} : all \/ drops}
           texts == [f \in names |-> IF f = "validated" THEN approvals ELSE Absent]
           new == [f \in Files |-> IF f \in names THEN texts[f] ELSE written[f]]
<1>1. MayBegin /\ Begin(texts, new, FALSE)
  BY DEF ResetFiles
<1>2. changes \in Nat /\ changes + 1 \in Nat /\ written \in Recs /\ Absent \in Content /\ Empty(changes + 1) \in Content
      /\ \A f \in Files : written[f] \in Content
  BY KnobShapes DEF KnobInv, KnobTypes
<1>3. approvals \in Content /\ names \subseteq Files /\ approvals.by # "machine"
  BY <1>2, KnobShapes
<1>4. ("validated" \notin names => file["validated"].by # "machine") /\ "validated" \in Files
  BY KnobShapes
<1> HIDE DEF approvals, names
<1>5. texts \in PartialTexts /\ new \in Recs
  <2>1. texts \in [names -> Content]
    BY <1>2, <1>3
  <2> QED
    BY <1>2, <1>3, <2>1, KnobShapes DEF Recs
<1>6. Recorded(texts, new, written, file["validated"], surfaced, changes + 1)
  <2>1. DOMAIN texts = names /\ \A f \in names : new[f] = texts[f]
    BY <1>3
  <2>2. (\A f \in Files \ names : new[f] = written[f]) /\ ("validated" \in names => texts["validated"] = approvals)
    OBVIOUS
  <2>3. Bounded(written, changes + 1)
    BY <1>2, BoundedLater DEF KnobInv, RecordsTrue
  <2> HIDE DEF texts, new
  <2>4. Bounded(new, changes + 1)
    BY <1>3, <1>4, <2>1, <2>2, <2>3 DEF Bounded
  <2> QED
    BY <1>3, <1>4, <2>1, <2>2, <2>4 DEF Recorded, Named, Backed
<1> HIDE DEF texts, new
<1> QED
  BY <1>1, <1>5, <1>6, BeginKeeps

\* The first-order form of induction over the naturals.
LEMMA LeastOfNat ==
  ASSUME NEW S \in SUBSET Nat, S # {}
  PROVE  \E n \in S : \A m \in S : n <= m
<1> DEFINE R == OpToRel(<, Nat)
<1>1. IsWellFoundedOn(R, Nat)
  BY NatLessThanWellFounded
<1>2. \A x, y \in S : x < y => <<x, y>> \in R
  BY DEF OpToRel
<1> HIDE DEF R
<1>3. PICK x \in S : \A y \in S : <<y, x>> \notin R
  BY <1>1, WFMin
<1>4. \A y \in S : ~(y < x)
  BY <1>2, <1>3
<1> QED
  BY <1>4

\* A rollback restores of each file what the earliest of the changes replaced.
LEMMA RestoredTrue ==
  ASSUME manifest \in Seq(Undoable), NEW n \in Nat, n >= 1, n <= Len(manifest), NEW k, k = Len(manifest) - n + 1
  PROVE  /\ DOMAIN Restored(n) \subseteq Files
         /\ \A f \in DOMAIN Restored(n) : \E j \in k .. Len(manifest) :
              /\ f \in DOMAIN manifest[j].files /\ Restored(n)[f] = manifest[j].files[f]
              /\ Untouched(manifest, f, k, j)
         /\ \A f \in Files \ DOMAIN Restored(n) : Untouched(manifest, f, k, Len(manifest) + 1)
<1> DEFINE chosen == SubSeq(manifest, Len(manifest) - n + 1, Len(manifest))
           names == UNION {DOMAIN chosen[i].files : i \in 1 .. n}
           first(f) == CHOOSE i \in 1 .. n : f \in DOMAIN chosen[i].files
                                        /\ \A h \in 1 .. i - 1 : f \notin DOMAIN chosen[h].files
<1>1. /\ Len(manifest) \in Nat /\ k \in 1 .. Len(manifest) /\ \A i \in 1 .. n : chosen[i] = manifest[k + i - 1] /\ k + i - 1 \in k .. Len(manifest)
  <2>1. Len(manifest) \in Nat /\ k \in Nat /\ k >= 1 /\ k <= Len(manifest) /\ Len(manifest) - k + 1 = n
    OBVIOUS
  <2>2. chosen = SubSeq(manifest, k, Len(manifest))
    OBVIOUS
  <2> HIDE DEF chosen
  <2>3. \A i \in 1 .. n : chosen[i] = manifest[k + i - 1]
    BY <2>1, <2>2, SubSeqProperties
  <2>4. ASSUME NEW i \in 1 .. n PROVE k + i - 1 \in k .. Len(manifest)
    <3>1. i \in Nat /\ i >= 1 /\ i <= n
      OBVIOUS
    <3> QED
      BY <2>1, <3>1
  <2>5. k \in 1 .. Len(manifest)
    BY <2>1
  <2> QED
    BY <2>1, <2>3, <2>4, <2>5
<1>2. Restored(n) = [f \in names |-> chosen[first(f)].files[f]]
  BY DEF Restored
<1>3. \A i \in 1 .. Len(manifest) : DOMAIN manifest[i].files \subseteq Files
  BY KnobShapes
<1> HIDE DEF chosen
<1>4. names \subseteq Files
  <2>1. ASSUME NEW i \in 1 .. n PROVE DOMAIN chosen[i].files \subseteq Files
    <3>1. chosen[i] = manifest[k + i - 1] /\ k + i - 1 \in 1 .. Len(manifest)
      BY <1>1
    <3> QED
      BY <1>3, <3>1
  <2> QED
    BY <2>1
<1>5. ASSUME NEW f \in names
      PROVE  \E j \in k .. Len(manifest) : /\ f \in DOMAIN manifest[j].files /\ Restored(n)[f] = manifest[j].files[f]
                                           /\ Untouched(manifest, f, k, j)
  <2> DEFINE S == {i \in 1 .. n : f \in DOMAIN chosen[i].files}
  <2>1. S \in SUBSET Nat /\ S # {}
    BY <1>5
  <2>2. PICK i \in S : \A m \in S : i <= m
    BY <2>1, LeastOfNat
  <2>3. \E x \in 1 .. n : f \in DOMAIN chosen[x].files /\ \A h \in 1 .. x - 1 : f \notin DOMAIN chosen[h].files
    <3>1. i \in 1 .. n /\ f \in DOMAIN chosen[i].files
      BY <2>2
    <3>2. ASSUME NEW h \in 1 .. i - 1 PROVE f \notin DOMAIN chosen[h].files
      <4>1. h \in 1 .. n /\ ~(i <= h)
        BY <3>1
      <4> QED
        BY <2>2, <4>1
    <3> QED
      BY <3>1, <3>2
  <2> DEFINE x == first(f)
  <2>4. x \in 1 .. n /\ f \in DOMAIN chosen[x].files /\ \A h \in 1 .. x - 1 : f \notin DOMAIN chosen[h].files
    BY <2>3
  <2>5. Restored(n)[f] = chosen[x].files[f]
    BY <1>2
  <2> HIDE DEF x
  <2> DEFINE j == k + x - 1
  <2>6. j \in k .. Len(manifest) /\ chosen[x] = manifest[j]
    BY <1>1, <2>4
  <2>7. Untouched(manifest, f, k, j)
    <3> SUFFICES ASSUME NEW l \in 1 .. Len(manifest), k <= l, l < j PROVE f \notin DOMAIN manifest[l].files
      BY DEF Untouched
    <3>1. l - k + 1 \in 1 .. x - 1 /\ l - k + 1 \in 1 .. n /\ k + (l - k + 1) - 1 = l
      BY <1>1, <2>4
    <3> QED
      BY <1>1, <2>4, <3>1
  <2> QED
    BY <2>4, <2>5, <2>6, <2>7
<1>6. ASSUME NEW f \in Files \ names PROVE Untouched(manifest, f, k, Len(manifest) + 1)
  <2> SUFFICES ASSUME NEW l \in 1 .. Len(manifest), k <= l PROVE f \notin DOMAIN manifest[l].files
    BY DEF Untouched
  <2>1. l - k + 1 \in 1 .. n /\ k + (l - k + 1) - 1 = l
    BY <1>1
  <2> QED
    BY <1>1, <2>1
<1>7. DOMAIN Restored(n) = names
  BY <1>2
<1> QED
  BY <1>4, <1>5, <1>6, <1>7

\* A rollback puts back what was replaced, with the record from before the earliest of the changes.
LEMMA RollbackKeeps ==
  ASSUME KnobInv, NEW n \in 1 .. ManifestLimit, Rollback(n)
  PROVE  KnobInv'
<1> DEFINE back == Restored(n)
           k == Len(manifest) - n + 1
           texts == [f \in DOMAIN back |-> back[f].content]
           new == manifest[k].prior
<1>1. MayBegin /\ n <= Len(manifest) /\ Begin(texts, new, FALSE)
  BY DEF Rollback
<1>2. changes \in Nat /\ manifest \in Seq(Undoable) /\ n \in Nat /\ n >= 1 /\ k \in 1 .. Len(manifest) /\ Len(manifest) \in Nat
  BY <1>1 DEF KnobInv, KnobTypes
<1>3. UndoTrue(manifest, written, file["validated"], surfaced, changes)
  BY <1>1 DEF KnobInv, ManifestTrue, Undo, Changing, MayBegin
<1>4. /\ DOMAIN back \subseteq Files
      /\ \A f \in DOMAIN back : \E j \in k .. Len(manifest) :
              /\ f \in DOMAIN manifest[j].files /\ back[f] = manifest[j].files[f]
              /\ Untouched(manifest, f, k, j)
      /\ \A f \in Files \ DOMAIN back : Untouched(manifest, f, k, Len(manifest) + 1)
  BY <1>1, <1>2, RestoredTrue
<1> HIDE DEF back
<1>5. \A i \in 1 .. Len(manifest) : /\ manifest[i].prior \in Recs
                                   /\ \A f \in DOMAIN manifest[i].files : manifest[i].files[f].content \in Content
  BY <1>2, KnobShapes
<1> HIDE DEF k
<1>6. texts \in PartialTexts /\ new \in Recs
  <2>1. \A f \in DOMAIN back : back[f].content \in Content
    BY <1>2, <1>4, <1>5
  <2>2. texts \in [DOMAIN back -> Content]
    BY <2>1
  <2> QED
    BY <1>2, <1>4, <1>5, <2>2, KnobShapes
<1>7. Recorded(texts, new, written, file["validated"], surfaced, changes + 1)
  <2>1. DOMAIN texts = DOMAIN back /\ \A f \in DOMAIN back : texts[f] = back[f].content
    OBVIOUS
  <2>2. Bounded(new, changes + 1)
    <3>1. Bounded(new, changes)
      BY <1>2, <1>3 DEF UndoTrue
    <3> QED
      BY <1>2, <1>6, <3>1, BoundedLater
  <2> HIDE DEF texts
  <2>3. ASSUME NEW f \in DOMAIN back PROVE Named(f, texts[f], new, surfaced)
    <3>1. PICK j \in k .. Len(manifest) : /\ f \in DOMAIN manifest[j].files /\ back[f] = manifest[j].files[f]
                                         /\ Untouched(manifest, f, k, j)
      BY <1>4
    <3>2. j \in 1 .. Len(manifest) /\ k <= j
      BY <1>2
    <3>3. f \in Files
      BY <1>4
    <3>4. new[f] = manifest[j].prior[f]
      BY <1>2, <1>3, <3>1, <3>2, <3>3 DEF UndoTrue
    <3>5. Named(f, manifest[j].files[f].content, manifest[j].prior, surfaced)
      BY <1>3, <3>1, <3>2 DEF UndoTrue
    <3> QED
      BY <2>1, <3>1, <3>4, <3>5 DEF Named
  <2>4. \A f \in Files \ DOMAIN back : new[f] = written[f]
    BY <1>2, <1>3, <1>4 DEF UndoTrue
  <2>5. "validated" \in DOMAIN back => Backed(texts["validated"], new, surfaced)
    <3> SUFFICES ASSUME "validated" \in DOMAIN back PROVE Backed(texts["validated"], new, surfaced)
      OBVIOUS
    <3>1. PICK j \in k .. Len(manifest) : /\ "validated" \in DOMAIN manifest[j].files
                                         /\ back["validated"] = manifest[j].files["validated"]
                                         /\ Untouched(manifest, "validated", k, j)
      BY <1>4
    <3>2. j \in 1 .. Len(manifest) /\ k <= j
      BY <1>2
    <3>3. Backed(manifest[j].files["validated"].content, manifest[k].prior, surfaced)
      BY <1>2, <1>3, <3>1, <3>2 DEF UndoTrue
    <3> QED
      BY <2>1, <3>1, <3>3
  <2>6. "validated" \notin DOMAIN back => Backed(file["validated"], new, surfaced)
    BY <1>2, <1>3, <1>4, KnobShapes DEF UndoTrue
  <2> QED
    BY <2>1, <2>2, <2>3, <2>4, <2>5, <2>6 DEF Recorded
<1>8. Begin(texts, new, FALSE)
  BY <1>1 DEF k
<1> HIDE DEF texts, new
<1> QED
  BY <1>1, <1>6, <1>7, <1>8, BeginKeeps

\* Files that are as they were read hold no content that was not.
LEMMA CheckKeeps ==
  ASSUME KnobInv, Check
  PROVE  KnobInv'
<1>1. /\ pc = "check" /\ journal = NoJournal /\ UNCHANGED <<file, written, journal, backups, manifest, changes, edits, crashes, late, lost, surfaced>>
      /\ \/ pc' = "idle" /\ job' = NoJob
         \/ pc' = "backup" /\ job' = job /\ (job.expects => \A f \in DOMAIN job.texts : file[f] = job.seen[f])
  BY DEF Check, KnobInv, KnobTypes, Preparing, ghosts
<1>2. KnobTypes'
  <2>1. CASE pc' = "idle" /\ job' = NoJob
    BY <1>1, <2>1, KnobSets DEF KnobInv, KnobTypes
  <2>2. CASE pc' = "backup" /\ job' = job
    BY <1>1, <2>2, KnobSets DEF KnobInv, KnobTypes
  <2> QED
    BY <1>1, <2>1, <2>2
<1>3. EditsKept'
  BY <1>1 DEF KnobInv, EditsKept, Accounted
<1>4. JournalTrue'
  BY <1>1 DEF JournalTrue
<1>5. RecordsTrue'
  <2>1. Resting
    BY <1>1 DEF Resting
  <2> QED
    BY <1>1, <2>1, KnobSets DEF KnobInv, RecordsTrue
<1>6. ManifestTrue'
  <2>1. Undo = manifest /\ Undo' = manifest /\ ~Changing'
    BY <1>1 DEF Undo, Changing
  <2> QED
    BY <1>1, <2>1, KnobSets DEF KnobInv, ManifestTrue
<1> QED
  BY <1>2, <1>3, <1>4, <1>5, <1>6 DEF KnobInv

\* What is backed up is what the files are, a late edit with the rest.
LEMMA BackupKeeps ==
  ASSUME KnobInv, Backup
  PROVE  KnobInv'
<1>1. /\ pc = "backup" /\ pc' = "journal" /\ journal = NoJournal
      /\ UNCHANGED <<file, written, journal, manifest, changes, edits, crashes, late, lost, surfaced>>
      /\ job' = [job EXCEPT !.prior = file]
  BY DEF Backup, KnobInv, KnobTypes, Preparing, ghosts
<1>2. /\ job'.texts = job.texts /\ job'.seen = job.seen /\ job'.prior = file /\ job'.written = job.written
      /\ job'.expects = job.expects /\ job'.left = job.left /\ job'.skipped = job.skipped
      /\ job' = [texts |-> job'.texts, seen |-> job'.seen, prior |-> job'.prior, written |-> job'.written, expects |-> job'.expects,
                 left |-> job'.left, skipped |-> job'.skipped]
  <2>1. job = [texts |-> job.texts, seen |-> job.seen, prior |-> job.prior, written |-> job.written, expects |-> job.expects,
            left |-> job.left, skipped |-> job.skipped]
    BY DEF KnobInv, KnobTypes
  <2>2. job' = [texts |-> job.texts, seen |-> job.seen, prior |-> file, written |-> job.written, expects |-> job.expects,
            left |-> job.left, skipped |-> job.skipped]
    BY <1>1, <2>1
  <2> QED
    BY <2>2
<1>3. KnobTypes'
  BY <1>1, <1>2, KnobSets DEF KnobInv, KnobTypes
<1>4. EditsKept'
  BY <1>1, <1>2 DEF KnobInv, EditsKept, Accounted
<1>5. JournalTrue'
  BY <1>1 DEF JournalTrue
<1>6. RecordsTrue'
  <2>1. Resting
    BY <1>1 DEF Resting
  <2> QED
    BY <1>1, <1>2, <2>1, KnobSets DEF KnobInv, RecordsTrue
<1>7. ManifestTrue'
  <2>1. Undo = manifest /\ Undo' = manifest /\ ~Changing'
    BY <1>1 DEF Undo, Changing
  <2>2. UndoTrue(manifest, written, file["validated"], surfaced, changes)
    BY <2>1 DEF KnobInv, ManifestTrue
  <2>3. \A i \in 1 .. Len(manifest) : Untouched(manifest, "validated", i, Len(manifest) + 1) => Backed(file["validated"], manifest[i].prior, surfaced)
    BY <2>2 DEF UndoTrue
  <2> QED
    BY <1>1, <1>2, <2>1, <2>2, <2>3, KnobSets DEF KnobInv, ManifestTrue
<1> QED
  BY <1>3, <1>4, <1>5, <1>6, <1>7 DEF KnobInv

\* The journal of a change that was decided: its entry is the last to be undone.
LEMMA WriteJournalKeeps ==
  ASSUME KnobInv, WriteJournal
  PROVE  KnobInv'
<1>1. /\ pc = "journal" /\ pc' = "apply" /\ journal = NoJournal /\ changes # 0 /\ changes \in Nat
      /\ UNCHANGED <<file, written, manifest, changes, edits, crashes, job, late, lost, surfaced>>
      /\ journal' = [id |-> changes, texts |-> job.texts, prior |-> job.prior,
                 written |-> job.written, priorRec |-> written,
                 seen |-> IF job.expects THEN job.seen ELSE job.prior]
      /\ job.left = DOMAIN job.texts /\ job.skipped = {} /\ job.expects \in BOOLEAN
  BY DEF WriteJournal, KnobInv, KnobTypes, Preparing, ghosts
<1>2. /\ journal'.id = changes /\ journal'.texts = job.texts /\ journal'.prior = job.prior /\ journal'.written = job.written
      /\ journal'.priorRec = written /\ journal'.seen = IF job.expects THEN job.seen ELSE job.prior
  BY <1>1
<1>3. journal' # NoJournal
  BY <1>1, <1>2 DEF NoJournal
<1>4. /\ job.texts \in PartialTexts /\ job.prior \in Recs /\ job.written \in Recs /\ written \in Recs /\ job.seen \in Recs
      /\ manifest \in Seq(Undoable)
  BY <1>1, KnobSets DEF KnobInv, KnobTypes
<1>5. KnobTypes'
  <2>1. journal' \in Journals
    BY <1>1, <1>4 DEF Journals
  <2> QED
    BY <1>1, <1>2, <1>3, <2>1, KnobSets DEF KnobInv, KnobTypes
<1>6. EditsKept'
  <2>1. \A f \in DOMAIN job.texts : Accounted(job.prior[f], journal'.seen[f], late)
    BY <1>1, <1>2 DEF KnobInv, EditsKept, Accounted
  <2>2. \A f \in DOMAIN job.texts : Accounted(file[f], journal'.seen[f], late)
    BY <1>1, <1>2 DEF KnobInv, EditsKept
  <2> QED
    BY <1>1, <1>2, <2>1, <2>2 DEF KnobInv, EditsKept
<1>7. /\ Recorded(job.texts, job.written, written, file["validated"], surfaced, changes)
      /\ Backed(job.prior["validated"], written, surfaced)
      /\ \A f \in Files : /\ Named(f, job.prior[f], written, surfaced)
                          /\ file[f] = job.prior[f] \/ ~MachineMade(file[f])
      /\ \A f \in Files : Named(f, file[f], written, surfaced)
      /\ Backed(file["validated"], written, surfaced) /\ Bounded(written, changes)
      /\ DOMAIN job.texts \subseteq Files
  BY <1>1, <1>4, KnobSets, KnobShapes DEF KnobInv, RecordsTrue, Resting
<1>8. JournalTrue'
  BY <1>1, <1>2, <1>7 DEF JournalTrue
<1>9. RecordsTrue'
  <2>1. ~Resting'
    BY <1>1, <1>3 DEF Resting
  <2> QED
    BY <1>1, <1>2, <1>7, <2>1, KnobSets DEF RecordsTrue
<1>10. ManifestTrue'
  <2>1. Undo = manifest
    BY <1>1 DEF Undo, Changing
  <2>2. UndoTrue(manifest, written, file["validated"], surfaced, changes)
    BY <2>1 DEF KnobInv, ManifestTrue
  <2>3. ~InManifest'
    <3>1. \A i \in 1 .. Len(manifest) : manifest[i].id < changes /\ manifest[i].id \in Nat
      BY <1>1, <1>4, KnobSets, KnobShapes DEF KnobInv, ManifestTrue
    <3> QED
      BY <1>1, <1>2, <3>1 DEF InManifest
  <2>4. CASE ~Changing'
    BY <1>1, <2>2, <2>4, KnobSets DEF ManifestTrue, Undo
  <2>5. CASE Changing'
    <3> DEFINE e == JournalEntry'
    <3>1. /\ e.id = changes /\ e.prior = written /\ DOMAIN e.files = DOMAIN job.texts
          /\ \A f \in DOMAIN job.texts : e.files[f] = [for |-> changes, content |-> job.prior[f]] /\ e.files[f].content = job.prior[f]
      BY <1>2 DEF JournalEntry
    <3>2. e \in Undoable
      <4>1. \A f \in Files : job.prior[f] \in Content
        BY <1>4, KnobShapes
      <4>2. [f \in DOMAIN job.texts |-> [for |-> changes, content |-> job.prior[f]]] \in
              [DOMAIN job.texts -> [for : Nat, content : Content]]
        BY <1>1, <1>7, <4>1
      <4>3. [f \in DOMAIN job.texts |-> [for |-> changes, content |-> job.prior[f]]] \in PartialBackups
        BY <1>7, <4>2, KnobShapes
      <4> QED
        BY <1>1, <1>2, <1>4, <4>3 DEF JournalEntry, Undoable
    <3> HIDE DEF e
    <3>3. Undo' = Append(manifest, e)
      BY <1>1, <2>3, <2>5 DEF Undo, e
    <3>4. \A i \in 1 .. Len(manifest) : Untouched(manifest, "validated", i, Len(manifest) + 1) => Backed(job.prior["validated"], manifest[i].prior, surfaced)
      BY <1>1 DEF KnobInv, ManifestTrue
    <3>5. UndoTrue(Append(manifest, e), written, file["validated"], surfaced, changes)
      <4>1. \A f \in DOMAIN e.files : Named(f, e.files[f].content, written, surfaced)
        BY <1>7, <3>1
      <4>2. "validated" \in DOMAIN e.files =>
              /\ Backed(e.files["validated"].content, written, surfaced)
              /\ \A i \in 1 .. Len(manifest) :
                   Untouched(manifest, "validated", i, Len(manifest) + 1) => Backed(e.files["validated"].content, manifest[i].prior, surfaced)
        BY <1>7, <3>1, <3>4
      <4>3. e.id <= changes /\ e.prior = written /\ Bounded(written, changes) /\ Backed(file["validated"], written, surfaced)
        BY <1>1, <1>7, <3>1
      <4> QED
        BY <1>1, <1>4, <2>2, <3>2, <4>1, <4>2, <4>3, UndoGrows
    <3>6. Append(manifest, e) # <<>> /\ Append(manifest, e)[Len(Append(manifest, e))] = e
      BY <1>4, <3>2
    <3> QED
      BY <1>1, <3>3, <3>5, <3>6, KnobSets DEF ManifestTrue, e
  <2> QED
    BY <2>4, <2>5
<1> QED
  BY <1>5, <1>6, <1>8, <1>9, <1>10 DEF KnobInv

\* The changes that can be undone, the one in the journal among them.
LEMMA UndoShape ==
  ASSUME KnobTypes
  PROVE  Undo \in Seq(Undoable) /\ (Changing => JournalEntry \in Undoable)
<1>1. manifest \in Seq(Undoable)
  BY DEF KnobTypes
<1>2. CASE Changing
  <2> DEFINE names == DOMAIN journal.texts
             files == [f \in names |-> [for |-> journal.id, content |-> journal.prior[f]]]
  <2>1. journal \in Journals /\ names \subseteq Files
    BY <1>2, KnobShapes DEF Changing, KnobTypes, Journals
  <2>2. \A f \in Files : journal.prior[f] \in Content
    BY <2>1, KnobShapes DEF Journals
  <2>3. files \in [names -> [for : Nat, content : Content]]
    BY <2>1, <2>2 DEF Journals
  <2>4. files \in PartialBackups
    BY <2>1, <2>3, KnobShapes
  <2>5. JournalEntry \in Undoable
    BY <2>1, <2>4 DEF JournalEntry, Undoable, Journals
  <2> QED
    BY <1>1, <2>5 DEF Undo
<1>3. CASE ~Changing
  BY <1>1, <1>3 DEF Undo
<1> QED
  BY <1>2, <1>3

\* What a journal tells does not change while it stands.
LEMMA UndoStays ==
  ASSUME UNCHANGED <<journal, manifest>>
  PROVE  Undo' = Undo /\ Changing' = Changing /\ InManifest' = InManifest /\ JournalEntry' = JournalEntry
BY DEF Undo, Changing, InManifest, JournalEntry

\* A recovery leaves what a person edited; a set with an approval is left whole, and surfaced.
LEMMA StartRecoveryKeeps ==
  ASSUME KnobInv, StartRecovery
  PROVE  KnobInv'
<1> DEFINE names == DOMAIN journal.texts
           edited == {f \in names : file[f] \notin {journal.prior[f], journal.texts[f]}}
           skipped == Skipped(edited, names)
<1>1. /\ pc = "idle" /\ journal # NoJournal /\ pc' = "apply"
      /\ UNCHANGED <<file, written, journal, manifest, changes, edits, crashes, late, lost>>
      /\ job' = [NoJob EXCEPT !.left = names \ skipped, !.skipped = skipped]
      /\ surfaced' = IF "validated" \in skipped THEN surfaced \cup {<<f, journal.texts[f]>> : f \in names} ELSE surfaced
  BY DEF StartRecovery
<1>2. /\ edited \subseteq skipped /\ skipped \subseteq names
      /\ skipped = edited \/ (skipped = names /\ "validated" \in names)
      /\ "validated" \in names /\ skipped # {} => skipped = names
  BY DEF Skipped
<1>3. job'.left = names \ skipped /\ job'.skipped = skipped
      /\ (job = [texts |-> job.texts, seen |-> job.seen, prior |-> job.prior, written |-> job.written, expects |-> job.expects,
            left |-> job.left, skipped |-> job.skipped])'
  BY <1>1 DEF NoJob
<1>4. surfaced \subseteq surfaced'
  BY <1>1
<1>5. journal \in Journals /\ names \subseteq Files
  BY <1>1, KnobShapes DEF KnobInv, KnobTypes, Journals
<1>6. \A f \in names \ skipped : file[f] \in {journal.prior[f], journal.texts[f]}
  BY <1>2
<1>7. "validated" \in skipped => \A f \in names : <<f, journal.texts[f]>> \in surfaced'
  BY <1>1
<1>8. \A f \in skipped : file[f] \in {journal.prior[f], journal.texts[f]} => skipped = names /\ "validated" \in names
  BY <1>2
<1> HIDE DEF edited, skipped
<1>9. KnobTypes'
  BY <1>1, <1>2, <1>3, KnobSets DEF KnobInv, KnobTypes
<1>10. EditsKept'
  <2>1. \A f \in names \ skipped : file[f] = journal.texts[f] \/ Accounted(file[f], journal.seen[f], late)
    BY <1>1, <1>6 DEF KnobInv, EditsKept
  <2> QED
    BY <1>1, <1>3, <2>1 DEF KnobInv, EditsKept
<1>11. JournalTrue'
  BY <1>1, <1>4, MetLater DEF KnobInv, JournalTrue
<1>12. RecordsTrue'
  <2>1. ~Resting' /\ pc' \notin Preparing
    BY <1>1, KnobSets DEF Resting
  <2>2. ASSUME NEW f \in skipped
        PROVE  Named(f, file[f], journal.priorRec, surfaced') /\ (f = "validated" => Backed(file[f], journal.priorRec, surfaced'))
    <3>1. CASE file[f] = journal.prior[f]
      BY <1>1, <1>2, <1>4, <1>5, <3>1, MetLater DEF KnobInv, JournalTrue
    <3>2. CASE file[f] = journal.texts[f]
      BY <1>2, <1>7, <1>8, <3>2 DEF Named, Backed
    <3>3. CASE file[f] \notin {journal.prior[f], journal.texts[f]}
      <4>1. ~MachineMade(file[f])
        BY <1>1, <1>2, <3>3 DEF KnobInv, JournalTrue
      <4> QED
        BY <4>1 DEF Named, Backed, MachineMade
    <3> QED
      BY <3>1, <3>2, <3>3
  <2>3. DOMAIN journal.texts \ (job'.left \cup job'.skipped) = {}
    BY <1>3
  <2> QED
    BY <1>1, <1>2, <1>3, <2>1, <2>2, <2>3 DEF KnobInv, RecordsTrue
<1>13. ManifestTrue'
  <2>1. Undo' = Undo /\ Changing' = Changing /\ JournalEntry' = JournalEntry
    BY <1>1, UndoStays
  <2>2. Undo \in Seq(Undoable)
    BY UndoShape DEF KnobInv
  <2>3. UndoTrue(Undo, written, file["validated"], surfaced', changes)
    BY <1>4, <2>2, UndoLater DEF KnobInv, KnobTypes, ManifestTrue
  <2> QED
    BY <1>1, <2>1, <2>3, KnobSets DEF KnobInv, ManifestTrue
<1> QED
  BY <1>9, <1>10, <1>11, <1>12, <1>13 DEF KnobInv

\* A file that is replaced was read, or backed up, or edited too late.
LEMMA ApplyFileKeeps ==
  ASSUME KnobInv, NEW f \in Files, ApplyFile(f)
  PROVE  KnobInv'
<1>1. /\ pc = "apply" /\ pc' = "apply" /\ f \in job.left /\ journal # NoJournal
      /\ file' = [file EXCEPT ![f] = journal.texts[f]]
      /\ lost' = IF Unread(f) THEN lost \cup {file[f].v} ELSE lost
      /\ job' = [job EXCEPT !.left = @ \ {f}]
      /\ UNCHANGED <<written, journal, manifest, changes, edits, crashes, late, surfaced>>
  BY DEF ApplyFile, KnobInv, KnobTypes, Applying
<1>2. /\ job'.left = job.left \ {f} /\ job'.skipped = job.skipped
      /\ (job = [texts |-> job.texts, seen |-> job.seen, prior |-> job.prior, written |-> job.written, expects |-> job.expects,
            left |-> job.left, skipped |-> job.skipped])'
  <2>1. job = [texts |-> job.texts, seen |-> job.seen, prior |-> job.prior, written |-> job.written, expects |-> job.expects,
            left |-> job.left, skipped |-> job.skipped]
    BY DEF KnobInv, KnobTypes
  <2>2. job' = [texts |-> job.texts, seen |-> job.seen, prior |-> job.prior, written |-> job.written, expects |-> job.expects,
            left |-> job.left \ {f}, skipped |-> job.skipped]
    BY <1>1, <2>1
  <2> QED
    BY <2>2
<1>3. /\ journal \in Journals /\ job.left \subseteq DOMAIN journal.texts \ job.skipped /\ job.skipped \subseteq DOMAIN journal.texts
      /\ DOMAIN journal.texts \subseteq Files /\ journal.texts[f] \in Content /\ file \in Recs
  BY <1>1, KnobSets, KnobShapes DEF KnobInv, KnobTypes, Journals
<1>4. /\ file' \in Recs /\ file'[f] = journal.texts[f] /\ \A g \in Files : g # f => file'[g] = file[g]
      /\ f \in DOMAIN journal.texts /\ f \notin job.skipped /\ "validated" \in Files
  BY <1>1, <1>3, KnobShapes DEF Recs
<1>5. KnobTypes'
  BY <1>1, <1>2, <1>3, <1>4, KnobSets DEF KnobInv, KnobTypes
<1>6. EditsKept'
  <2>1. Unread(f) => file[f].v \in late
    BY <1>1 DEF KnobInv, EditsKept, Accounted, Unread
  <2> QED
    BY <1>1, <1>2, <1>3, <1>4, <2>1 DEF KnobInv, EditsKept
<1>7. JournalTrue /\ RecordsTrue
  BY DEF KnobInv
<1>8. JournalTrue'
  <2>1. "validated" \notin DOMAIN journal.texts => file'["validated"] = file["validated"]
    BY <1>4
  <2>2. Recorded(journal.texts, journal.written, journal.priorRec, file'["validated"], surfaced, changes)
    BY <1>1, <1>7, <2>1 DEF JournalTrue, Recorded
  <2>3. \A g \in Files \ DOMAIN journal.texts : file'[g] = file[g]
    BY <1>4
  <2>4. \A g \in DOMAIN journal.texts : file'[g] \in {journal.prior[g], journal.texts[g]} \/ ~MachineMade(file'[g])
    BY <1>1, <1>3, <1>4, <1>7 DEF JournalTrue
  <2> QED
    BY <1>1, <1>7, <2>1, <2>2, <2>3, <2>4 DEF JournalTrue
<1>9. RecordsTrue'
  <2>1. ~Resting' /\ pc' \notin Preparing
    BY <1>1, KnobSets DEF Resting
  <2>2. \A g \in job.skipped : file'[g] = file[g]
    BY <1>3, <1>4
  <2>3. ASSUME NEW g \in DOMAIN journal.texts \ (job'.left \cup job'.skipped)
        PROVE  Named(g, file'[g], journal.written, surfaced) /\ (g = "validated" => Backed(file'[g], journal.written, surfaced))
    <3>1. CASE g = f
      BY <1>1, <1>4, <1>7, <3>1 DEF JournalTrue, Recorded
    <3>2. CASE g # f
      BY <1>1, <1>2, <1>3, <1>4, <1>7, <3>2 DEF RecordsTrue
    <3> QED
      BY <3>1, <3>2
  <2> QED
    BY <1>1, <1>2, <1>7, <2>1, <2>2, <2>3 DEF RecordsTrue
<1>10. ManifestTrue'
  <2>1. Undo' = Undo /\ Changing' = Changing /\ JournalEntry' = JournalEntry
    BY <1>1, UndoStays
  <2>2. Undo \in Seq(Undoable) /\ Len(Undo) \in Nat
    BY UndoShape DEF KnobInv
  <2>3. \/ file'["validated"] = file["validated"]
        \/ Len(Undo) # 0 /\ "validated" \in DOMAIN Undo[Len(Undo)].files
    <3>1. CASE f = "validated"
      <4>1. Changing
        BY <1>1, <1>4 DEF Changing
      <4>2. Undo # <<>> /\ Undo[Len(Undo)] = JournalEntry
        BY <4>1 DEF KnobInv, ManifestTrue
      <4>3. DOMAIN JournalEntry.files = DOMAIN journal.texts
        BY DEF JournalEntry
      <4> QED
        BY <1>4, <2>2, <3>1, <4>2, <4>3
    <3>2. CASE f # "validated"
      BY <1>4, <3>2
    <3> QED
      BY <3>1, <3>2
  <2>4. UndoTrue(Undo, written, file["validated"], surfaced, changes)
    BY DEF KnobInv, ManifestTrue
  <2>5. UndoTrue(Undo, written, file'["validated"], surfaced, changes)
    BY <2>2, <2>3, <2>4, UndoApproval
  <2> QED
    BY <1>1, <2>1, <2>5, KnobSets DEF KnobInv, ManifestTrue
<1> QED
  BY <1>5, <1>6, <1>8, <1>9, <1>10 DEF KnobInv

\* The record that is written names every file: the new ones, and the skipped as they were.
LEMMA ApplyRecordKeeps ==
  ASSUME KnobInv, ApplyRecord
  PROVE  KnobInv'
<1>1. /\ pc = "apply" /\ pc' = "manifest" /\ job.left = {} /\ journal # NoJournal
      /\ written' = [f \in Files |-> IF f \in job.skipped THEN journal.priorRec[f] ELSE journal.written[f]]
      /\ UNCHANGED <<file, journal, manifest, changes, edits, crashes, job, late, lost, surfaced>>
  BY DEF ApplyRecord, ghosts, KnobInv, KnobTypes, Applying
<1>2. /\ journal \in Journals /\ job.skipped \subseteq DOMAIN journal.texts /\ DOMAIN journal.texts \subseteq Files
      /\ "validated" \in Files /\ "backend" \in Files
  BY <1>1, KnobSets, KnobShapes DEF KnobInv, KnobTypes, Journals
<1>3. /\ \A f \in job.skipped : written'[f] = journal.priorRec[f]
      /\ \A f \in Files \ job.skipped : written'[f] = journal.written[f]
  BY <1>1, <1>2
<1>4. written' \in Recs
  <2>1. \A f \in Files : journal.priorRec[f] \in Content /\ journal.written[f] \in Content
    BY <1>2, KnobShapes DEF Journals
  <2> QED
    BY <1>1, <2>1 DEF Recs
<1>5. KnobTypes'
  BY <1>1, <1>4, KnobSets DEF KnobInv, KnobTypes
<1>6. EditsKept'
  BY <1>1 DEF KnobInv, EditsKept
<1>7. JournalTrue /\ RecordsTrue
  BY DEF KnobInv
<1>8. /\ Recorded(journal.texts, journal.written, journal.priorRec, file["validated"], surfaced, changes)
      /\ \A f \in Files \ DOMAIN journal.texts : /\ written[f] = journal.priorRec[f]
                                                 /\ Named(f, file[f], journal.priorRec, surfaced)
      /\ Bounded(journal.priorRec, changes)
      /\ "validated" \notin DOMAIN journal.texts => Backed(file["validated"], journal.priorRec, surfaced)
  BY <1>1, <1>7 DEF JournalTrue
<1>9. \A f \in Files \ DOMAIN journal.texts : written'[f] = journal.priorRec[f] /\ journal.written[f] = journal.priorRec[f]
  BY <1>2, <1>3, <1>8 DEF Recorded
<1>10. JournalTrue'
  BY <1>1, <1>7, <1>9 DEF JournalTrue
<1>11. RecordsTrue'
  <2>1. Bounded(written', changes)
    BY <1>2, <1>3, <1>8 DEF Bounded, Recorded
  <2>2. ASSUME NEW f \in Files PROVE Named(f, file[f], written', surfaced)
    <3>1. CASE f \in job.skipped
      BY <1>1, <1>3, <1>7, <3>1 DEF RecordsTrue, Named
    <3>2. CASE f \in DOMAIN journal.texts \ job.skipped
      BY <1>1, <1>3, <1>7, <3>2 DEF RecordsTrue, Named
    <3>3. CASE f \notin DOMAIN journal.texts
      BY <1>8, <1>9, <3>3 DEF Named
    <3> QED
      BY <3>1, <3>2, <3>3
  <2>3. Backed(file["validated"], written', surfaced)
    <3>1. CASE "validated" \in DOMAIN journal.texts /\ job.skipped # {}
      <4>1. job.skipped = DOMAIN journal.texts
        BY <1>1, <1>7, <3>1 DEF RecordsTrue
      <4>2. Backed(file["validated"], journal.priorRec, surfaced)
        BY <1>1, <1>7, <3>1, <4>1 DEF RecordsTrue
      <4>3. \A f \in Files : written'[f] = journal.priorRec[f]
        BY <1>3, <1>9, <4>1
      <4> QED
        BY <1>2, <4>2, <4>3 DEF Backed
    <3>2. CASE "validated" \in DOMAIN journal.texts /\ job.skipped = {}
      <4>1. Backed(file["validated"], journal.written, surfaced)
        BY <1>1, <1>7, <3>2 DEF RecordsTrue
      <4> QED
        BY <1>2, <1>3, <3>2, <4>1 DEF Backed
    <3>3. CASE "validated" \notin DOMAIN journal.texts
      <4>1. Backed(file["validated"], journal.priorRec, surfaced) /\ Backed(file["validated"], journal.written, surfaced)
        BY <1>8, <3>3 DEF Recorded
      <4>2. written'["validated"] = journal.priorRec["validated"] /\ written'["validated"] = journal.written["validated"]
        BY <1>2, <1>9, <3>3
      <4>3. written'["backend"] = journal.priorRec["backend"] \/ written'["backend"] = journal.written["backend"]
        BY <1>2, <1>3
      <4> QED
        BY <4>1, <4>2, <4>3 DEF Backed
    <3> QED
      BY <3>1, <3>2, <3>3
  <2> QED
    BY <1>1, <2>1, <2>2, <2>3, KnobSets DEF RecordsTrue
<1>12. ManifestTrue'
  <2>1. Undo' = Undo /\ Changing' = Changing /\ JournalEntry' = JournalEntry
    BY <1>1, UndoStays
  <2>2. Undo \in Seq(Undoable) /\ Len(Undo) \in Nat
    BY UndoShape DEF KnobInv
  <2>3. \A f \in Files : written'[f] = written[f] \/ (Len(Undo) # 0 /\ f \in DOMAIN Undo[Len(Undo)].files)
    <3> TAKE f \in Files
    <3>1. CASE f \in DOMAIN journal.texts
      <4>1. Changing
        BY <1>1, <3>1 DEF Changing
      <4>2. Undo # <<>> /\ Undo[Len(Undo)] = JournalEntry
        BY <4>1 DEF KnobInv, ManifestTrue
      <4>3. DOMAIN JournalEntry.files = DOMAIN journal.texts
        BY DEF JournalEntry
      <4> QED
        BY <2>2, <3>1, <4>2, <4>3
    <3>2. CASE f \notin DOMAIN journal.texts
      BY <1>8, <1>9, <3>2
    <3> QED
      BY <3>1, <3>2
  <2>4. UndoTrue(Undo, written, file["validated"], surfaced, changes)
    BY DEF KnobInv, ManifestTrue
  <2>5. UndoTrue(Undo, written', file["validated"], surfaced, changes)
    BY <2>2, <2>3, <2>4, UndoRecord
  <2> QED
    BY <1>1, <2>1, <2>5, KnobSets DEF KnobInv, ManifestTrue
<1> QED
  BY <1>5, <1>6, <1>10, <1>11, <1>12 DEF KnobInv

\* A change that is in the manifest once is still the last to be undone.
LEMMA AddToManifestKeeps ==
  ASSUME KnobInv, AddToManifest
  PROVE  KnobInv'
<1> DEFINE longer == Append(manifest, JournalEntry)
<1>1. /\ pc = "manifest" /\ pc' = "unlink" /\ journal # NoJournal
      /\ manifest' = IF DOMAIN journal.texts = {} \/ InManifest THEN manifest
                     ELSE SubSeq(longer, IF Len(longer) > ManifestLimit THEN 2 ELSE 1, Len(longer))
      /\ UNCHANGED <<file, written, journal, changes, edits, crashes, job, late, lost, surfaced>>
  BY DEF AddToManifest, ghosts, KnobInv, KnobTypes, Applying, InManifest, JournalEntry
<1>2. Undo \in Seq(Undoable) /\ manifest \in Seq(Undoable) /\ (Changing => JournalEntry \in Undoable)
  BY UndoShape DEF KnobInv, KnobTypes
<1>3. /\ UndoTrue(Undo, written, file["validated"], surfaced, changes)
      /\ Changing => Undo # <<>> /\ Undo[Len(Undo)] = JournalEntry
  BY DEF KnobInv, ManifestTrue
<1>4. JournalEntry' = JournalEntry /\ Changing' = Changing /\ JournalEntry.id = journal.id
  BY <1>1 DEF JournalEntry, Changing
<1>5. /\ manifest' \in Seq(Undoable) /\ Undo' = manifest' /\ (Changing => InManifest')
      /\ UndoTrue(manifest', written, file["validated"], surfaced, changes)
      /\ Changing => manifest' # <<>> /\ manifest'[Len(manifest')] = JournalEntry
  <2>1. CASE DOMAIN journal.texts = {} \/ InManifest
    <3>1. manifest' = manifest /\ Undo = manifest /\ (Changing => InManifest)
      BY <1>1, <2>1 DEF Undo, Changing
    <3>2. InManifest' = InManifest
      BY <1>1, <3>1 DEF InManifest
    <3> QED
      BY <1>2, <1>3, <1>4, <3>1, <3>2 DEF Undo
  <2>2. CASE ~(DOMAIN journal.texts = {} \/ InManifest)
    <3>1. Changing /\ Undo = longer /\ longer \in Seq(Undoable) /\ Len(longer) = Len(manifest) + 1 /\ Len(manifest) \in Nat
      BY <1>1, <1>2, <2>2 DEF Undo, Changing
    <3> HIDE DEF longer
    <3>2. /\ manifest' \in Seq(Undoable) /\ Len(manifest') \in Nat /\ Len(manifest') >= 1
          /\ manifest'[Len(manifest')] = JournalEntry
          /\ UndoTrue(manifest', written, file["validated"], surfaced, changes)
      <4>1. CASE Len(longer) > ManifestLimit
        <5>1. manifest' = SubSeq(longer, 2, Len(longer)) /\ Len(longer) >= 2
          BY <1>1, <2>2, <3>1, <4>1, KnobAssumption
        <5> QED
          BY <1>3, <3>1, <5>1, UndoShort
      <4>2. CASE ~(Len(longer) > ManifestLimit)
        <5>1. manifest' = SubSeq(longer, 1, Len(longer))
          BY <1>1, <2>2, <4>2
        <5>2. manifest' = longer
          BY <3>1, <5>1
        <5> QED
          BY <1>3, <3>1, <5>2
      <4> QED
        BY <4>1, <4>2
    <3>3. InManifest'
      <4>1. journal' = journal
        BY <1>1
      <4>2. manifest'[Len(manifest')].id = journal'.id
        BY <1>4, <3>2, <4>1
      <4>3. Len(manifest') \in 1 .. Len(manifest')
        BY <3>2
      <4> QED
        BY <4>2, <4>3 DEF InManifest
    <3> QED
      BY <3>1, <3>2, <3>3 DEF Undo
  <2> QED
    BY <2>1, <2>2
<1>6. KnobTypes'
  BY <1>1, <1>5, KnobSets DEF KnobInv, KnobTypes
<1>7. EditsKept'
  BY <1>1 DEF KnobInv, EditsKept
<1>8. JournalTrue'
  BY <1>1 DEF KnobInv, JournalTrue
<1>9. RecordsTrue'
  BY <1>1, KnobSets DEF KnobInv, RecordsTrue, Resting
<1>10. ManifestTrue'
  BY <1>1, <1>4, <1>5, KnobSets DEF ManifestTrue
<1> QED
  BY <1>6, <1>7, <1>8, <1>9, <1>10 DEF KnobInv

\* The journal goes when its change is in the manifest.
LEMMA UnlinkKeeps ==
  ASSUME KnobInv, Unlink
  PROVE  KnobInv'
<1>1. /\ pc = "unlink" /\ pc' = "idle" /\ journal # NoJournal /\ journal' = NoJournal /\ job' = NoJob
      /\ UNCHANGED <<file, written, manifest, changes, edits, crashes, late, lost, surfaced>>
  BY DEF Unlink, ghosts, KnobInv, KnobTypes, Applying
<1>2. KnobTypes'
  BY <1>1, KnobSets DEF KnobInv, KnobTypes
<1>3. EditsKept'
  BY <1>1 DEF KnobInv, EditsKept
<1>4. JournalTrue'
  BY <1>1 DEF JournalTrue
<1>5. RecordsTrue'
  BY <1>1, KnobSets DEF KnobInv, RecordsTrue, Resting
<1>6. ManifestTrue'
  <2>1. Undo = manifest /\ Undo' = manifest /\ ~Changing'
    BY <1>1 DEF KnobInv, ManifestTrue, Undo, Changing
  <2> QED
    BY <1>1, <2>1, KnobSets DEF KnobInv, ManifestTrue
<1> QED
  BY <1>2, <1>3, <1>4, <1>5, <1>6 DEF KnobInv

\* A crash leaves what the journal, the record and the manifest tell.
LEMMA CrashKeeps ==
  ASSUME KnobInv, Crash
  PROVE  KnobInv'
<1>1. /\ pc' = "idle" /\ job' = NoJob /\ crashes' = crashes + 1
      /\ UNCHANGED <<file, written, journal, manifest, changes, edits, late, lost, surfaced>>
  BY DEF Crash, ghosts
<1>2. KnobTypes'
  BY <1>1, KnobSets DEF KnobInv, KnobTypes
<1>3. EditsKept'
  BY <1>1 DEF KnobInv, EditsKept
<1>4. JournalTrue'
  BY <1>1 DEF KnobInv, JournalTrue
<1>5. RecordsTrue'
  BY <1>1, KnobSets DEF KnobInv, RecordsTrue, Resting
<1>6. ManifestTrue'
  BY <1>1, UndoStays, KnobSets DEF KnobInv, ManifestTrue
<1> QED
  BY <1>2, <1>3, <1>4, <1>5, <1>6 DEF KnobInv

\* A person's content is never a machine's, and is late when a change has already compared.
LEMMA EditKeeps ==
  ASSUME KnobInv, NEW f \in Files, NEW by \in {"hand", "bad", "none"}, Edit(f, by)
  PROVE  KnobInv'
<1> DEFINE new == IF by = "none" THEN Absent ELSE [by |-> by, v |-> edits + 1]
<1>1. /\ edits' = edits + 1 /\ file' = [file EXCEPT ![f] = new]
      /\ late' = IF pc \in {"backup", "journal", "apply"} /\ f \in job.left THEN late \cup {edits + 1} ELSE late
      /\ UNCHANGED <<written, journal, manifest, changes, pc, job, crashes, lost, surfaced>>
  BY DEF Edit, operVars
<1>2. /\ new \in Content /\ ~MachineMade(new) /\ new.by # "machine" /\ (new.by \in {"hand", "bad"} => new.v = edits + 1)
      /\ edits \in Nat /\ file \in Recs
  <2>1. edits \in Nat /\ file \in Recs
    BY DEF KnobInv, KnobTypes
  <2>2. CASE by = "none"
    BY <2>1, <2>2, KnobShapes DEF MachineMade
  <2>3. CASE by # "none"
    <3>1. new = [by |-> by, v |-> edits + 1] /\ new.by = by /\ new.v = edits + 1
      BY <2>3
    <3> QED
      BY <2>1, <2>3, <3>1 DEF MachineMade, Content
  <2> QED
    BY <2>2, <2>3
<1> HIDE DEF new
<1>3. /\ file' \in Recs /\ file'[f] = new /\ \A g \in Files : g # f => file'[g] = file[g]
      /\ late \subseteq late' /\ "validated" \in Files
  BY <1>1, <1>2, KnobShapes DEF Recs
<1>4. KnobTypes'
  BY <1>1, <1>2, <1>3, KnobSets DEF KnobInv, KnobTypes
<1>5. /\ DOMAIN journal.texts \subseteq Files \/ journal = NoJournal
      /\ pc \in Preparing => DOMAIN job.texts \subseteq Files /\ job.left = DOMAIN job.texts
      /\ pc = "apply" => journal # NoJournal /\ job.left \subseteq Files /\ job.skipped \subseteq Files
  BY KnobSets, KnobShapes DEF KnobInv, KnobTypes, Journals
<1>6. \A g \in Files : /\ MachineMade(file'[g]) => file'[g] = file[g]
                       /\ \A record : Named(g, file[g], record, surfaced) => Named(g, file'[g], record, surfaced)
  BY <1>2, <1>3 DEF Named
<1>7. \A record : Backed(file["validated"], record, surfaced) => Backed(file'["validated"], record, surfaced)
  BY <1>2, <1>3 DEF Backed
<1>8. EditsKept'
  <2>1. \A g \in Files : \A read : Accounted(file[g], read, late) /\ pc \in {"backup", "journal", "apply"} /\ g \in job.left
                               => Accounted(file'[g], read, late')
    BY <1>1, <1>2, <1>3 DEF Accounted
  <2>2. \A c, read : Accounted(c, read, late) => Accounted(c, read, late')
    BY <1>3 DEF Accounted
  <2>3. pc = "apply" => \A g \in job.left : file'[g] = journal.texts[g] \/ Accounted(file'[g], journal.seen[g], late')
    <3> SUFFICES ASSUME pc = "apply", NEW g \in job.left
                 PROVE  file'[g] = journal.texts[g] \/ Accounted(file'[g], journal.seen[g], late')
      OBVIOUS
    <3>1. CASE g = f
      <4>1. file'[g] = new /\ edits + 1 \in late'
        BY <1>1, <1>3, <3>1
      <4> QED
        BY <1>2, <4>1 DEF Accounted
    <3>2. CASE g # f
      <4>1. file'[g] = file[g]
        BY <1>3, <1>5, <3>2
      <4> QED
        BY <2>2, <4>1 DEF KnobInv, EditsKept
    <3> QED
      BY <3>1, <3>2
  <2>4. /\ pc \in {"backup", "journal"} /\ job.expects => \A g \in DOMAIN job.texts : Accounted(file'[g], job.seen[g], late')
        /\ pc = "journal" => \A g \in DOMAIN job.texts : Accounted(file'[g], job.prior[g], late')
    BY <1>5, <2>1, KnobSets DEF KnobInv, EditsKept
  <2> QED
    BY <1>1, <1>3, <2>2, <2>3, <2>4 DEF KnobInv, EditsKept
<1>9. \A texts, record, old, n : Recorded(texts, record, old, file["validated"], surfaced, n) => Recorded(texts, record, old, file'["validated"], surfaced, n)
  BY <1>7 DEF Recorded
<1>10. JournalTrue'
  <2> SUFFICES ASSUME journal # NoJournal PROVE JournalTrue'
    BY <1>1 DEF JournalTrue
  <2>1. \A g \in Files \ DOMAIN journal.texts : Named(g, file'[g], journal.priorRec, surfaced)
    BY <1>6 DEF KnobInv, JournalTrue
  <2>2. \A g \in DOMAIN journal.texts : file'[g] \in {journal.prior[g], journal.texts[g]} \/ ~MachineMade(file'[g])
    BY <1>5, <1>6 DEF KnobInv, JournalTrue
  <2>3. "validated" \notin DOMAIN journal.texts => Backed(file'["validated"], journal.priorRec, surfaced)
    BY <1>7 DEF KnobInv, JournalTrue
  <2>4. Recorded(journal.texts, journal.written, journal.priorRec, file'["validated"], surfaced, changes)
    BY <1>9 DEF KnobInv, JournalTrue
  <2> QED
    BY <1>1, <2>1, <2>2, <2>3, <2>4 DEF KnobInv, JournalTrue
<1>11. RecordsTrue'
  <2>1. Resting' = Resting
    BY <1>1 DEF Resting
  <2>2. Resting => /\ \A g \in Files : Named(g, file'[g], written, surfaced)
                  /\ Backed(file'["validated"], written, surfaced)
    BY <1>6, <1>7 DEF KnobInv, RecordsTrue
  <2>3. pc = "journal" => \A g \in Files : file'[g] = job.prior[g] \/ ~MachineMade(file'[g])
    BY <1>6 DEF KnobInv, RecordsTrue
  <2>4. pc = "apply" =>
          /\ \A g \in job.skipped : Named(g, file'[g], journal.priorRec, surfaced)
          /\ \A g \in DOMAIN journal.texts \ (job.left \cup job.skipped) : Named(g, file'[g], journal.written, surfaced)
          /\ "validated" \in job.skipped => Backed(file'["validated"], journal.priorRec, surfaced)
          /\ "validated" \in DOMAIN journal.texts \ (job.left \cup job.skipped) => Backed(file'["validated"], journal.written, surfaced)
    BY <1>5, <1>6, <1>7 DEF KnobInv, RecordsTrue
  <2>5. pc \in Preparing => Recorded(job.texts, job.written, written, file'["validated"], surfaced, changes)
    BY <1>9 DEF KnobInv, RecordsTrue
  <2> QED
    BY <1>1, <2>1, <2>2, <2>3, <2>4, <2>5 DEF KnobInv, RecordsTrue
<1>12. ManifestTrue'
  <2>1. Undo' = Undo /\ Changing' = Changing /\ JournalEntry' = JournalEntry /\ InManifest' = InManifest
    BY <1>1, UndoStays
  <2>2. Len(Undo) \in Nat
    BY UndoShape DEF KnobInv
  <2>3. file'["validated"].by # "machine" \/ file'["validated"] = file["validated"]
    BY <1>2, <1>3
  <2>4. UndoTrue(Undo, written, file'["validated"], surfaced, changes)
    BY <2>2, <2>3, UndoApproval DEF KnobInv, ManifestTrue
  <2> QED
    BY <1>1, <2>1, <2>4 DEF KnobInv, ManifestTrue
<1> QED
  BY <1>4, <1>8, <1>10, <1>11, <1>12 DEF KnobInv

\* Nothing is written yet, and nothing to be undone.
LEMMA KnobStart ==
  ASSUME KnobInit
  PROVE  KnobInv
<1>1. /\ file = [f \in Files |-> Absent] /\ written = [f \in Files |-> Absent] /\ journal = NoJournal /\ manifest = <<>>
      /\ changes = 0 /\ edits = 0 /\ crashes = 0 /\ pc = "idle" /\ job = NoJob /\ lost = {}
  BY DEF KnobInit
<1>2. /\ file \in Recs /\ written \in Recs /\ manifest \in Seq(Undoable) /\ Len(manifest) = 0
      /\ \A f \in Files : file[f].by = "none" /\ written[f].by = "none"
  BY <1>1, KnobShapes DEF Recs
<1>3. KnobTypes
  BY <1>1, <1>2, KnobSets DEF KnobTypes
<1>4. EditsKept /\ JournalTrue
  BY <1>1 DEF EditsKept, JournalTrue
<1>5. RecordsTrue
  BY <1>1, <1>2, KnobSets, KnobShapes DEF RecordsTrue, Bounded, Named, Backed, MachineMade
<1>6. ManifestTrue
  <2>1. Undo = manifest /\ ~Changing
    BY <1>1 DEF Undo, Changing
  <2> QED
    BY <1>1, <1>2, <2>1, KnobSets DEF ManifestTrue, UndoTrue
<1> QED
  BY <1>3, <1>4, <1>5, <1>6 DEF KnobInv

\* What the files, the record, the journal and the manifest owe each other at every
\* step, for any number of changes, of edits by a person and of crashes, any number
\* of backups kept and any length of the manifest.
THEOREM KnobInvThm == KnobSpec => []KnobInv
<1>1. KnobInit => KnobInv
  BY KnobStart
<1>2. KnobInv /\ [KnobNext]_knobVars => KnobInv'
  <2> SUFFICES ASSUME KnobInv, [KnobNext]_knobVars PROVE KnobInv'
    OBVIOUS
  <2>1. CASE \E names \in SUBSET Files : UpdateFiles(names)
    BY <2>1, UpdateFilesKeeps
  <2>2. CASE \E all \in BOOLEAN : ResetFiles(all)
    BY <2>2, ResetFilesKeeps
  <2>3. CASE \E n \in 1 .. ManifestLimit : Rollback(n)
    BY <2>3, RollbackKeeps
  <2>4. CASE Check
    BY <2>4, CheckKeeps
  <2>5. CASE Backup
    BY <2>5, BackupKeeps
  <2>6. CASE WriteJournal
    BY <2>6, WriteJournalKeeps
  <2>7. CASE StartRecovery
    BY <2>7, StartRecoveryKeeps
  <2>8. CASE ApplyRecord
    BY <2>8, ApplyRecordKeeps
  <2>9. CASE AddToManifest
    BY <2>9, AddToManifestKeeps
  <2>10. CASE Unlink
    BY <2>10, UnlinkKeeps
  <2>11. CASE \E f \in Files : ApplyFile(f)
    BY <2>11, ApplyFileKeeps
  <2>12. CASE Crash
    BY <2>12, CrashKeeps
  <2>13. CASE \E f \in Files, by \in {"hand", "bad", "none"} : Edit(f, by)
    BY <2>13, EditKeeps
  <2>14. CASE UNCHANGED knobVars
    <3>1. UNCHANGED <<file, written, journal, manifest, changes, edits, crashes, pc, job, late, lost, surfaced>>
      BY <2>14 DEF knobVars, ghosts
    <3>2. KnobTypes' /\ EditsKept' /\ JournalTrue' /\ RecordsTrue'
      BY <3>1 DEF KnobInv, KnobTypes, EditsKept, JournalTrue, RecordsTrue, Resting
    <3>3. ManifestTrue'
      BY <3>1, UndoStays DEF KnobInv, ManifestTrue
    <3> QED
      BY <3>2, <3>3 DEF KnobInv
  <2> QED
    BY <2>1, <2>2, <2>3, <2>4, <2>5, <2>6, <2>7, <2>8, <2>9, <2>10, <2>11, <2>12, <2>13, <2>14 DEF KnobNext
<1> QED
  BY <1>1, <1>2, PTL DEF KnobSpec

\* Through crashes at any step and edits at any time, a person's edit is replaced only
\* by a change that read it or backed it up, a machine's write is not taken for an
\* edit, and an approval that is believed stands beside its own calibration or a later
\* one (services/timing_knob_files.py: commit, recover, rollback).
THEOREM KnobFilesKeptThm == KnobSpec => []KnobFilesKept
<1>1. KnobInv => KnobFilesKept
  <2> SUFFICES ASSUME KnobInv PROVE KnobFilesKept
    OBVIOUS
  <2>1. EditKept
    BY DEF KnobInv, EditsKept, EditKept
  <2>2. MachineNotEdit
    BY DEF KnobInv, RecordsTrue, Resting, MachineNotEdit, Quiet, Named
  <2>3. ApprovalWithCalibration
    BY DEF KnobInv, RecordsTrue, Resting, ApprovalWithCalibration, ApprovalAlwaysWithCalibration, Quiet, ApprovalsUsable, Backed
  <2> QED
    BY <2>1, <2>2, <2>3 DEF KnobFilesKept
<1> QED
  BY <1>1, KnobInvThm, PTL

------------------------------------------------------------------------------
(* What is learned from, and what it is judged on.                            *)

RunIds == (Nat \ {0}) \X (Nat \ {0})

\* The order of runs is total, and goes by the execution first.
LEMMA LaterOrder ==
  ASSUME NEW a \in Nat \X Nat, NEW b \in Nat \X Nat, NEW c \in Nat \X Nat
  PROVE  /\ ~Later(a, a)
         /\ Later(a, b) /\ Later(b, c) => Later(a, c)
         /\ a = b \/ Later(a, b) \/ Later(b, a)
         /\ ~Later(a, b) => a[1] <= b[1]
         /\ a[1] > b[1] => Later(a, b)
<1>1. /\ a[1] \in Nat /\ a[2] \in Nat /\ a = <<a[1], a[2]>>
      /\ b[1] \in Nat /\ b[2] \in Nat /\ b = <<b[1], b[2]>>
      /\ c[1] \in Nat /\ c[2] \in Nat
  OBVIOUS
<1> QED
  BY <1>1 DEF Later

Sorted(s) == \A i, j \in 1 .. Len(s) : i < j => Later(s[j], s[i])

\* In sorted runs no place is taken twice, and executions never go back.
LEMMA SortedOrder ==
  ASSUME NEW s \in Seq(RunIds), Sorted(s), NEW i \in 1 .. Len(s), NEW j \in 1 .. Len(s)
  PROVE  /\ s[i] \in Nat \X Nat /\ s[j] \in Nat \X Nat
         /\ s[i] = s[j] => i = j
         /\ i <= j => ~Later(s[i], s[j]) /\ s[i][1] <= s[j][1]
<1>1. s[i] \in RunIds /\ s[j] \in RunIds
  OBVIOUS
<1>2. s[i] \in Nat \X Nat /\ s[j] \in Nat \X Nat
  BY <1>1 DEF RunIds
<1>3. (i < j => Later(s[j], s[i])) /\ (j < i => Later(s[i], s[j]))
  BY DEF Sorted
<1>4. ~Later(s[i], s[i]) /\ ~Later(s[j], s[j])
  BY <1>2, LaterOrder
<1>5. Later(s[j], s[i]) => ~Later(s[i], s[j])
  BY <1>2, <1>4, LaterOrder
<1>6. ~Later(s[i], s[j]) => s[i][1] <= s[j][1]
  BY <1>2, LaterOrder
<1> QED
  BY <1>2, <1>3, <1>4, <1>5, <1>6

\* A nonempty finite set of numbers has a greatest element.
LEMMA GreatestOf ==
  ASSUME NEW S \in SUBSET Nat, IsFiniteSet(S), S # {}
  PROVE  Max(S) \in S /\ \A m \in S : m <= Max(S)
<1> DEFINE Topless(T) == \A x \in T : \E y \in T : y > x
           Sizes == {n \in Nat : \E T \in SUBSET S : T # {} /\ Cardinality(T) = n /\ Topless(T)}
<1>1. Sizes = {}
  <2>1. SUFFICES ASSUME Sizes # {} PROVE FALSE
    OBVIOUS
  <2>2. PICK n \in Sizes : \A m \in Sizes : n <= m
    BY <2>1, LeastOfNat
  <2>3. PICK T \in SUBSET S : T # {} /\ Cardinality(T) = n /\ Topless(T)
    BY <2>2
  <2>4. PICK x \in T : TRUE
    BY <2>3
  <2> DEFINE U == T \ {x}
  <2>5. IsFiniteSet(T) /\ Cardinality(U) = n - 1 /\ IsFiniteSet(U)
    BY <2>3, <2>4, FS_Subset, FS_RemoveElement
  <2>6. Cardinality(U) \in Nat
    BY <2>5, FS_CardinalityType
  <2>7. U # {}
    BY <2>3, <2>4
  <2>8. ~Topless(U)
    BY <2>2, <2>5, <2>6, <2>7
  <2>9. PICK y \in U : \A z \in U : ~(z > y)
    BY <2>8
  <2>10. (\A z \in T : ~(z > y)) \/ (\A z \in T : ~(z > x))
    BY <2>4, <2>9
  <2> QED
    BY <2>3, <2>4, <2>9, <2>10
<1>2. Cardinality(S) \in Nat
  BY FS_CardinalityType
<1>3. ~Topless(S)
  BY <1>1, <1>2
<1>4. \E x \in S : \A y \in S : x >= y
  BY <1>3
<1> QED
  BY <1>4 DEF Max

\* How many executions are held out: at least one, and no more new ones than new
\* executions.
LEMMA HoldCountFact ==
  ASSUME NEW E, IsFiniteSet(E), NEW D, IsFiniteSet(D), NEW k \in Nat,
         Cardinality(D) <= Cardinality(E) + k
  PROVE  /\ HoldCount(E) \in Nat /\ HoldCount(E) >= 1
         /\ HoldCount(D) <= HoldCount(E) + k
<1> DEFINE Part(n) == (n + HoldPart - 1) \div HoldPart
           Count(n) == Min({MaxHold, Max({MinHold, Part(n)})})
           Least(a, b) == IF a <= b THEN a ELSE b
           Most(a, b) == IF a >= b THEN a ELSE b
<1>1. HoldPart \in Nat \ {0} /\ MinHold \in Nat \ {0} /\ MaxHold \in Nat /\ MinHold <= MaxHold
  BY LearningAssumption
<1>2. Cardinality(E) \in Nat /\ Cardinality(D) \in Nat
  BY FS_CardinalityType
<1>3. \A a, b \in Nat : Max({a, b}) = Most(a, b) /\ Min({a, b}) = Least(a, b)
  <2> SUFFICES ASSUME NEW a \in Nat, NEW b \in Nat
               PROVE  Max({a, b}) = Most(a, b) /\ Min({a, b}) = Least(a, b)
    OBVIOUS
  <2>1. Most(a, b) \in {a, b} /\ \A y \in {a, b} : Most(a, b) >= y
    OBVIOUS
  <2>2. Least(a, b) \in {a, b} /\ \A y \in {a, b} : Least(a, b) <= y
    OBVIOUS
  <2>3. Max({a, b}) \in {a, b} /\ \A y \in {a, b} : Max({a, b}) >= y
    <3> DEFINE G == {a, b}
    <3>1. \E x \in G : \A y \in G : x >= y
      BY <2>1
    <3> HIDE DEF G
    <3>2. Max(G) \in G /\ \A y \in G : Max(G) >= y
      BY <3>1 DEF Max
    <3> QED
      BY <3>2 DEF G
  <2>4. Min({a, b}) \in {a, b} /\ \A y \in {a, b} : Min({a, b}) <= y
    <3> DEFINE G == {a, b}
    <3>1. \E x \in G : \A y \in G : x <= y
      BY <2>2
    <3> HIDE DEF G
    <3>2. Min(G) \in G /\ \A y \in G : Min(G) <= y
      BY <3>1 DEF Min
    <3> QED
      BY <3>2 DEF G
  <2> QED
    BY <2>1, <2>2, <2>3, <2>4
<1>4. \A n \in Nat : Part(n) \in Nat
  BY <1>1
<1>5. \A m, n \in Nat : m <= n + k => Part(m) <= Part(n) + k
  <2> SUFFICES ASSUME NEW m \in Nat, NEW n \in Nat, m <= n + k PROVE Part(m) <= Part(n) + k
    OBVIOUS
  <2> DEFINE q == Part(n)
             p == Part(m)
  <2>1. q \in Nat /\ p \in Nat
    BY <1>4
  <2>2. n + HoldPart - 1 < HoldPart * (q + 1)
    BY <1>1
  <2>3. HoldPart * p <= m + HoldPart - 1
    BY <1>1
  <2> HIDE DEF q, p
  <2>4. SUFFICES ASSUME p >= q + k + 1 PROVE FALSE
    BY <2>1 DEF q, p
  <2>5. HoldPart * (q + k + 1) <= HoldPart * p
    BY <1>1, <2>1, <2>4
  <2>6. HoldPart * (q + k + 1) = HoldPart * (q + 1) + HoldPart * k
    BY <1>1, <2>1
  <2>7. HoldPart * k >= k /\ HoldPart * k \in Nat
    BY <1>1
  <2> QED
    BY <1>1, <2>1, <2>2, <2>3, <2>5, <2>6, <2>7
<1> HIDE DEF Part
<1>6. \A n \in Nat : Count(n) = Least(MaxHold, Most(MinHold, Part(n)))
  <2> TAKE n \in Nat
  <2>1. Part(n) \in Nat /\ Max({MinHold, Part(n)}) = Most(MinHold, Part(n))
    BY <1>1, <1>3, <1>4
  <2>2. Most(MinHold, Part(n)) \in Nat
    BY <1>1, <2>1
  <2> QED
    BY <1>1, <1>3, <2>1, <2>2
<1>7. HoldCount(E) = Count(Cardinality(E)) /\ HoldCount(D) = Count(Cardinality(D))
  BY DEF HoldCount, Part
<1> HIDE DEF Count
<1>8. /\ HoldCount(E) = Least(MaxHold, Most(MinHold, Part(Cardinality(E))))
      /\ HoldCount(D) = Least(MaxHold, Most(MinHold, Part(Cardinality(D))))
  BY <1>2, <1>6, <1>7
<1>9. /\ Part(Cardinality(E)) \in Nat /\ Part(Cardinality(D)) \in Nat
      /\ Part(Cardinality(D)) <= Part(Cardinality(E)) + k
  BY <1>2, <1>4, <1>5
<1> QED
  BY <1>1, <1>8, <1>9

\* Ring executions grown at the new end and trimmed at the old one: what is held
\* out was held out before, or is new.
LEMMA HeldGrows ==
  ASSUME NEW E \in SUBSET Nat, IsFiniteSet(E), NEW D \in SUBSET Nat, IsFiniteSet(D), NEW h \in Nat,
         \A x \in E : x <= h, \A x \in D : x \in E \/ x > h,
         \A x \in D, y \in E : y > x => y \in D
  PROVE  \A x \in Newest(HoldCount(D), D) : x > h \/ x \in Newest(HoldCount(E), E)
<1> SUFFICES ASSUME NEW x \in Newest(HoldCount(D), D), ~(x > h)
             PROVE  x \in Newest(HoldCount(E), E)
  OBVIOUS
<1> DEFINE N == D \ E
           A == {y \in E : y > x}
           B == {y \in D : y > x}
<1>1. x \in D /\ Cardinality(B) < HoldCount(D)
  BY DEF Newest
<1>2. x \in E /\ x \in Nat
  BY <1>1
<1>3. IsFiniteSet(N) /\ IsFiniteSet(A) /\ IsFiniteSet(B)
  BY FS_Subset
<1>4. Cardinality(N) \in Nat /\ Cardinality(A) \in Nat /\ Cardinality(B) \in Nat
      /\ Cardinality(D) \in Nat /\ Cardinality(E) \in Nat
  BY <1>3, FS_CardinalityType
<1>5. N \in SUBSET Nat /\ \A y \in N : y > h
  OBVIOUS
<1>6. B = A \cup N /\ A \cap N = {}
  <2>1. \A y \in D : y > x <=> y \in N \/ (y \in E /\ y > x)
    BY <1>2, <1>5
  <2>2. \A y \in E : y > x => y \in D
    BY <1>1
  <2> QED
    BY <2>1, <2>2
<1>7. Cardinality(B) = Cardinality(A) + Cardinality(N)
  <2>1. Cardinality(A \cap N) = 0
    BY <1>6, FS_EmptySet
  <2>2. Cardinality(A \cup N) = Cardinality(A) + Cardinality(N) - Cardinality(A \cap N)
    BY <1>3, FS_Union
  <2> QED
    BY <1>4, <1>6, <2>1, <2>2
<1>8. Cardinality(D) <= Cardinality(E) + Cardinality(N)
  <2>1. D \in SUBSET (E \cup N) /\ E \cap N = {}
    OBVIOUS
  <2>2. IsFiniteSet(E \cup N) /\ Cardinality(E \cup N) = Cardinality(E) + Cardinality(N) - Cardinality(E \cap N)
    BY <1>3, FS_Union
  <2>3. Cardinality(E \cap N) = 0
    BY <2>1, FS_EmptySet
  <2>4. Cardinality(D) <= Cardinality(E \cup N)
    BY <2>1, <2>2, FS_Subset
  <2> QED
    BY <1>4, <2>2, <2>3, <2>4
<1>9. HoldCount(D) \in Nat /\ HoldCount(E) \in Nat /\ HoldCount(D) <= HoldCount(E) + Cardinality(N)
  <2>1. HoldCount(E) \in Nat /\ HoldCount(D) <= HoldCount(E) + Cardinality(N)
    BY <1>4, <1>8, HoldCountFact
  <2>2. HoldCount(D) \in Nat
    BY <1>4, HoldCountFact
  <2> QED
    BY <2>1, <2>2
<1>10. Cardinality(A) < HoldCount(E)
  BY <1>1, <1>4, <1>7, <1>9
<1> QED
  BY <1>2, <1>10 DEF Newest

\* With enough executions after the checkpoint, the held out are the newest of all.
LEMMA EligibleHeld ==
  ASSUME NEW E \in SUBSET Nat, IsFiniteSet(E), NEW c \in Nat, NEW n \in Nat,
         Cardinality({x \in E : x > c}) >= n
  PROVE  Newest(n, {x \in E : x > c}) = Newest(n, E)
<1> DEFINE G == {x \in E : x > c}
           Above(x, S) == {y \in S : y > x}
<1>1. \A x \in G : Above(x, G) = Above(x, E)
  <2> SUFFICES ASSUME NEW x \in G PROVE Above(x, G) = Above(x, E)
    OBVIOUS
  <2>1. \A y \in E : y > x => y \in G
    <3>1. x \in Nat /\ x > c
      OBVIOUS
    <3> QED
      BY <3>1
  <2>2. G \subseteq E
    OBVIOUS
  <2> HIDE DEF G
  <2> QED
    BY <2>1, <2>2
<1>2. \A x \in E : x <= c => Cardinality(Above(x, E)) >= n
  <2> SUFFICES ASSUME NEW x \in E, x <= c PROVE Cardinality(Above(x, E)) >= n
    OBVIOUS
  <2>0. x \in Nat /\ Above(x, E) \in SUBSET E
    OBVIOUS
  <2>1. G \in SUBSET Above(x, E) /\ IsFiniteSet(Above(x, E))
    <3>1. \A y \in G : y \in E /\ y > x
      BY <2>0
    <3>2. IsFiniteSet(Above(x, E))
      BY <2>0, FS_Subset
    <3> HIDE DEF G
    <3> QED
      BY <3>1, <3>2
  <2>2. Cardinality(G) <= Cardinality(Above(x, E)) /\ Cardinality(G) \in Nat /\ Cardinality(Above(x, E)) \in Nat
    BY <2>1, FS_Subset, FS_CardinalityType
  <2> QED
    BY <2>2
<1>3. \A x \in E : Cardinality(Above(x, E)) \in Nat
  BY FS_Subset, FS_CardinalityType
<1>4. Newest(n, G) = {x \in G : Cardinality(Above(x, G)) < n} /\ Newest(n, E) = {x \in E : Cardinality(Above(x, E)) < n}
  BY DEF Newest
<1>5. G \subseteq E /\ \A x \in E : x \in G \/ x <= c
  OBVIOUS
<1> HIDE DEF G, Above
<1>6. \A x \in E : x \in Newest(n, G) <=> x \in Newest(n, E)
  BY <1>1, <1>2, <1>3, <1>4, <1>5
<1> QED
  BY <1>4, <1>5, <1>6 DEF G

\* The greatest of a set is among its newest.
LEMMA NewestHasGreatest ==
  ASSUME NEW S \in SUBSET Nat, IsFiniteSet(S), S # {}, NEW n \in Nat, n >= 1
  PROVE  Max(Newest(n, S)) \in Nat
<1>1. Max(S) \in S /\ Max(S) \in Nat /\ \A m \in S : m \in Nat /\ m <= Max(S)
  BY GreatestOf
<1>2. {y \in S : y > Max(S)} = {}
  <2>1. \A y \in S : ~(y > Max(S))
    BY <1>1
  <2> QED
    BY <2>1
<1>3. Cardinality({y \in S : y > Max(S)}) = 0
  BY <1>2, FS_EmptySet
<1>4. Max(S) \in Newest(n, S)
  BY <1>1, <1>3 DEF Newest
<1>5. Newest(n, S) \in SUBSET S
  BY DEF Newest
<1>6. IsFiniteSet(Newest(n, S))
  BY <1>5, FS_Subset
<1> QED
  BY <1>4, <1>5, <1>6, GreatestOf

\* The executions of a sequence of runs.
LEMMA ExecsOf ==
  ASSUME NEW s \in Seq(RunIds)
  PROVE  /\ ToSet(s) = {s[i] : i \in 1 .. Len(s)}
         /\ Execs(ToSet(s)) = {s[i][1] : i \in 1 .. Len(s)}
         /\ IsFiniteSet(Execs(ToSet(s))) /\ Execs(ToSet(s)) \in SUBSET (Nat \ {0})
<1>1. Len(s) \in Nat /\ DOMAIN s = 1 .. Len(s) /\ \A i \in 1 .. Len(s) : s[i] \in RunIds
  OBVIOUS
<1>2. ToSet(s) = {s[i] : i \in 1 .. Len(s)}
  BY <1>1 DEF ToSet
<1>3. Execs(ToSet(s)) = {s[i][1] : i \in 1 .. Len(s)}
  BY <1>2 DEF Execs
<1> DEFINE T == {s[i][1] : i \in 1 .. Len(s)}
           f == [i \in 1 .. Len(s) |-> s[i][1]]
<1>4. f \in Surjection(1 .. Len(s), T)
  BY DEF Surjection
<1>5. IsFiniteSet(1 .. Len(s))
  BY <1>1, FS_Interval
<1>6. IsFiniteSet(T)
  <2> HIDE DEF f, T
  <2> QED
    BY <1>4, <1>5, FS_Surjection
<1>7. T \in SUBSET (Nat \ {0})
  BY <1>1 DEF RunIds
<1> QED
  BY <1>2, <1>3, <1>6, <1>7

\* A sequence has the runs of a set, each once and in order.
Lists(u, F) ==
  /\ u \in Seq(RunIds) /\ Len(u) = Cardinality(F) /\ Sorted(u)
  /\ \A r : r \in F <=> \E i \in 1 .. Len(u) : r = u[i]

\* A piece of the sorted runs is what sorting its runs gives.
LEMMA InOrderFact ==
  ASSUME NEW s \in Seq(RunIds), Sorted(s), NEW lo \in Nat \ {0}, NEW hi \in 0 .. Len(s), lo <= hi + 1,
         NEW F, F = {s[i] : i \in lo .. hi}
  PROVE  /\ IsFiniteSet(F) /\ Cardinality(F) = hi + 1 - lo /\ F \subseteq RunIds
         /\ Lists(InOrder(F), F)
<1> DEFINE n == hi + 1 - lo
           I == lo .. hi
           f == [i \in I |-> s[i]]
           w == [i \in 1 .. n |-> s[lo + i - 1]]
           c == Cardinality(F)
           In(u) == \A i, j \in 1 .. c : i < j => Later(u[j], u[i])
<1>0. hi \in Nat /\ lo \in Nat /\ lo >= 1 /\ n \in Nat /\ Len(s) \in Nat /\ hi <= Len(s) /\ lo .. hi \subseteq 1 .. Len(s)
  OBVIOUS
<1>1. \A i, j \in I : s[i] = s[j] => i = j
  BY <1>0, SortedOrder
<1>2. f \in Bijection(I, F)
  <2>1. f \in [I -> F] /\ \A i, j \in I : f[i] = f[j] => i = j
    BY <1>1
  <2>2. \A r \in F : \E i \in I : f[i] = r
    OBVIOUS
  <2> HIDE DEF f
  <2>3. f \in Injection(I, F)
    BY <2>1 DEF Injection, IsInjective
  <2>4. f \in Surjection(I, F)
    BY <2>1, <2>2 DEF Surjection
  <2> QED
    BY <2>3, <2>4 DEF Bijection
<1>3. IsFiniteSet(I) /\ Cardinality(I) = n
  <2>1. lo \in Int /\ hi \in Int
    BY <1>0
  <2>2. IsFiniteSet(lo .. hi) /\ Cardinality(lo .. hi) = IF lo > hi THEN 0 ELSE hi - lo + 1
    BY <2>1, FS_Interval
  <2>3. n = IF lo > hi THEN 0 ELSE hi - lo + 1
    BY <1>0
  <2> QED
    BY <2>2, <2>3
<1> HIDE DEF I
<1>4. IsFiniteSet(F) /\ c = n
  <2>1. ExistsBijection(I, F)
    BY <1>2 DEF ExistsBijection
  <2> QED
    BY <1>3, <2>1, FS_Bijection
<1>5. F \subseteq RunIds
  BY <1>0
<1>6. w \in [1 .. c -> F] /\ In(w)
  <2>1. \A i \in 1 .. n : lo + i - 1 \in lo .. hi /\ lo + i - 1 \in 1 .. Len(s)
    BY <1>0
  <2>2. w \in [1 .. n -> F]
    BY <2>1
  <2>3. \A i, j \in 1 .. n : i < j => Later(w[j], w[i])
    <3> SUFFICES ASSUME NEW i \in 1 .. n, NEW j \in 1 .. n, i < j PROVE Later(w[j], w[i])
      OBVIOUS
    <3>1. lo + i - 1 < lo + j - 1
      BY <1>0
    <3>2. Later(s[lo + j - 1], s[lo + i - 1])
      BY <2>1, <3>1 DEF Sorted
    <3> QED
      BY <3>2
  <2> QED
    BY <1>4, <2>2, <2>3
<1>7. InOrder(F) \in [1 .. c -> F] /\ In(InOrder(F))
  <2> HIDE DEF w
  <2>1. \E u \in [1 .. c -> F] : \A i, j \in 1 .. c : i < j => Later(u[j], u[i])
    BY <1>6
  <2> QED
    BY <2>1 DEF InOrder
<1> DEFINE u == InOrder(F)
<1> HIDE DEF u, c, f, w
<1>8. u \in Seq(RunIds) /\ Len(u) = c
  <2>1. u \in [1 .. c -> RunIds] /\ c \in Nat
    BY <1>0, <1>4, <1>5, <1>7 DEF u
  <2> QED
    BY <2>1
<1>9. Sorted(u)
  BY <1>7, <1>8 DEF Sorted, u
<1>10. u \in Injection(1 .. c, F)
  <2>1. \A i, j \in 1 .. c : u[i] = u[j] => i = j
    BY <1>8, <1>9, SortedOrder
  <2>2. u \in [1 .. c -> F]
    BY <1>7 DEF u
  <2> QED
    BY <2>1, <2>2 DEF Injection, IsInjective
<1>11. u \in Surjection(1 .. c, F)
  <2>1. Cardinality(1 .. c) = Cardinality(F)
    <3>1. c \in Nat /\ c = Cardinality(F)
      BY <1>0, <1>4 DEF c
    <3>2. Cardinality(1 .. c) = c
      BY <3>1, FS_Interval
    <3> QED
      BY <3>1, <3>2
  <2> QED
    BY <1>4, <1>10, <2>1, FS_Injection
<1>12. \A r : r \in F <=> \E i \in 1 .. Len(u) : r = u[i]
  <2>1. u \in [1 .. c -> F] /\ \A r \in F : \E i \in 1 .. c : u[i] = r
    BY <1>11 DEF Surjection
  <2>2. Len(u) = c /\ \A i \in 1 .. c : u[i] \in F
    BY <1>8, <2>1
  <2>3. \A r : r \in F <=> \E i \in 1 .. c : r = u[i]
    BY <2>1, <2>2
  <2> QED
    BY <2>2, <2>3
<1>13. Lists(u, F)
  BY <1>8, <1>9, <1>12 DEF Lists, c
<1>14. Lists(InOrder(F), F)
  BY <1>13 DEF u
<1>15. IsFiniteSet(F) /\ Cardinality(F) = hi + 1 - lo
  BY <1>4 DEF c
<1> QED
  BY <1>5, <1>14, <1>15

Rings == [added : Nat, high : Nat \X Nat, entries : Seq(RunIds)]

\* The ring in order, with its newest run marked.
RingSound(rg) ==
  /\ rg \in Rings /\ Sorted(rg.entries)
  /\ rg.high = IF rg.entries = <<>> THEN <<0, 0>> ELSE rg.entries[Len(rg.entries)]

\* The complete runs, by their places, that a mark has passed.
Passed(high) == {i \in 1 .. Len(complete) : ~Later(complete[i], high)}

\* No run of the ring is later than the mark.
LEMMA UpToMark ==
  ASSUME NEW rg, RingSound(rg)
  PROVE  /\ rg.high \in Nat \X Nat /\ rg.entries \in Seq(RunIds)
         /\ \A i \in 1 .. Len(rg.entries) :
              ~Later(rg.entries[i], rg.high) /\ rg.entries[i] \in Nat \X Nat /\ rg.entries[i][1] <= rg.high[1]
<1>1. rg.high \in Nat \X Nat /\ rg.entries \in Seq(RunIds) /\ Sorted(rg.entries)
  BY DEF RingSound, Rings
<1>2. ASSUME NEW i \in 1 .. Len(rg.entries)
      PROVE  ~Later(rg.entries[i], rg.high) /\ rg.entries[i] \in Nat \X Nat /\ rg.entries[i][1] <= rg.high[1]
  <2>1. rg.entries # <<>> /\ Len(rg.entries) \in 1 .. Len(rg.entries) /\ i <= Len(rg.entries)
    BY <1>1, <1>2
  <2>2. rg.high = rg.entries[Len(rg.entries)]
    BY <2>1 DEF RingSound
  <2> QED
    BY <1>1, <2>1, <2>2, SortedOrder
<1> QED
  BY <1>1, <1>2

\* The new runs of a history are a piece of the complete runs, all past the mark;
\* the other runs of the history are not.
LEMMA FreshPiece ==
  ASSUME complete \in Seq(RunIds), Sorted(complete), RingSound(ring), NEW runs \in Histories, pruned \in Nat
  PROVE  /\ \E lo \in Nat \ {0}, hi \in 0 .. Len(complete) :
              lo <= hi + 1 /\ Fresh(runs) = {complete[i] : i \in lo .. hi}
         /\ \A r \in Fresh(runs) : Later(r, ring.high)
         /\ \A r \in runs : r \in RunIds /\ (r \in Fresh(runs) \/ ~Later(r, ring.high))
<1>1. PICK n \in 0 .. Len(complete), gone \in 0 .. pruned :
        runs = {r \in ToSet(SubSeq(complete, 1, n)) : r[1] > gone}
  BY DEF Histories
<1>2. Len(complete) \in Nat /\ n \in Nat /\ n <= Len(complete) /\ gone \in Nat
  BY <1>1
<1>3. ToSet(SubSeq(complete, 1, n)) = {complete[i] : i \in 1 .. n}
  <2> DEFINE sub == SubSeq(complete, 1, n)
  <2>1. Len(sub) = n /\ sub \in Seq(RunIds) /\ \A i \in 1 .. n : sub[i] = complete[i]
    BY <1>2, SubSeqProperties
  <2> HIDE DEF sub
  <2>2. ToSet(sub) = {sub[i] : i \in 1 .. Len(sub)}
    BY <2>1, ExecsOf
  <2>3. \A r : r \in ToSet(sub) <=> \E i \in 1 .. n : r = complete[i]
    BY <2>1, <2>2
  <2> QED
    BY <2>3 DEF sub
<1>4. \A r : r \in runs <=> r[1] > gone /\ \E i \in 1 .. n : r = complete[i]
  BY <1>1, <1>3
<1>5. \A r \in ToSet(ring.entries) : ~Later(r, ring.high)
  <2>1. ring.entries \in Seq(RunIds)
    BY UpToMark
  <2>2. ToSet(ring.entries) = {ring.entries[i] : i \in 1 .. Len(ring.entries)}
    BY <2>1, ExecsOf
  <2> QED
    BY <2>2, UpToMark
<1>6. \A r : r \in Fresh(runs) <=> r \in runs /\ Later(r, ring.high)
  BY <1>5 DEF Fresh
<1>7. \A i \in 1 .. n : complete[i] \in RunIds /\ complete[i] \in Nat \X Nat /\ complete[i][1] \in Nat
  BY <1>2 DEF RunIds
<1>8. ring.high \in Nat \X Nat
  BY UpToMark
<1> DEFINE B == {i \in 1 .. n : complete[i] \in Fresh(runs)}
<1>9. \A r : r \in Fresh(runs) <=> \E i \in B : r = complete[i]
  BY <1>4, <1>6
<1>10. \A i \in B, j \in 1 .. n : i <= j => j \in B
  <2> SUFFICES ASSUME NEW i \in B, NEW j \in 1 .. n, i <= j PROVE complete[j] \in Fresh(runs)
    OBVIOUS
  <2>1. i \in 1 .. Len(complete) /\ j \in 1 .. Len(complete)
    BY <1>2
  <2>2. complete[i] \in runs /\ Later(complete[i], ring.high)
    BY <1>6
  <2>3. complete[i][1] > gone
    BY <1>4, <2>2
  <2>4. complete[i][1] <= complete[j][1]
    BY <2>1, SortedOrder
  <2>5. complete[j][1] > gone
    BY <1>2, <1>7, <2>3, <2>4
  <2>6. i = j \/ Later(complete[j], complete[i])
    BY <2>1, <1>2 DEF Sorted
  <2>7. Later(complete[j], ring.high)
    BY <1>7, <1>8, <2>2, <2>6, LaterOrder
  <2> QED
    BY <1>4, <1>6, <2>5, <2>7
<1>11. \E lo \in Nat \ {0} : lo <= n + 1 /\ B = lo .. n
  <2>1. CASE B = {}
    <3>1. n + 1 \in Nat \ {0} /\ n + 1 <= n + 1 /\ (n + 1) .. n = {}
      BY <1>2
    <3> HIDE DEF B
    <3>2. B = (n + 1) .. n
      BY <2>1, <3>1
    <3> QED
      BY <3>1, <3>2
  <2>2. CASE B # {}
    <3>1. B \in SUBSET Nat
      OBVIOUS
    <3>2. PICK lo \in B : \A m \in B : lo <= m
      BY <2>2, <3>1, LeastOfNat
    <3>3. lo \in 1 .. n
      OBVIOUS
    <3>4. \A m \in Nat : m \in B <=> m \in lo .. n
      BY <1>2, <1>10, <3>2, <3>3
    <3>5. B = lo .. n
      <4>1. lo .. n \in SUBSET Nat
        BY <3>3
      <4> HIDE DEF B
      <4> QED
        BY <3>1, <3>4, <4>1
    <3> QED
      BY <3>3, <3>5
  <2> QED
    BY <2>1, <2>2
<1>12. PICK lo \in Nat \ {0} : lo <= n + 1 /\ B = lo .. n
  BY <1>11
<1> HIDE DEF B
<1>13. Fresh(runs) = {complete[i] : i \in lo .. n}
  BY <1>9, <1>12
<1>14. \A r \in runs : r \in RunIds
  BY <1>4, <1>7
<1> QED
  BY <1>6, <1>12, <1>13, <1>14

\* What the ring holds after an update, and what it has counted.
LEMMA RingedFact ==
  ASSUME complete \in Seq(RunIds), Sorted(complete), RingSound(ring), NEW runs \in Histories, pruned \in Nat,
         ring.added <= Cardinality(Passed(ring.high)),
         NEW rg, rg = Ringed(runs),
         NEW E, E = Execs(ToSet(ring.entries)), NEW D, D = Execs(ToSet(rg.entries))
  PROVE  /\ RingSound(rg) /\ rg.added <= Cardinality(Passed(rg.high))
         /\ ring.added <= rg.added
         /\ ring.high[1] <= rg.high[1] /\ \A r \in runs : r[1] <= rg.high[1]
         /\ \A x \in D : x \in E \/ x > ring.high[1]
         /\ \A x \in D, y \in E : y > x => y \in D
<1> DEFINE F == Fresh(runs)
           new == InOrder(F)
           old == ring.entries
           all == old \o new
           k == IF Len(all) <= RingSize THEN 0 ELSE Len(all) - RingSize
<1>1. PICK lo \in Nat \ {0}, hi \in 0 .. Len(complete) : lo <= hi + 1 /\ F = {complete[i] : i \in lo .. hi}
  BY FreshPiece
<1>2. /\ IsFiniteSet(F) /\ Cardinality(F) \in Nat
      /\ new \in Seq(RunIds) /\ Len(new) = Cardinality(F) /\ Sorted(new)
      /\ \A r : r \in F <=> \E i \in 1 .. Len(new) : r = new[i]
  <2> HIDE DEF F, new
  <2>1. IsFiniteSet(F) /\ Lists(InOrder(F), F)
    BY <1>1, InOrderFact
  <2>2. Lists(new, F)
    BY <2>1 DEF new
  <2>3. Cardinality(F) \in Nat
    BY <2>1, FS_CardinalityType
  <2> QED
    BY <2>1, <2>2, <2>3 DEF Lists
<1>3. /\ \A r \in F : Later(r, ring.high)
      /\ \A r \in runs : r \in RunIds /\ (r \in F \/ ~Later(r, ring.high))
  BY FreshPiece
<1>4. /\ rg.added = ring.added + Len(new)
      /\ rg.high = IF new = <<>> THEN ring.high ELSE Last(new)
      /\ rg.entries = IF Len(all) <= RingSize THEN all ELSE SubSeq(all, Len(all) - RingSize + 1, Len(all))
  BY DEF Ringed
<1> HIDE DEF F, new
<1>5. /\ old \in Seq(RunIds) /\ Sorted(old) /\ ring.added \in Nat /\ ring.high \in Nat \X Nat
  BY DEF RingSound, Rings
<1>6. /\ Len(old) \in Nat /\ Len(new) \in Nat /\ all \in Seq(RunIds) /\ Len(all) = Len(old) + Len(new)
      /\ \A i \in 1 .. Len(old) : all[i] = old[i]
      /\ \A i \in 1 .. Len(new) : all[Len(old) + i] = new[i]
      /\ \A i \in 1 .. Len(all) : i \in 1 .. Len(old) \/ (i - Len(old) \in 1 .. Len(new) /\ all[i] = new[i - Len(old)])
  <2>1. old \in Seq(RunIds) /\ new \in Seq(RunIds) /\ Len(old) \in Nat /\ Len(new) \in Nat
    BY <1>2, <1>5
  <2> HIDE DEF old
  <2>2. /\ all \in Seq(RunIds) /\ Len(all) = Len(old) + Len(new)
        /\ \A i \in 1 .. Len(old) : all[i] = old[i]
        /\ \A i \in 1 .. Len(new) : all[Len(old) + i] = new[i]
    BY <2>1
  <2> HIDE DEF all
  <2>3. ASSUME NEW i \in 1 .. Len(all), ~(i \in 1 .. Len(old))
        PROVE  i - Len(old) \in 1 .. Len(new) /\ all[i] = new[i - Len(old)]
    <3>1. i - Len(old) \in 1 .. Len(new) /\ Len(old) + (i - Len(old)) = i
      BY <2>1, <2>2, <2>3
    <3> QED
      BY <2>2, <3>1
  <2> QED
    BY <2>1, <2>2, <2>3
<1> HIDE DEF all
<1>7. \A i \in 1 .. Len(new) : new[i] \in F /\ Later(new[i], ring.high) /\ new[i] \in Nat \X Nat
  <2>1. \A i \in 1 .. Len(new) : new[i] \in F /\ new[i] \in RunIds
    BY <1>2
  <2> QED
    BY <1>3, <2>1 DEF RunIds
<1>8. Sorted(all)
  <2> SUFFICES ASSUME NEW i \in 1 .. Len(all), NEW j \in 1 .. Len(all), i < j PROVE Later(all[j], all[i])
    BY DEF Sorted
  <2>1. CASE j \in 1 .. Len(old)
    <3>1. i \in 1 .. Len(old)
      BY <1>6, <2>1
    <3> QED
      BY <1>5, <1>6, <2>1, <3>1 DEF Sorted
  <2>2. CASE ~(j \in 1 .. Len(old))
    <3>1. j - Len(old) \in 1 .. Len(new) /\ all[j] = new[j - Len(old)]
      BY <1>6, <2>2
    <3>2. CASE i \in 1 .. Len(old)
      <4>1. all[i] = old[i] /\ ~Later(old[i], ring.high) /\ old[i] \in Nat \X Nat
        BY <1>6, <3>2, UpToMark
      <4>2. Later(all[j], ring.high) /\ all[j] \in Nat \X Nat
        BY <1>7, <3>1
      <4> QED
        BY <1>5, <4>1, <4>2, LaterOrder
    <3>3. CASE ~(i \in 1 .. Len(old))
      <4>1. i - Len(old) \in 1 .. Len(new) /\ all[i] = new[i - Len(old)]
        BY <1>6, <3>3
      <4>2. i - Len(old) < j - Len(old)
        BY <1>6
      <4> QED
        BY <1>2, <3>1, <4>1, <4>2 DEF Sorted
    <3> QED
      BY <3>2, <3>3
  <2> QED
    BY <2>1, <2>2
<1>9. /\ k \in Nat /\ k <= Len(all) /\ (Len(all) > 0 => k < Len(all))
      /\ rg.entries \in Seq(RunIds) /\ Len(rg.entries) = Len(all) - k
      /\ \A i \in 1 .. Len(rg.entries) : i + k \in 1 .. Len(all) /\ rg.entries[i] = all[i + k]
  <2>0. RingSize \in Nat /\ RingSize >= 1 /\ Len(all) \in Nat
    BY <1>6, LearningAssumption
  <2>1. CASE Len(all) <= RingSize
    <3>1. rg.entries = all /\ k = 0
      BY <1>4, <2>1
    <3> HIDE DEF k
    <3>2. \A i \in 1 .. Len(all) : i + k = i
      BY <2>0, <3>1
    <3> QED
      BY <1>6, <2>0, <3>1, <3>2
  <2>2. CASE ~(Len(all) <= RingSize)
    <3>1. rg.entries = SubSeq(all, k + 1, Len(all)) /\ k = Len(all) - RingSize
      BY <1>4, <2>2
    <3>2. k \in Nat /\ k < Len(all)
      BY <2>0, <2>2
    <3> HIDE DEF k
    <3>3. k + 1 \in 1 .. Len(all) + 1 /\ Len(all) \in k .. Len(all)
      BY <2>0, <3>2
    <3>4. /\ SubSeq(all, k + 1, Len(all)) \in Seq(RunIds)
          /\ Len(SubSeq(all, k + 1, Len(all))) = Len(all) - k
          /\ \A i \in 1 .. Len(all) - k : SubSeq(all, k + 1, Len(all))[i] = all[i + k]
      BY <1>6, <2>0, <3>2, <3>3, SubSeqProperties
    <3>5. \A i \in 1 .. Len(all) - k : i + k \in 1 .. Len(all)
      BY <2>0, <3>2
    <3>6. k <= Len(all)
      BY <2>0, <3>2
    <3> QED
      BY <3>1, <3>2, <3>4, <3>5, <3>6
  <2> QED
    BY <2>1, <2>2
<1> HIDE DEF k
<1>10. Sorted(rg.entries)
  <2> SUFFICES ASSUME NEW i \in 1 .. Len(rg.entries), NEW j \in 1 .. Len(rg.entries), i < j
               PROVE  Later(rg.entries[j], rg.entries[i])
    BY DEF Sorted
  <2>1. i + k < j + k
    BY <1>9
  <2> QED
    BY <1>8, <1>9, <2>1 DEF Sorted
<1>11. rg.entries = <<>> <=> old = <<>> /\ new = <<>>
  <2>1. rg.entries = <<>> <=> Len(rg.entries) = 0
    BY <1>9
  <2>2. Len(rg.entries) = 0 <=> Len(all) = 0
    BY <1>6, <1>9
  <2>3. (old = <<>> <=> Len(old) = 0) /\ (new = <<>> <=> Len(new) = 0)
    BY <1>2, <1>5
  <2>4. Len(all) = 0 <=> Len(old) = 0 /\ Len(new) = 0
    BY <1>6
  <2> QED
    BY <2>1, <2>2, <2>3, <2>4
<1>12. rg.high = IF rg.entries = <<>> THEN <<0, 0>> ELSE rg.entries[Len(rg.entries)]
  <2>1. CASE new # <<>>
    <3>1. Len(new) > 0 /\ rg.high = new[Len(new)]
      BY <1>2, <1>4, <2>1 DEF Last
    <3>2. rg.entries # <<>> /\ Len(rg.entries) \in 1 .. Len(rg.entries)
      BY <1>9, <1>11, <2>1
    <3>3. Len(rg.entries) + k = Len(old) + Len(new)
      BY <1>6, <1>9
    <3>4. rg.entries[Len(rg.entries)] = all[Len(old) + Len(new)]
      BY <1>9, <3>2, <3>3
    <3>5. Len(new) \in 1 .. Len(new)
      BY <1>6, <3>1
    <3>6. all[Len(old) + Len(new)] = new[Len(new)]
      BY <1>6, <3>5
    <3> QED
      BY <3>1, <3>2, <3>4, <3>6
  <2>2. CASE new = <<>> /\ old # <<>>
    <3>1. Len(new) = 0 /\ rg.high = old[Len(old)] /\ Len(old) \in 1 .. Len(old)
      BY <1>4, <1>5, <2>2 DEF RingSound
    <3>2. rg.entries # <<>> /\ Len(rg.entries) \in 1 .. Len(rg.entries)
      BY <1>9, <1>11, <2>2
    <3>3. Len(rg.entries) + k = Len(old)
      BY <1>6, <1>9, <3>1
    <3>4. rg.entries[Len(rg.entries)] = old[Len(old)]
      BY <1>6, <1>9, <3>1, <3>2, <3>3
    <3> QED
      BY <3>1, <3>2, <3>4
  <2>3. CASE new = <<>> /\ old = <<>>
    BY <1>4, <1>11, <2>3 DEF RingSound
  <2> QED
    BY <2>1, <2>2, <2>3
<1>13. /\ rg.high \in Nat \X Nat /\ (rg.high = ring.high \/ Later(rg.high, ring.high))
       /\ \A r \in F : ~Later(r, rg.high) /\ r \in Nat \X Nat
  <2>1. CASE new = <<>>
    <3>1. F = {}
      BY <1>2, <2>1
    <3> QED
      BY <1>4, <1>5, <2>1, <3>1
  <2>2. CASE new # <<>>
    <3>1. Len(new) \in 1 .. Len(new) /\ rg.high = new[Len(new)]
      BY <1>2, <1>4, <2>2 DEF Last
    <3>2. \A i \in 1 .. Len(new) : ~Later(new[i], new[Len(new)])
      BY <1>2, <3>1, SortedOrder
    <3>3. \A r \in F : \E i \in 1 .. Len(new) : r = new[i]
      BY <1>2
    <3> QED
      BY <1>7, <3>1, <3>2, <3>3
  <2> QED
    BY <2>1, <2>2
<1>14. rg \in Rings
  <2>1. Ringed(runs) = [added |-> rg.added, high |-> rg.high, entries |-> rg.entries]
    BY <1>4 DEF Ringed, new, F, all
  <2>2. rg.added \in Nat
    BY <1>4, <1>5, <1>6
  <2> QED
    BY <1>9, <1>13, <2>1, <2>2 DEF Rings
<1>15. RingSound(rg)
  BY <1>10, <1>12, <1>14 DEF RingSound
<1>16. ring.added <= rg.added
  BY <1>4, <1>5, <1>6
<1>17. ring.high[1] <= rg.high[1]
  BY <1>5, <1>13, LaterOrder
<1>18. \A r \in runs : r[1] <= rg.high[1]
  <2> SUFFICES ASSUME NEW r \in runs PROVE r[1] <= rg.high[1]
    OBVIOUS
  <2>1. r \in Nat \X Nat /\ r[1] \in Nat /\ ring.high[1] \in Nat /\ rg.high[1] \in Nat
    BY <1>3, <1>5, <1>13 DEF RunIds
  <2>2. CASE r \in F
    BY <1>13, <2>1, <2>2, LaterOrder
  <2>3. CASE ~Later(r, ring.high)
    <3>1. r[1] <= ring.high[1]
      BY <1>5, <2>1, <2>3, LaterOrder
    <3> QED
      BY <1>17, <2>1, <3>1
  <2> QED
    BY <1>3, <2>2, <2>3
<1>19. rg.added <= Cardinality(Passed(rg.high))
  <2> DEFINE P == Passed(ring.high)
             Q == Passed(rg.high)
  <2>1. IsFiniteSet(1 .. Len(complete)) /\ P \in SUBSET (1 .. Len(complete)) /\ Q \in SUBSET (1 .. Len(complete))
    BY FS_Interval DEF Passed
  <2>2. IsFiniteSet(P) /\ IsFiniteSet(Q) /\ IsFiniteSet(lo .. hi)
    <3>1. lo \in Int /\ hi \in Int
      BY <1>1
    <3>2. IsFiniteSet(lo .. hi)
      BY <3>1, FS_Interval
    <3> QED
      BY <2>1, <3>2, FS_Subset
  <2>3. \A i \in 1 .. Len(complete) : complete[i] \in Nat \X Nat
    BY DEF RunIds
  <2>4. \A i \in P : i \in Q
    <3> SUFFICES ASSUME NEW i \in P PROVE ~Later(complete[i], rg.high)
      BY <2>1 DEF Passed
    <3>1. complete[i] \in Nat \X Nat /\ ~Later(complete[i], ring.high)
      BY <2>3 DEF Passed
    <3> QED
      BY <1>5, <1>13, <3>1, LaterOrder
  <2>5. \A i \in lo .. hi : i \in Q /\ i \notin P
    <3> SUFFICES ASSUME NEW i \in lo .. hi PROVE i \in Q /\ i \notin P
      OBVIOUS
    <3>1. i \in 1 .. Len(complete) /\ complete[i] \in F
      BY <1>1
    <3>2. Later(complete[i], ring.high) /\ ~Later(complete[i], rg.high)
      BY <1>3, <1>13, <3>1
    <3> QED
      BY <3>1, <3>2 DEF Passed
  <2> HIDE DEF P, Q
  <2>6. P \cap (lo .. hi) = {} /\ P \cup (lo .. hi) \in SUBSET Q
    BY <2>4, <2>5
  <2>7. Cardinality(P \cup (lo .. hi)) = Cardinality(P) + Cardinality(lo .. hi)
    <3>1. Cardinality(P \cup (lo .. hi)) = Cardinality(P) + Cardinality(lo .. hi) - Cardinality(P \cap (lo .. hi))
      BY <2>2, FS_Union
    <3>2. Cardinality(P \cap (lo .. hi)) = 0
      BY <2>6, FS_EmptySet
    <3>3. Cardinality(P) \in Nat /\ Cardinality(lo .. hi) \in Nat
      BY <2>2, FS_CardinalityType
    <3> QED
      BY <3>1, <3>2, <3>3
  <2>8. Cardinality(lo .. hi) = Len(new)
    <3>1. lo \in Int /\ hi \in Int
      BY <1>1
    <3>2. Cardinality(lo .. hi) = IF lo > hi THEN 0 ELSE hi - lo + 1
      BY <3>1, FS_Interval
    <3>3. Cardinality(F) = hi + 1 - lo
      BY <1>1, InOrderFact
    <3> QED
      BY <1>1, <1>2, <3>1, <3>2, <3>3
  <2>9. Cardinality(P \cup (lo .. hi)) <= Cardinality(Q) /\ IsFiniteSet(P \cup (lo .. hi))
    BY <2>2, <2>6, FS_Subset
  <2>10. Cardinality(P) \in Nat /\ Cardinality(Q) \in Nat /\ Cardinality(lo .. hi) \in Nat
    BY <2>2, FS_CardinalityType
  <2> QED
    BY <1>4, <1>5, <1>6, <2>7, <2>8, <2>9, <2>10 DEF P, Q
<1>20. /\ \A x \in D : \E i \in 1 .. Len(rg.entries) : x = rg.entries[i][1]
       /\ \A i \in 1 .. Len(rg.entries) : rg.entries[i][1] \in D
       /\ \A x \in E : \E i \in 1 .. Len(old) : x = old[i][1]
       /\ \A i \in 1 .. Len(old) : old[i][1] \in E
  <2>1. D = {rg.entries[i][1] : i \in 1 .. Len(rg.entries)}
    BY <1>9, ExecsOf
  <2>2. E = {old[i][1] : i \in 1 .. Len(old)}
    BY <1>5, ExecsOf
  <2> QED
    BY <2>1, <2>2
<1>21. \A i \in 1 .. Len(all) : all[i] \in Nat \X Nat /\ all[i][1] \in Nat
  BY <1>6 DEF RunIds
<1>22. \A x \in D : x \in E \/ x > ring.high[1]
  <2> SUFFICES ASSUME NEW x \in D PROVE x \in E \/ x > ring.high[1]
    OBVIOUS
  <2>1. PICK i \in 1 .. Len(rg.entries) : x = rg.entries[i][1]
    BY <1>20
  <2>2. i + k \in 1 .. Len(all) /\ x = all[i + k][1]
    BY <1>9, <2>1
  <2>3. CASE i + k \in 1 .. Len(old)
    BY <1>6, <1>20, <2>2, <2>3
  <2>4. CASE ~(i + k \in 1 .. Len(old))
    <3> DEFINE r == all[i + k]
    <3>1. Later(r, ring.high) /\ r \in Nat \X Nat
      BY <1>6, <1>7, <2>2, <2>4
    <3>2. CASE old = <<>>
      <4>1. ring.high = <<0, 0>>
        BY <3>2 DEF RingSound
      <4>2. x \in Nat \ {0}
        BY <1>6, <2>2 DEF RunIds
      <4> QED
        BY <4>1, <4>2
    <3>3. CASE old # <<>>
      <4>1. Len(old) \in 1 .. Len(old) /\ ring.high = old[Len(old)]
        BY <1>5, <3>3 DEF RingSound
      <4>2. ring.high[1] \in E
        BY <1>20, <4>1
      <4>3. x > ring.high[1] \/ x = ring.high[1]
        BY <2>2, <3>1, <1>5 DEF Later
      <4> QED
        BY <4>2, <4>3
    <3> QED
      BY <3>2, <3>3
  <2> QED
    BY <2>3, <2>4
<1>23. \A x \in D, y \in E : y > x => y \in D
  <2> SUFFICES ASSUME NEW x \in D, NEW y \in E, y > x PROVE y \in D
    OBVIOUS
  <2>1. PICK i \in 1 .. Len(rg.entries) : x = rg.entries[i][1]
    BY <1>20
  <2>2. PICK j \in 1 .. Len(old) : y = old[j][1]
    BY <1>20
  <2>3. i + k \in 1 .. Len(all) /\ x = all[i + k][1]
    BY <1>9, <2>1
  <2>4. j \in 1 .. Len(all) /\ y = all[j][1]
    BY <1>6, <2>2
  <2>5. ~(j <= i + k)
    <3>1. SUFFICES ASSUME j <= i + k PROVE FALSE
      OBVIOUS
    <3>2. all[j][1] <= all[i + k][1]
      BY <1>6, <1>8, <2>3, <2>4, <3>1, SortedOrder
    <3> QED
      BY <1>21, <2>3, <2>4, <3>2
  <2>6. j - k \in 1 .. Len(rg.entries) /\ (j - k) + k = j
    <3>1. k \in Nat /\ Len(all) \in Nat /\ Len(rg.entries) = Len(all) - k /\ i \in Nat /\ i >= 1 /\ j \in Nat /\ j <= Len(all)
      BY <1>6, <1>9, <2>4
    <3> QED
      BY <2>5, <3>1
  <2>7. rg.entries[j - k][1] = y
    BY <1>9, <2>4, <2>6
  <2> QED
    BY <1>20, <2>6, <2>7
<1> QED
  BY <1>15, <1>16, <1>17, <1>18, <1>19, <1>22, <1>23

RingExecs(rg) == Execs(ToSet(rg.entries))

\* The executions of the ring that a gate or a search would hold out.
HeldOut(rg) == Newest(HoldCount(RingExecs(rg)), RingExecs(rg))

\* What was approved shares no execution with the held out; what is live shares
\* none after the checkpoint's; and neither knows more than the ring has seen.
Unbiased(c, mark, rg) ==
  /\ \A x \in c.base \cup c.live : x <= rg.high[1]
  /\ c.base \cap HeldOut(rg) = {}
  /\ mark # 0 => \A x \in c.live \cap HeldOut(rg) : x <= mark

LearnRecs == [count : Nat, checkpoint : Nat, ckExec : Nat, lastGate : Nat]
Cals == [live : SUBSET Nat, base : SUBSET Nat, searched : Nat]

LearnInv ==
  /\ complete \in Seq(RunIds) /\ Sorted(complete) /\ pruned \in Nat
  /\ RingSound(ring) /\ ring.added <= Cardinality(Passed(ring.high))
  /\ rec \in LearnRecs /\ cal \in Cals
  /\ Unbiased(cal, rec.ckExec, ring)
  /\ rec.ckExec # 0 => rec.count >= Frozen
  /\ recounted = {} /\ peeked = {}

\* The last checkpoint is the greatest.
LEMMA FrozenIsLast == Frozen \in Checkpoints /\ Frozen \in Nat \ {0} /\ \A p \in Checkpoints : p \in Nat /\ p <= Frozen
<1>1. Checkpoints \in SUBSET Nat /\ Checkpoints # {} /\ IsFiniteSet(Checkpoints) /\ 0 \notin Checkpoints
  BY LearningAssumption
<1>2. Max(Checkpoints) \in Checkpoints /\ \A p \in Checkpoints : p <= Max(Checkpoints)
  BY <1>1, GreatestOf
<1> QED
  BY <1>1, <1>2 DEF Frozen

\* The executions of a sound ring are finitely many, none later than the mark's.
LEMMA RingExecsFact ==
  ASSUME NEW rg, RingSound(rg)
  PROVE  /\ RingExecs(rg) \in SUBSET (Nat \ {0}) /\ IsFiniteSet(RingExecs(rg)) /\ rg.high[1] \in Nat
         /\ RingExecs(rg) = {rg.entries[i][1] : i \in 1 .. Len(rg.entries)}
         /\ \A x \in RingExecs(rg) : x <= rg.high[1]
<1>1. rg.entries \in Seq(RunIds) /\ rg.high \in Nat \X Nat
      /\ \A i \in 1 .. Len(rg.entries) : rg.entries[i][1] <= rg.high[1]
  BY UpToMark
<1>2. /\ RingExecs(rg) = {rg.entries[i][1] : i \in 1 .. Len(rg.entries)}
      /\ IsFiniteSet(RingExecs(rg)) /\ RingExecs(rg) \in SUBSET (Nat \ {0})
  BY <1>1, ExecsOf DEF RingExecs
<1> QED
  BY <1>1, <1>2

\* What a fit at a checkpoint uses is of the ring; at the last checkpoint, none
\* of it is later than the execution the checkpoint is said to end with.
LEMMA CheckpointFact ==
  ASSUME NEW rg, RingSound(rg), rg.entries # <<>>, NEW point \in Nat \ {0}
  PROVE  /\ Execs(ToSet(Used(rg, point))) \in SUBSET RingExecs(rg)
         /\ CheckpointExec(rg) \in Nat \ {0}
         /\ point = Frozen => \A x \in Execs(ToSet(Used(rg, point))) : x <= CheckpointExec(rg)
<1> DEFINE es == rg.entries
           used == Used(rg, point)
<1>a. PICK left : left = point + Len(es)
  OBVIOUS
<1>b. PICK n : n = IF left > rg.added THEN left - rg.added ELSE 1
  OBVIOUS
<1>c. PICK k : k = IF n > Len(es) THEN Len(es) ELSE n
  OBVIOUS
<1>1. es \in Seq(RunIds) /\ Sorted(es) /\ Len(es) \in Nat /\ Len(es) >= 1 /\ rg.added \in Nat
  BY DEF RingSound, Rings
<1>2. k \in Nat /\ k >= 1 /\ k <= Len(es)
  BY <1>a, <1>b, <1>c, <1>1
<1>3. used = SubSeq(es, 1, k)
  BY <1>a, <1>b, <1>c DEF Used
<1> HIDE DEF es, used
<1>4. rg.added = Len(es) /\ Len(es) >= point => k = point
  BY <1>a, <1>b, <1>c, <1>1
<1>5. used \in Seq(RunIds) /\ Len(used) = k /\ \A i \in 1 .. k : used[i] = es[i]
  BY <1>1, <1>2, <1>3, SubSeqProperties
<1>6. \A x \in Execs(ToSet(used)) : \E i \in 1 .. k : x = es[i][1]
  <2>1. Execs(ToSet(used)) = {used[i][1] : i \in 1 .. Len(used)}
    BY <1>5, ExecsOf
  <2> QED
    BY <1>5, <2>1
<1>7. RingExecs(rg) = {es[i][1] : i \in 1 .. Len(es)} /\ IsFiniteSet(RingExecs(rg)) /\ RingExecs(rg) \in SUBSET (Nat \ {0})
  BY RingExecsFact DEF es
<1>8. \A i \in 1 .. Len(es) : es[i][1] \in RingExecs(rg) /\ es[i][1] \in Nat \ {0}
  BY <1>7
<1>9. Execs(ToSet(used)) \in SUBSET RingExecs(rg)
  BY <1>2, <1>6, <1>8
<1>10. Max(RingExecs(rg)) \in RingExecs(rg) /\ \A x \in RingExecs(rg) : x <= Max(RingExecs(rg))
  <2>1. RingExecs(rg) # {} /\ RingExecs(rg) \in SUBSET Nat
    BY <1>1, <1>7, <1>8
  <2> QED
    BY <1>7, <2>1, GreatestOf
<1>11. CheckpointExec(rg) = IF rg.added = Len(es) /\ Len(es) >= Frozen THEN es[Frozen][1] ELSE Max(RingExecs(rg))
  BY DEF CheckpointExec, es, RingExecs
<1>12. Frozen \in Nat /\ Frozen >= 1
  BY FrozenIsLast
<1>13. CASE rg.added = Len(es) /\ Len(es) >= Frozen
  <2>1. CheckpointExec(rg) = es[Frozen][1] /\ Frozen \in 1 .. Len(es)
    BY <1>1, <1>11, <1>12, <1>13
  <2>2. \A i \in 1 .. Frozen : es[i][1] <= es[Frozen][1]
    BY <1>1, <2>1, SortedOrder
  <2>3. point = Frozen => \A x \in Execs(ToSet(used)) : x <= CheckpointExec(rg)
    BY <1>4, <1>6, <1>13, <2>1, <2>2
  <2> QED
    BY <1>8, <1>9, <2>1, <2>3 DEF used
<1>14. CASE ~(rg.added = Len(es) /\ Len(es) >= Frozen)
  <2>1. CheckpointExec(rg) = Max(RingExecs(rg))
    BY <1>11, <1>14
  <2> QED
    BY <1>7, <1>9, <1>10, <2>1 DEF used
<1> QED
  BY <1>13, <1>14

\* What was unbiased for the ring is unbiased for the ring with the new runs.
LEMMA UnbiasedLater ==
  ASSUME LearnInv, NEW runs \in Histories, NEW rg, rg = Ringed(runs)
  PROVE  Unbiased(cal, rec.ckExec, rg)
<1> DEFINE E == RingExecs(ring)
           D == RingExecs(rg)
           h == ring.high[1]
<1>1. complete \in Seq(RunIds) /\ Sorted(complete) /\ pruned \in Nat /\ RingSound(ring)
      /\ ring.added <= Cardinality(Passed(ring.high)) /\ Unbiased(cal, rec.ckExec, ring) /\ cal \in Cals
  BY DEF LearnInv
<1>2. RingSound(rg) /\ h <= rg.high[1]
  BY <1>1, RingedFact
<1>3. /\ \A x \in D : x \in E \/ x > h
      /\ \A x \in D, y \in E : y > x => y \in D
  BY <1>1, RingedFact DEF RingExecs
<1>4. /\ E \in SUBSET (Nat \ {0}) /\ IsFiniteSet(E) /\ h \in Nat /\ \A x \in E : x <= h
      /\ D \in SUBSET (Nat \ {0}) /\ IsFiniteSet(D) /\ rg.high[1] \in Nat
  BY <1>1, <1>2, RingExecsFact
<1>5. \A x \in HeldOut(rg) : x > h \/ x \in HeldOut(ring)
  <2>1. E \in SUBSET Nat /\ D \in SUBSET Nat
    BY <1>4
  <2> HIDE DEF E, D, h
  <2>2. \A x \in Newest(HoldCount(D), D) : x > h \/ x \in Newest(HoldCount(E), E)
    BY <1>3, <1>4, <2>1, HeldGrows
  <2> QED
    BY <2>2 DEF HeldOut, E, D
<1>6. \A x \in cal.base \cup cal.live : x \in Nat /\ x <= h
  BY <1>1 DEF Unbiased, Cals
<1>7. \A x \in cal.base \cup cal.live : x <= rg.high[1] /\ (x \in HeldOut(rg) => x \in HeldOut(ring))
  BY <1>2, <1>4, <1>5, <1>6
<1> QED
  BY <1>1, <1>7 DEF Unbiased

\* A gate that is due holds out what the invariant says: the newest executions,
\* all after the checkpoint's.
LEMMA GateHolds ==
  ASSUME NEW rg, RingSound(rg), NEW mark \in Nat, NEW r, GateDue(Partition(ToSet(rg.entries), mark), r)
  PROVE  LET split == Partition(ToSet(rg.entries), mark)
         IN  /\ mark # 0 /\ split.hold = HeldOut(rg) /\ split.train = RingExecs(rg) \ HeldOut(rg)
             /\ \A x \in split.hold : x > mark
             /\ Max(split.hold) \in Nat
<1> DEFINE D == RingExecs(rg)
           G == {x \in D : x > mark}
           n == HoldCount(D)
           split == Partition(ToSet(rg.entries), mark)
<1>1. split = [hold |-> Newest(n, G), train |-> D \ Newest(n, G),
               ok |-> mark # 0 /\ Cardinality(G) >= n /\ Cardinality(D \ Newest(n, G)) >= TrainMin]
  BY DEF Partition, RingExecs
<1>2. mark # 0 /\ Cardinality(G) >= n
  <2>1. split.ok
    BY DEF GateDue
  <2> HIDE DEF split
  <2> QED
    BY <1>1, <2>1
<1>3. D \in SUBSET (Nat \ {0}) /\ IsFiniteSet(D)
  BY RingExecsFact
<1> HIDE DEF D
<1>4. n \in Nat /\ n >= 1
  <2>1. Cardinality(D) <= Cardinality(D) + 0
    BY <1>3, FS_CardinalityType
  <2> QED
    BY <1>3, <2>1, HoldCountFact
<1> HIDE DEF n
<1>5. Newest(n, G) = Newest(n, D)
  <2>1. D \in SUBSET Nat
    BY <1>3
  <2> QED
    BY <1>2, <1>3, <1>4, <2>1, EligibleHeld
<1>6. Newest(n, D) = HeldOut(rg)
  BY DEF HeldOut, D, n
<1>7. G \in SUBSET Nat /\ IsFiniteSet(G) /\ G # {}
  <2>1. G \in SUBSET D /\ G \in SUBSET Nat
    BY <1>3
  <2>2. IsFiniteSet(G)
    BY <1>3, <2>1, FS_Subset
  <2>3. Cardinality(G) # 0
    BY <1>2, <1>4
  <2> QED
    BY <2>1, <2>2, <2>3, FS_EmptySet
<1>8. Max(Newest(n, G)) \in Nat
  BY <1>4, <1>7, NewestHasGreatest
<1>9. \A x \in Newest(n, G) : x > mark
  BY DEF Newest
<1> QED
  BY <1>1, <1>2, <1>5, <1>6, <1>8, <1>9 DEF D

\* A mark reached by the ring's count means that the ring is not empty.
LEMMA CountedRing ==
  ASSUME complete \in Seq(RunIds), NEW rg, RingSound(rg), rg.added <= Cardinality(Passed(rg.high)), rg.added >= 1
  PROVE  rg.entries # <<>>
<1>1. SUFFICES ASSUME rg.entries = <<>> PROVE FALSE
  OBVIOUS
<1>2. rg.high = <<0, 0>> /\ rg.added \in Nat
  BY <1>1 DEF RingSound, Rings
<1>3. \A i \in 1 .. Len(complete) : Later(complete[i], <<0, 0>>)
  <2>1. \A i \in 1 .. Len(complete) : complete[i] \in RunIds
    OBVIOUS
  <2> QED
    BY <2>1 DEF RunIds, Later
<1>4. Passed(rg.high) = {}
  BY <1>2, <1>3 DEF Passed
<1>5. Cardinality(Passed(rg.high)) = 0
  BY <1>4, FS_EmptySet
<1> QED
  BY <1>2, <1>5

\* One update: whatever is fitted, approved, put back or replaced, the held out
\* of the ring stay unseen.
LEMMA UpdateStep ==
  ASSUME LearnInv, NEW runs \in Histories, NEW force, NEW files, NEW found, NEW better,
         Updated(runs, force, files, found, better), UNCHANGED <<complete, pruned, resets>>
  PROVE  LearnInv'
<1> DEFINE rg == Ringed(runs)
           entries == ToSet(rg.entries)
           due == rg.added > rec.count /\ files # "suspended"
           crossed == {p \in Checkpoints : rec.count < p /\ p <= rg.added}
           point == Max(crossed)
           r1 == IF due THEN [rec EXCEPT !.count = rg.added] ELSE rec
           fitted == due /\ crossed # {} /\ found = "good"
           r2 == IF fitted
                 THEN [r1 EXCEPT !.checkpoint = point, !.ckExec = IF point = Frozen THEN CheckpointExec(rg) ELSE @]
                 ELSE r1
           c2 == IF fitted THEN [cal EXCEPT !.live = Execs(ToSet(Used(rg, point)))] ELSE cal
           split == Partition(entries, rec.ckExec)
           gated == due /\ crossed = {} /\ rg.added > Frozen /\ files = "usable" /\ GateDue(split, r2)
           c3 == IF gated THEN Gated(split, runs, c2, found) ELSE c2
           r3 == IF gated THEN [r2 EXCEPT !.lastGate = Max(split.hold)] ELSE r2
           searched == files = "usable" /\ ~(gated /\ found \in {"good", "bad"}) /\ SearchDue(rg, r3, c3, force)
           sp == SearchSplit(entries)
           won == searched /\ better /\ Decidable(sp.hold)
           c4 == IF ~searched THEN c3
                 ELSE IF won THEN [live |-> sp.train, base |-> sp.train, searched |-> r3.count]
                 ELSE [c3 EXCEPT !.searched = r3.count]
           D == RingExecs(rg)
           H == HeldOut(rg)
<1>1. /\ ring' = rg /\ rec' = r3 /\ cal' = c4
      /\ recounted' = recounted \cup {r \in Fresh(runs) : ~Later(r, ring.high)}
      /\ peeked' = peeked \cup (IF gated THEN split.hold \cap (Training(split, runs) \cup cal.base \cup cal.live) ELSE {})
                         \cup (IF won THEN sp.hold \cap (sp.train \cup cal.base) ELSE {})
  BY DEF Updated
<1>2. /\ complete \in Seq(RunIds) /\ Sorted(complete) /\ pruned \in Nat /\ RingSound(ring)
      /\ ring.added <= Cardinality(Passed(ring.high)) /\ rec \in LearnRecs /\ cal \in Cals
      /\ rec.ckExec # 0 => rec.count >= Frozen
      /\ recounted = {} /\ peeked = {}
  BY DEF LearnInv
<1>3. /\ RingSound(rg) /\ rg.added <= Cardinality(Passed(rg.high))
      /\ \A r \in runs : r[1] <= rg.high[1]
  <2> HIDE DEF rg
  <2>1. rg = Ringed(runs)
    BY DEF rg
  <2> QED
    BY <1>2, <2>1, RingedFact
<1>4. Unbiased(cal, rec.ckExec, rg)
  BY UnbiasedLater
<1>5. /\ D \in SUBSET (Nat \ {0}) /\ IsFiniteSet(D) /\ rg.high[1] \in Nat /\ \A x \in D : x <= rg.high[1]
      /\ rg.added \in Nat
  BY <1>3, RingExecsFact DEF RingSound, Rings
<1>6. rec.count \in Nat /\ rec.ckExec \in Nat /\ cal.base \in SUBSET Nat /\ cal.live \in SUBSET Nat /\ cal.searched \in Nat
  BY <1>2 DEF LearnRecs, Cals
<1>7. \A r \in Fresh(runs) : Later(r, ring.high)
  BY <1>2, FreshPiece
<1>8. \A x \in Execs(runs) : x \in Nat /\ x <= rg.high[1]
  <2>1. \A r \in runs : r \in RunIds
    BY <1>2, FreshPiece
  <2> QED
    BY <1>3, <2>1 DEF Execs, RunIds
<1>9. H \in SUBSET D
  BY DEF HeldOut, Newest
<1>10. Frozen \in Nat \ {0} /\ \A p \in Checkpoints : p \in Nat \ {0} /\ p <= Frozen
  BY FrozenIsLast, LearningAssumption
<1> HIDE DEF rg, D, H
<1>11. crossed # {} => point \in crossed /\ point \in Nat \ {0}
  <2>1. crossed \in SUBSET Checkpoints /\ crossed \in SUBSET Nat /\ IsFiniteSet(Checkpoints)
    BY <1>10, LearningAssumption
  <2>2. IsFiniteSet(crossed)
    BY <2>1, FS_Subset
  <2> HIDE DEF crossed
  <2>3. crossed # {} => Max(crossed) \in crossed
    BY <2>1, <2>2, GreatestOf
  <2> QED
    BY <1>10, <2>1, <2>3
<1>12. \A p \in crossed : p <= rg.added /\ rec.count < p /\ p <= Frozen
  BY <1>10
<1> HIDE DEF crossed, point, due
<1>13. r1 \in LearnRecs /\ r1.ckExec = rec.ckExec /\ r1.count >= rec.count /\ (due => r1.count = rg.added)
       /\ r1.count \in Nat
  <2>1. CASE due
    <3>1. r1 = [rec EXCEPT !.count = rg.added] /\ rg.added > rec.count
      BY <2>1 DEF due
    <3> QED
      BY <1>2, <1>5, <1>6, <3>1 DEF LearnRecs
  <2>2. CASE ~due
    BY <1>2, <1>6, <2>2 DEF LearnRecs
  <2> QED
    BY <2>1, <2>2
<1> HIDE DEF r1
<1>14. /\ r2 \in LearnRecs /\ c2 \in Cals /\ Unbiased(c2, r2.ckExec, rg)
       /\ r2.ckExec # 0 => r2.count >= Frozen
       /\ ~fitted => c2 = cal /\ r2.ckExec = rec.ckExec
  <2>1. CASE fitted
    <3> DEFINE L == Execs(ToSet(Used(rg, point)))
               k == IF point = Frozen THEN CheckpointExec(rg) ELSE r1.ckExec
    <3>1. point \in crossed /\ point \in Nat \ {0} /\ due
      BY <1>11, <2>1
    <3>2. rec.ckExec = 0
      BY <1>2, <1>6, <1>10, <1>12, <3>1
    <3>3. rg.entries # <<>>
      <4>1. rg.added >= 1
        BY <1>5, <1>12, <3>1
      <4> QED
        BY <1>2, <1>3, <4>1, CountedRing
    <3>4. L \in SUBSET D /\ CheckpointExec(rg) \in Nat \ {0} /\ (point = Frozen => \A x \in L : x <= CheckpointExec(rg))
      BY <1>3, <3>1, <3>3, CheckpointFact DEF D
    <3> HIDE DEF L
    <3>5. r2 = [r1 EXCEPT !.checkpoint = point, !.ckExec = k]
      BY <2>1
    <3>6. c2 = [cal EXCEPT !.live = L]
      BY <2>1 DEF L
    <3>7. k \in Nat /\ (k # 0 => point = Frozen /\ k = CheckpointExec(rg))
      BY <1>13, <3>2, <3>4
    <3> HIDE DEF k, r2, c2
    <3>8. r2 \in LearnRecs /\ r2.ckExec = k /\ r2.count = r1.count
      BY <1>13, <3>1, <3>5, <3>7 DEF LearnRecs
    <3>9. c2 \in Cals /\ c2.live = L /\ c2.base = cal.base
      BY <1>2, <1>5, <3>4, <3>6 DEF Cals
    <3>10. Unbiased(c2, k, rg)
      BY <1>4, <1>5, <3>4, <3>7, <3>9 DEF Unbiased
    <3>11. k # 0 => r2.count >= Frozen
      BY <1>12, <1>13, <3>1, <3>7, <3>8
    <3> QED
      BY <2>1, <3>8, <3>9, <3>10, <3>11
  <2>2. CASE ~fitted
    <3>1. r2 = r1 /\ c2 = cal
      BY <2>2
    <3> HIDE DEF r2, c2
    <3>2. r2.ckExec # 0 => r2.count >= Frozen
      BY <1>2, <1>6, <1>10, <1>13, <3>1
    <3> QED
      BY <1>2, <1>4, <1>13, <3>1, <3>2
  <2> QED
    BY <2>1, <2>2
<1>15. gated => ~fitted
  OBVIOUS
<1>16. gated => /\ rec.ckExec # 0 /\ split.hold = H /\ split.train = D \ H
                /\ \A x \in split.hold : x > rec.ckExec
                /\ Max(split.hold) \in Nat
  BY <1>3, <1>6, GateHolds DEF D, H
<1> HIDE DEF r2, c2, fitted, split
<1>17. ASSUME gated
       PROVE  /\ Training(split, runs) \in SUBSET Nat /\ Training(split, runs) \cap H = {}
              /\ \A x \in Training(split, runs) : x <= rg.high[1]
              /\ split.hold \cap (Training(split, runs) \cup cal.base \cup cal.live) = {}
  <2>1. Training(split, runs) = (D \ H) \cup (Execs(runs) \ H)
    BY <1>16, <1>17 DEF Training
  <2>2. \A x \in Training(split, runs) : x \in Nat /\ x <= rg.high[1] /\ x \notin H
    BY <1>5, <1>8, <2>1
  <2>3. cal.base \cap H = {}
    BY <1>4 DEF Unbiased, H
  <2>4. \A x \in cal.live \cap H : FALSE
    <3> SUFFICES ASSUME NEW x \in cal.live \cap H PROVE FALSE
      OBVIOUS
    <3>1. x <= rec.ckExec
      BY <1>4, <1>16, <1>17 DEF Unbiased, H
    <3>2. x > rec.ckExec /\ x \in Nat
      BY <1>6, <1>16, <1>17
    <3> QED
      BY <1>6, <3>1, <3>2
  <2> QED
    BY <1>16, <1>17, <2>2, <2>3, <2>4
<1>18. /\ r3 \in LearnRecs /\ r3.ckExec = r2.ckExec /\ r3.count = r2.count /\ r3.count \in Nat
       /\ c3 \in Cals /\ Unbiased(c3, r3.ckExec, rg)
  <2>1. CASE gated
    <3>1. r3 = [r2 EXCEPT !.lastGate = Max(split.hold)] /\ c3 = Gated(split, runs, cal, found)
      BY <1>14, <1>15, <2>1
    <3>2. r3 \in LearnRecs /\ r3.ckExec = r2.ckExec /\ r3.count = r2.count /\ r3.count \in Nat
      BY <1>14, <1>16, <2>1, <3>1 DEF LearnRecs
    <3>3. Unbiased(cal, r3.ckExec, rg)
      BY <1>14, <1>15, <2>1, <3>2
    <3> DEFINE T == Training(split, runs)
    <3>4. T \in SUBSET Nat /\ T \cap H = {} /\ \A x \in T : x <= rg.high[1]
      BY <1>17, <2>1
    <3>5. \/ c3 = [cal EXCEPT !.live = T, !.base = T]
          \/ c3 = [cal EXCEPT !.live = cal.base]
          \/ c3 = cal
      BY <3>1 DEF Gated
    <3> HIDE DEF T, c3
    <3>6. \/ c3 \in Cals /\ c3.live = T /\ c3.base = T
          \/ c3 \in Cals /\ c3.live = cal.base /\ c3.base = cal.base
          \/ c3 = cal
      BY <1>2, <3>4, <3>5 DEF Cals
    <3>7. CASE c3 \in Cals /\ c3.live = T /\ c3.base = T
      BY <3>2, <3>4, <3>7 DEF Unbiased, H
    <3>8. CASE c3 \in Cals /\ c3.live = cal.base /\ c3.base = cal.base
      BY <3>2, <3>3, <3>8 DEF Unbiased
    <3>9. CASE c3 = cal
      BY <1>2, <3>2, <3>3, <3>9
    <3> QED
      BY <3>6, <3>7, <3>8, <3>9
  <2>2. CASE ~gated
    BY <1>14, <2>2 DEF LearnRecs
  <2> QED
    BY <2>1, <2>2
<1>19. sp.hold = H /\ sp.train = D \ H
  BY DEF SearchSplit, H, HeldOut, D, RingExecs
<1> HIDE DEF sp, c3, r3
<1>20. c4 \in Cals /\ Unbiased(c4, r3.ckExec, rg)
  <2>1. \/ c4 = c3
        \/ c4 = [live |-> D \ H, base |-> D \ H, searched |-> r3.count]
        \/ c4 = [c3 EXCEPT !.searched = r3.count]
    BY <1>19
  <2> HIDE DEF c4
  <2>2. CASE c4 = c3
    BY <1>18, <2>2
  <2>3. CASE c4 = [live |-> D \ H, base |-> D \ H, searched |-> r3.count]
    <3>1. c4.live = D \ H /\ c4.base = D \ H /\ c4 \in Cals
      BY <1>5, <1>18, <2>3 DEF Cals
    <3> QED
      BY <1>5, <3>1 DEF Unbiased, H
  <2>4. CASE c4 = [c3 EXCEPT !.searched = r3.count]
    <3>1. c4.live = c3.live /\ c4.base = c3.base /\ c4 \in Cals
      BY <1>18, <2>4 DEF Cals
    <3> QED
      BY <1>18, <3>1 DEF Unbiased
  <2> QED
    BY <2>1, <2>2, <2>3, <2>4
<1>21. peeked' = {}
  <2>1. cal.base \cap H = {}
    BY <1>4 DEF Unbiased, H
  <2>2. sp.hold \cap (sp.train \cup cal.base) = {}
    BY <1>19, <2>1
  <2> HIDE DEF gated, won
  <2> QED
    BY <1>1, <1>2, <1>17, <2>2
<1>22. recounted' = {}
  BY <1>1, <1>2, <1>7
<1>23. r3.ckExec # 0 => r3.count >= Frozen
  BY <1>14, <1>18
<1> HIDE DEF c4, won, searched, gated
<1>24. Passed(rg.high) = Passed(ring.high)'
  BY <1>1 DEF Passed
<1>25. complete' = complete /\ pruned' = pruned /\ ring' = rg /\ rec' = r3 /\ cal' = c4
  BY <1>1
<1> QED
  BY <1>2, <1>3, <1>18, <1>20, <1>21, <1>22, <1>23, <1>24, <1>25 DEF LearnInv

\* A run completes: what has been counted was passed by the mark before.
LEMMA CompleteStep ==
  ASSUME LearnInv, NEW another, Complete(another)
  PROVE  LearnInv'
<1> DEFINE r == IF another THEN <<IF complete = <<>> THEN 1 ELSE Last(complete)[1] + 1, 1>>
                ELSE <<Last(complete)[1], Last(complete)[2] + 1>>
           n == Len(complete)
<1>1. complete' = Append(complete, r) /\ (complete = <<>> => another)
      /\ UNCHANGED <<pruned, ring, rec, cal, recounted, peeked>>
  BY DEF Complete
<1>2. complete \in Seq(RunIds) /\ Sorted(complete) /\ n \in Nat
  BY DEF LearnInv
<1>3. r \in RunIds /\ \A i \in 1 .. n : Later(r, complete[i])
  <2>1. CASE complete = <<>>
    <3>1. n = 0 /\ r = <<1, 1>>
      BY <1>1, <2>1
    <3> QED
      BY <3>1 DEF RunIds
  <2>2. CASE complete # <<>>
    <3> DEFINE l == complete[n]
    <3>1. n \in 1 .. n /\ Last(complete) = l
      BY <1>2, <2>2 DEF Last
    <3>2. l \in RunIds /\ l[1] \in Nat \ {0} /\ l[2] \in Nat \ {0}
      BY <1>2, <3>1 DEF RunIds
    <3>3. r = <<l[1] + 1, 1>> \/ r = <<l[1], l[2] + 1>>
      BY <2>2, <3>1
    <3> HIDE DEF r, l
    <3>4. r \in RunIds /\ Later(r, l)
      BY <3>2, <3>3 DEF RunIds, Later
    <3>5. r \in Nat \X Nat /\ l \in Nat \X Nat
      BY <3>2, <3>4 DEF RunIds
    <3>6. \A i \in 1 .. n : complete[i] \in Nat \X Nat /\ (i = n \/ Later(l, complete[i]))
      BY <1>2, <3>1, SortedOrder DEF Sorted, l
    <3> QED
      BY <3>4, <3>5, <3>6, LaterOrder DEF l
  <2> QED
    BY <2>1, <2>2
<1> HIDE DEF r
<1>4. complete' \in Seq(RunIds) /\ Len(complete') = n + 1 /\ complete'[n + 1] = r
      /\ \A i \in 1 .. n : complete'[i] = complete[i]
  BY <1>1, <1>2, <1>3
<1>5. Sorted(complete')
  <2> SUFFICES ASSUME NEW i \in 1 .. Len(complete'), NEW j \in 1 .. Len(complete'), i < j
               PROVE  Later(complete'[j], complete'[i])
    BY DEF Sorted
  <2>1. i \in 1 .. n /\ (j \in 1 .. n \/ j = n + 1)
    BY <1>2, <1>4
  <2> QED
    BY <1>2, <1>3, <1>4, <2>1 DEF Sorted
<1>6. ring.added <= Cardinality(Passed(ring.high)')
  <2>1. Passed(ring.high) \in SUBSET (1 .. n) /\ Passed(ring.high)' \in SUBSET (1 .. n + 1)
    BY <1>4 DEF Passed
  <2>2. \A i \in Passed(ring.high) : i \in Passed(ring.high)'
    <3> SUFFICES ASSUME NEW i \in Passed(ring.high) PROVE i \in Passed(ring.high)'
      OBVIOUS
    <3>1. i \in 1 .. n /\ ~Later(complete[i], ring.high)
      BY DEF Passed
    <3>2. i \in 1 .. Len(complete') /\ ~Later(complete'[i], ring'.high)
      BY <1>1, <1>2, <1>4, <3>1
    <3> QED
      BY <3>2 DEF Passed
  <2> DEFINE P == Passed(ring.high)
             Q == Passed(ring.high)'
  <2> HIDE DEF P, Q
  <2>3. IsFiniteSet(1 .. n) /\ IsFiniteSet(1 .. n + 1)
    BY <1>2, FS_Interval
  <2>4. IsFiniteSet(P) /\ IsFiniteSet(Q)
    BY <2>1, <2>3, FS_Subset DEF P, Q
  <2>5. P \in SUBSET Q
    BY <2>2 DEF P, Q
  <2>6. Cardinality(P) <= Cardinality(Q) /\ Cardinality(P) \in Nat /\ Cardinality(Q) \in Nat
    BY <2>4, <2>5, FS_Subset, FS_CardinalityType
  <2>7. ring.added <= Cardinality(P) /\ ring.added \in Nat
    BY DEF LearnInv, P, RingSound, Rings
  <2>8. ring.added <= Cardinality(Q)
    BY <2>6, <2>7
  <2> QED
    BY <2>8 DEF Q
<1> QED
  BY <1>1, <1>4, <1>5, <1>6 DEF LearnInv

LEMMA LearnInvInit == LearnInit => LearnInv
<1> SUFFICES ASSUME LearnInit PROVE LearnInv
  OBVIOUS
<1>1. /\ complete = <<>> /\ pruned = 0 /\ ring = [added |-> 0, high |-> <<0, 0>>, entries |-> <<>>]
      /\ rec = NoRec /\ cal = NoCal /\ recounted = {} /\ peeked = {}
  BY DEF LearnInit
<1>2. complete \in Seq(RunIds) /\ Sorted(complete) /\ pruned \in Nat
  BY <1>1 DEF Sorted
<1>3. RingSound(ring)
  BY <1>1 DEF RingSound, Rings, Sorted
<1>4. Passed(ring.high) = {} /\ ring.added = 0
  BY <1>1 DEF Passed
<1>5. ring.added <= Cardinality(Passed(ring.high))
  BY <1>4, FS_EmptySet
<1>6. rec \in LearnRecs /\ cal \in Cals /\ rec.ckExec = 0
  BY <1>1 DEF LearnRecs, Cals, NoRec, NoCal
<1>7. Unbiased(cal, rec.ckExec, ring)
  BY <1>1, <1>6 DEF Unbiased, NoCal
<1> QED
  BY <1>1, <1>2, <1>3, <1>5, <1>6, <1>7 DEF LearnInv

LEMMA LearnInvNext == LearnInv /\ [LearnNext]_learnVars => LearnInv'
<1> SUFFICES ASSUME LearnInv, [LearnNext]_learnVars PROVE LearnInv'
  OBVIOUS
<1>1. ASSUME NEW runs \in Histories, NEW force \in BOOLEAN, Update(runs, force) PROVE LearnInv'
  <2>1. PICK files \in FileStates, found \in Findings(runs), better \in BOOLEAN :
          Updated(runs, force, files, found, better)
    BY <1>1 DEF Update
  <2>2. UNCHANGED <<complete, pruned, resets>>
    BY <1>1 DEF Update
  <2> QED
    BY <2>1, <2>2, UpdateStep
<1>2. ASSUME NEW another \in BOOLEAN, Complete(another) PROVE LearnInv'
  BY <1>2, CompleteStep
<1>3. CASE Prune
  <2>1. pruned' = pruned + 1 /\ UNCHANGED <<complete, ring, rec, cal, recounted, peeked>>
    BY <1>3 DEF Prune
  <2>2. Passed(ring.high)' = Passed(ring.high)
    BY <2>1 DEF Passed
  <2> QED
    BY <2>1, <2>2 DEF LearnInv
<1>4. CASE Reset
  <2>1. rec' = NoRec /\ cal' = NoCal /\ UNCHANGED <<complete, pruned, ring, recounted, peeked>>
    BY <1>4 DEF Reset
  <2>2. Passed(ring.high)' = Passed(ring.high)
    BY <2>1 DEF Passed
  <2>3. rec' \in LearnRecs /\ cal' \in Cals /\ rec'.ckExec = 0 /\ cal'.base = {} /\ cal'.live = {}
    BY <2>1 DEF LearnRecs, Cals, NoRec, NoCal
  <2>4. Unbiased(cal', rec'.ckExec, ring')
    BY <2>3 DEF Unbiased
  <2> QED
    BY <2>1, <2>2, <2>3, <2>4 DEF LearnInv
<1>5. CASE UNCHANGED learnVars
  <2>1. UNCHANGED <<complete, pruned, ring, rec, cal, recounted, peeked>>
    BY <1>5 DEF learnVars
  <2>2. Passed(ring.high)' = Passed(ring.high)
    BY <2>1 DEF Passed
  <2> QED
    BY <2>1, <2>2 DEF LearnInv
<1> QED
  BY <1>1, <1>2, <1>3, <1>4, <1>5 DEF LearnNext

\* The ring, the counts and the calibrations fit together in every state
\* (KnobUpdateEngine._update, services/knob_updater.py).
THEOREM LearnInvThm == LearnSpec => []LearnInv
<1> QED
  BY LearnInvInit, LearnInvNext, PTL DEF LearnSpec

\* Every completed run is counted once, and no verdict of a gate or of a search
\* rests on a run that a compared calibration was fitted on
\* (services/knob_updater.py with jobs/timing/gate.py).
THEOREM LearnedFairlyThm == LearnSpec => []LearnedFairly
<1>1. LearnInv => LearnedFairly
  <2> SUFFICES ASSUME LearnInv PROVE LearnedFairly
    OBVIOUS
  <2>1. ring.added <= Cardinality({i \in 1 .. Len(complete) : ~Later(complete[i], ring.high)})
    BY DEF LearnInv, Passed
  <2> QED
    BY <2>1 DEF LearnInv, LearnedFairly, CountedOnce, HoldoutUnseen
<1> QED
  BY <1>1, LearnInvThm, PTL
=============================================================================
