-------------------------- MODULE ForecastPublisher --------------------------
(* The forecasts of one queue entry: the events of its job fed to the         *)
(* forecaster (jobs/timing/forecast.py) and the publisher's choice of what    *)
(* goes out and of the share a bar may not fall below                         *)
(* (services/forecast_publisher.py), with parks and a cancel from requests.   *)
(*                                                                            *)
(* Time is whole units; what the estimates come to is a choice of ends.  A    *)
(* share is in Whole parts, which every length of a span divides.             *)
EXTENDS Naturals, FiniteSets

CONSTANTS
  MaxTime,   \* bound: the clock
  Reach,     \* bound: how far past the clock an end may be
  Runs,      \* runs of the job
  Units,     \* steps of the stage that counts
  Interval,  \* publish_interval_seconds
  SameEnd,   \* same_end_seconds
  Whole,     \* a multiple of every length up to MaxTime + Reach
  MaxParks,  \* bound: park changes
  MaxFails   \* bound: exceptions in the model

ASSUME PublisherAssumption ==
  /\ Runs \in Nat \ {0} /\ Units \in Nat \ {0}
  /\ MaxTime \in Nat /\ Reach \in Nat /\ Interval \in Nat /\ SameEnd \in Nat /\ Whole \in Nat
  /\ \A n \in 1 .. MaxTime + Reach : Whole % n = 0

VARIABLES
  now,
  fc,      \* the forecaster: where the job is
  last, parking, parkingAtLast, lastReading, runFloor, jobFloor, over,  \* the publisher
  shown,   \* the forecast a front end has
  request, \* a park change that has read _done and waits for the lock
  parks, fails

pubVars == <<last, parking, parkingAtLast, lastReading, runFloor, jobFloor, over, shown>>
publisherVars == <<now, fc, pubVars, request, parks, fails>>

None == [none |-> TRUE]
NoSpan == [start |-> 0, end |-> 0, floor |-> 0, there |-> FALSE]
SpanOf(start, end) == [start |-> start, end |-> end, floor |-> 0, there |-> TRUE]
Never == MaxTime + 1

------------------------------------------------------------------------------
(* The forecaster.                                                            *)

RunsLeft == fc.run < Runs

\* _estimate: from the history of such runs, or (_live_only) from the pace of two
\* readings in the stage of steps.
Estimated(f) == f.priced \/ (f.stage = "denoise" /\ f.units >= 2)

\* _in_run: the run in progress, and the job (the run alone when it will park;
\* none when a later run has no history).
InRun(f, park, t) ==
  LET line == [none |-> FALSE, stage |-> f.stage, units |-> f.units, run |-> NoSpan, job |-> NoSpan]
  IN IF ~Estimated(f) THEN {line} ELSE
     UNION {LET run == SpanOf(f.origin, e)
                jobs == IF park THEN {run}
                        ELSE IF f.run = Runs THEN {SpanOf(f.started, e)}
                        ELSE {NoSpan} \cup {SpanOf(f.started, e2) : e2 \in e .. t + Reach}
            IN {[line EXCEPT !.run = run, !.job = j] : j \in jobs} : e \in t .. t + Reach}

\* _between_runs: no run, and no job once it is the last or it will park.
BetweenRuns(f, park, t) ==
  LET line == [none |-> FALSE, stage |-> "none", units |-> 0, run |-> NoSpan, job |-> NoSpan]
  IN  {line} \cup IF f.run < Runs /\ ~park THEN {[line EXCEPT !.job = SpanOf(f.started, e)] : e \in t .. t + Reach} ELSE {}

\* forecast: what may be expected at t.
Forecasts(f, park, t) ==
  CASE f.cancelled \/ f.at \in {"new", "finished"} -> {None}
    [] ~f.cancelled /\ f.at = "run" -> InRun(f, park, t)
    [] OTHER -> BetweenRuns(f, park, t)

\* observe: where each event of the job takes the forecaster.  TimingStarted is
\* "Described" when the run is the one planned, "Repriced" when it is another.
Observed(event) ==
  CASE event = "JobStarted" -> [fc EXCEPT !.at = "run", !.run = 1, !.origin = now, !.started = now]
    [] event = "RunStarted" ->
         [fc EXCEPT !.at = "run", !.run = IF fc.job = "between" THEN @ + 1 ELSE @, !.origin = now, !.stage = "none", !.units = 0, !.timed = FALSE, !.priced = fc.planned]
    [] event = "Described" -> [fc EXCEPT !.timed = TRUE]
    [] event = "Repriced" -> [fc EXCEPT !.timed = TRUE, !.priced = ~@]
    [] event = "StageStarted" -> [fc EXCEPT !.stage = "denoise", !.units = 0]
    [] event = "RunOutput" -> [fc EXCEPT !.units = @ + 1]
    [] event = "RunFinished" -> [fc EXCEPT !.at = "between"]
    [] event = "JobFinished" -> [fc EXCEPT !.at = "finished"]
    [] OTHER -> fc

\* The events of a job in the order the executor emits them; a line that is no
\* reading, and the end of a stage or of the timing, come at any time in a run.
Follows(event) ==
  CASE event = "JobStarted" -> fc.job = "new"
    [] event = "RunStarted" -> fc.job = "started" \/ (fc.job = "between" /\ RunsLeft)
    [] event \in {"Described", "Repriced"} -> fc.job = "run" /\ ~fc.timed
    [] event = "StageStarted" -> fc.job = "run" /\ fc.timed /\ fc.stage = "none"
    [] event = "RunOutput" -> fc.job = "run" /\ fc.stage = "denoise" /\ fc.units < Units
    [] event = "Silent" -> fc.job = "run" /\ fc.stage = "denoise" /\ fc.units = Units
    [] event = "RunFinished" -> fc.job = "run"
    [] event = "Cooldown" -> fc.job = "between" /\ RunsLeft
    [] OTHER -> fc.job \in {"between", "started"}

JobAfter(event) ==
  CASE event = "JobStarted" -> "started"
    [] event = "RunStarted" -> "run"
    [] event = "RunFinished" -> "between"
    [] event = "JobFinished" -> "ended"
    [] OTHER -> fc.job

Events == {"JobStarted", "RunStarted", "Described", "Repriced", "StageStarted", "RunOutput", "Silent", "RunFinished", "Cooldown", "JobFinished"}

------------------------------------------------------------------------------
(* The publisher.                                                             *)

\* forecast_view.progress.
Progress(span, t) ==
  LET length == span.end - span.start
      share == IF t <= span.start THEN 0 ELSE ((t - span.start) * Whole) \div length
  IN  IF length <= 0 THEN span.floor
      ELSE IF share >= Whole THEN Whole
      ELSE IF share > span.floor THEN share ELSE span.floor

\* Mutant: what the last forecast would show by now is not held.
Held_NoShown(span, before, floor) ==
  LET share == Progress([span EXCEPT !.floor = 0], now)
  IN  [span EXCEPT !.floor = IF share > floor THEN share ELSE floor]

\* _held: the most of what was held, what this one puts at now, and what the last showed.
Held(span, before, floor) ==
  LET shares == {floor, Progress([span EXCEPT !.floor = 0], now)}
                \cup (IF before.there /\ before.start = span.start THEN {Progress(before, now)} ELSE {})
  IN  [span EXCEPT !.floor = CHOOSE x \in shares : \A y \in shares : y <= x]

\* _send, from a forecast, with the last one and the run's floor as they are now.
Send(f, before, floor) ==
  LET beforeRun == IF before.none THEN NoSpan ELSE before.run
      beforeJob == IF before.none THEN NoSpan ELSE before.job
      run == IF f.run.there THEN Held(f.run, beforeRun, floor) ELSE NoSpan
      job == IF f.job.there THEN Held(f.job, beforeJob, jobFloor) ELSE NoSpan
  IN
  /\ last' = [f EXCEPT !.run = run, !.job = job] /\ shown' = last'
  /\ runFloor' = IF run.there THEN run.floor ELSE floor
  /\ jobFloor' = IF job.there THEN job.floor ELSE jobFloor

\* _finish: what was published is cleared.
Finish ==
  /\ over' = TRUE /\ last' = None
  /\ shown' = IF last.none THEN shown ELSE None
  /\ UNCHANGED <<runFloor, jobFloor, parkingAtLast, lastReading>>

Advanced(f, before) == before.none \/ f.stage # before.stage \/ f.units # before.units
StageChanged(f, before) == before.none \/ f.stage # before.stage
SameEnds(new, old) ==
  /\ new.there = old.there
  /\ new.end <= old.end + SameEnd /\ old.end <= new.end + SameEnd

\* _identical: nothing a front end would see.
Identical(f, before) ==
  /\ ~Advanced(f, before) /\ parking = parkingAtLast
  /\ SameEnds(f.run, before.run) /\ SameEnds(f.job, before.job)

\* Mutant: the last reading of a stage waits like any other.
TooSoon_Last(event, f) == event = "RunOutput" /\ lastReading # Never /\ now < lastReading + Interval

\* A reading within the interval, but for the stage's last.
TooSoon(event, f) ==
  event = "RunOutput" /\ f.units # Units /\ lastReading # Never /\ now < lastReading + Interval

\* _observe, once the forecaster has taken the event.
Publish(event, f) ==
  LET before == IF event = "RunStarted" /\ ~last.none THEN [last EXCEPT !.run = NoSpan] ELSE last
      floor == IF event = "RunStarted" THEN 0 ELSE runFloor
      quiet == f.none \/ event = "Silent" \/ (event = "RunOutput" /\ (~Advanced(f, before) \/ TooSoon(event, f)))
  IN
  /\ over' = over
  /\ lastReading' = CASE quiet -> lastReading
                      [] ~quiet /\ event = "RunOutput" -> now
                      [] ~quiet /\ event # "RunOutput" -> IF StageChanged(f, before) THEN Never ELSE lastReading
  /\ IF quiet \/ Identical(f, before)
     THEN last' = before /\ runFloor' = floor /\ UNCHANGED <<shown, jobFloor, parkingAtLast>>
     ELSE Send(f, before, floor) /\ parkingAtLast' = parking

------------------------------------------------------------------------------
(* The operations, each under the publisher's lock.                           *)

\* observe: an event of the job; ignored once done.
ObserveEvent(event) ==
  /\ Follows(event)
  /\ fc' = [(IF fc.cancelled THEN fc ELSE Observed(event)) EXCEPT !.job = JobAfter(event)]
  /\ IF over THEN UNCHANGED pubVars
     ELSE IF event = "JobFinished" THEN Finish /\ UNCHANGED parking
     ELSE (\E f \in Forecasts(fc', parking, now) : Publish(event, f)) /\ UNCHANGED parking
  /\ UNCHANGED <<now, request, parks, fails>>

\* The model raises while it takes an event: logged, and this entry has no more.
Fail ==
  /\ fails < MaxFails /\ fails' = fails + 1 /\ ~over /\ fc.job = "run"
  /\ Finish
  /\ UNCHANGED <<now, fc, parking, request, parks>>

\* park_changed reads _done before it takes the lock.
ParkRead ==
  /\ request = "none" /\ parks < MaxParks /\ ~over /\ fc.job # "ended" /\ ~fc.cancelled
  /\ request' = IF parking THEN "unpark" ELSE "park"
  /\ parks' = parks + 1
  /\ UNCHANGED <<now, fc, pubVars, fails>>

ParkChanged ==
  /\ request # "none" /\ request' = "none"
  /\ parking' = (request = "park")
  /\ \E f \in Forecasts(fc, request = "park", now) :
       IF f.none THEN UNCHANGED <<last, shown, runFloor, jobFloor, parkingAtLast>>
       ELSE Send(f, last, runFloor) /\ parkingAtLast' = (request = "park")
  /\ UNCHANGED <<now, fc, lastReading, over, parks, fails>>

\* Mutant: the forecaster is not told, and still gives forecasts.
Cancel_Unheard ==
  /\ ~fc.cancelled /\ ~over /\ fc' = fc /\ Finish
  /\ UNCHANGED <<now, parking, request, parks, fails>>

\* cancel: an accepted cancel, or the entry's release.
CancelForecast ==
  /\ ~fc.cancelled
  /\ fc' = [fc EXCEPT !.cancelled = TRUE] /\ Finish
  /\ UNCHANGED <<now, parking, request, parks, fails>>

Tick ==
  /\ now < MaxTime /\ now' = now + 1
  /\ UNCHANGED <<fc, pubVars, request, parks, fails>>

------------------------------------------------------------------------------

PublisherInit ==
  /\ now = 0
  /\ \E history \in BOOLEAN :
       fc = [at |-> "new", job |-> "new", run |-> 1, origin |-> 0, started |-> 0, stage |-> "none", units |-> 0,
             timed |-> FALSE, planned |-> history, priced |-> history, cancelled |-> FALSE]
  /\ last = None /\ parking = FALSE /\ parkingAtLast = FALSE /\ lastReading = Never
  /\ runFloor = 0 /\ jobFloor = 0 /\ over = FALSE /\ shown = None
  /\ request = "none" /\ parks = 0 /\ fails = 0

PublisherNext ==
  \/ \E event \in Events : ObserveEvent(event)
  \/ Fail \/ ParkRead \/ ParkChanged \/ CancelForecast \/ Tick

PublisherSpec == PublisherInit /\ [][PublisherNext]_publisherVars

------------------------------------------------------------------------------
(* Properties.                                                                *)

Bars(name) == ~shown.none /\ ~shown'.none /\ shown[name].there /\ shown'[name].there

\* A run's bar never moves back: whatever end the next forecast of the same run
\* has, it shows no less than the one before would show by then.
RunBarHolds ==
  [][Bars("run") /\ shown'.run.start = shown.run.start => Progress(shown'.run, now) >= Progress(shown.run, now)]_publisherVars

\* Nor does the job's, while it is counted from the same start: not from the
\* start of the run in progress, as it is when the job will park after it.
JobBarHolds ==
  [][Bars("job") /\ shown'.job.start = shown.job.start => Progress(shown'.job, now) >= Progress(shown.job, now)]_publisherVars

\* The last step of a stage always shows, however soon after another it comes.
LastReadingShown ==
  fc.job = "run" /\ fc.stage = "denoise" /\ fc.units = Units /\ ~over => ~shown.none /\ shown.units = Units

\* Once a job has ended, or its cancel is accepted, no forecast of it stands, not
\* one of a park that was waiting either (a failure of the model aside).
EndedCleared == over /\ fails = 0 => shown.none

\* "so a bar never moves back within a run or a job" (forecast_publisher.py:8).
JobBarNeverBack ==
  [][Bars("job") => Progress(shown'.job, now) >= Progress(shown.job, now)]_publisherVars

\* The last step of a stage shows, and nothing shows once the job is over.
ForecastShown == LastReadingShown /\ EndedCleared

\* Neither bar moves back while it is counted from the same start.
BarsHold == RunBarHolds /\ JobBarHolds
=============================================================================
