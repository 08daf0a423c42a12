---------------------------- MODULE TimingReplay ----------------------------
(* The replay that judges the forecasts (jobs/timing/replay_stream.py,       *)
(* services/timing_replay.py): a recorded execution is turned back into the  *)
(* events of its job, an estimator reads them one at a time, and what it     *)
(* says at each checkpoint is set against what happened.  The two simple     *)
(* estimators are modelled; the forecast is ForecastPublisher's.  The gate   *)
(* of the knobs (jobs/timing/gate.py) replays the same events.               *)
(*                                                                           *)
(* Times are whole; a checkpoint is a share in parts of Parts.  Means and    *)
(* paces are whole in the recorded executions chosen here.                   *)
EXTENDS Integers, Sequences, FiniteSets, FiniteSetsExt, SequencesExt, TLC

CONSTANTS
  RunShares, JobShares, Parts,              \* CHECKPOINTS_RUN and CHECKPOINTS_JOB, in parts of Parts
  QualifiedRuns, QualifiedExecutions,       \* QUALIFIED_RUNS, QUALIFIED_EXECUTIONS
  PerFold       \* per_fold of replay_folds

VARIABLES
  held,       \* the executions of the store
  sought,      \* the replay asked for: the estimator, the backend or "any", leave-one-out or folds
  groups,     \* the executions still to score, in groups that are left out together
  inFold,     \* the runs scored of the first group
  scoring,    \* the execution under way and the job it was turned into, 0 between two
  heard,      \* the events the estimator has observed
  pending,    \* the checkpoints passed
  track,      \* the _Tracker of the estimator, with the readings of the constant pace
  report,     \* the observations of the execution under way
  traces      \* its traces: when a run's first number came and how often its share moved back; at 0 the job's

replayVars == <<held, sought, groups, inFold, scoring, heard, pending, track, report, traces>>

NoNumberYet == -1
FRAMECONTROL == "framecontrol"
STEP_STAGES == {"sampling", "denoise"}

Summed(seq) == FoldLeft(LAMBDA a, b : a + b, 0, seq)
Mean(seq) == Summed(seq) \div Len(seq)

\* sorted: stable, so that what happened at one instant stays in the order it was written.
Ordered(seq, Before(_, _)) ==
  LET sorted == SortSeq([i \in DOMAIN seq |-> <<i, seq[i]>>],
                        LAMBDA a, b : Before(a[2], b[2]) \/ (~Before(b[2], a[2]) /\ a[1] < b[1]))
  IN  [n \in DOMAIN seq |-> sorted[n][2]]

----------------------------------------------------------------------------
(* HistoryRun, HistoryExecution and CooldownPolicy.wait_after.               *)

counted_stages(run) ==
  Ordered(SelectSeq(run.stages, LAMBDA s : s.start >= 0), LAMBDA a, b : a.start < b.start \/ (a.start = b.start /\ a.end < b.end))

Seconds(run) == Max({0} \cup {counted_stages(run)[i].end : i \in DOMAIN counted_stages(run)})
ChildSeconds(run) ==
  LET own == SelectSeq(counted_stages(run), LAMBDA s : s.source # FRAMECONTROL)
  IN  Summed([i \in DOMAIN own |-> own[i].end - own[i].start])

wait_after(policy, seconds) ==
  LET share == (seconds * policy.ratio + 99) \div 100
  IN  CASE policy.mode = "manual" -> policy.seconds
        [] policy.mode = "off" -> 0
        [] policy.mode = "auto" -> Min({policy.maximum, Max({policy.minimum, share})})

\* The wait that followed a run: the recorded one, else the policy's.
WaitAfter(execution, run) ==
  IF execution.waits = <<>> THEN wait_after(execution.cooldown, ChildSeconds(run))
  ELSE IF run.run \in DOMAIN execution.waits THEN execution.waits[run.run] ELSE 0

----------------------------------------------------------------------------
(* replay_stream.                                                            *)

At(time, kind, number) == [at |-> time, kind |-> kind, number |-> number]

\* _readings: the marks of a stage of the child's, else its two ends, else the line it began with.
Readings(stage) ==
  CASE stage.source = FRAMECONTROL -> <<>>
    [] stage.source # FRAMECONTROL /\ stage.marks # <<>> ->
         [i \in DOMAIN stage.marks |-> [offset |-> stage.marks[i][1], done |-> stage.marks[i][2], total |-> stage.total]]
    [] stage.source # FRAMECONTROL /\ stage.marks = <<>> /\ stage.total > 0 ->
         <<[offset |-> stage.start, done |-> 0, total |-> stage.total], [offset |-> stage.end, done |-> stage.total, total |-> stage.total]>>
    [] OTHER -> <<[offset |-> stage.start, done |-> NoNumberYet, total |-> 0]>>

StageEvents(stage, number, origin) ==
  <<At(origin + stage.start, "stage started", number)>>
  \o [i \in DOMAIN Readings(stage) |->
        LET r == Readings(stage)[i]
        IN  At(origin + r.offset, "output", number) @@ [stage |-> stage.stage, done |-> r.done, total |-> r.total]]
  \o <<At(origin + stage.end, "stage finished", number)>>

run_events(run, origin) ==
  LET stages == counted_stages(run)
      end == origin + Seconds(run)
  IN  Ordered(<<At(origin, "run started", run.run)>>
              \o FlattenSeq([i \in DOMAIN stages |-> StageEvents(stages[i], run.run, origin)])
              \o <<At(end, "run finished", run.run) @@ [seconds |-> ChildSeconds(run)]>>,
              LAMBDA a, b : a.at < b.at)

\* The wait between two runs, where there is one.
WaitEvents(execution, run, end) ==
  LET wait == WaitAfter(execution, run)
  IN  IF wait = 0 \/ run = Last(execution.runs) THEN <<>>
      ELSE <<At(end, "cooldown started", run.run) @@ [seconds |-> wait], At(end + wait, "cooldown ended", run.run)>>

\* replay_job
replay_job(execution) ==
  LET add(job, run) ==
        LET end == job.finished + Seconds(run)
            waits == WaitEvents(execution, run, end)
        IN  [events |-> job.events \o run_events(run, job.finished) \o waits,
             starts |-> Append(job.starts, job.finished), ends |-> Append(job.ends, end),
             finished |-> IF waits = <<>> THEN end ELSE Last(waits).at]
      whole == FoldLeft(add, [events |-> <<At(0, "job started", 0)>>, starts |-> <<>>, ends |-> <<>>, finished |-> 0], execution.runs)
  IN  [whole EXCEPT !.events = Append(@, At(whole.finished, "job finished", 0))]

----------------------------------------------------------------------------
(* What an execution is scored against.                                      *)

\* The runs of every execution that is not left out, with the number of theirs.
TrainingOf_Whole(leftOut) ==
  UNION {{[of |-> held[i].number, run |-> held[i].runs[r]] : r \in DOMAIN held[i].runs} : i \in DOMAIN held}
TrainingOf(leftOut) ==
  UNION {{[of |-> held[i].number, run |-> held[i].runs[r]] : r \in DOMAIN held[i].runs} : i \in {n \in DOMAIN held : held[n].number \notin leftOut}}

SameSignature(a, b) == a.backend = b.backend /\ a.pipeline = b.pipeline /\ a.workload = b.workload

\* qualified: enough runs of the signature from enough other executions.
qualified(run, own, training) ==
  LET same == {t \in training : SameSignature(t.run, run) /\ t.run.fidelity = "live" /\ t.of # own}
  IN  Cardinality(same) >= QualifiedRuns /\ Cardinality({t.of : t \in same}) >= QualifiedExecutions

\* _SignatureIndex.qualified: the same of counts made once, which leave no execution out.
IndexQualified(run, training) ==
  LET same == {t \in training : t.run.fidelity = "live" /\ SameSignature(t.run, run)}
  IN  Cardinality(same) >= QualifiedRuns /\ Cardinality({t.of : t \in same}) >= QualifiedExecutions

Wanted(run) == sought.backend = "any" \/ run.backend = sought.backend
HasWanted(execution) == \E i \in DOMAIN execution.runs : Wanted(execution.runs[i])

----------------------------------------------------------------------------
(* The estimators.                                                           *)

NewTrack == [current |-> 0, origin |-> 0, started |-> 0, last |-> 0, until |-> NoNumberYet, full |-> <<>>, child |-> <<>>, readings |-> <<>>]

\* _Tracker.track, and ConstantPaceEstimator.observe.
Tracked(t, event) ==
  CASE event.kind = "run started" ->
         [t EXCEPT !.current = event.number, !.origin = event.at, !.until = NoNumberYet, !.readings = <<>>,
                   !.started = IF t.last = 0 THEN event.at ELSE @]
    [] event.kind = "run finished" ->
         [t EXCEPT !.last = event.number, !.current = 0, !.full = Append(@, event.at - t.origin), !.child = Append(@, event.seconds)]
    [] event.kind = "cooldown started" -> [t EXCEPT !.until = event.at + event.seconds]
    [] event.kind = "cooldown ended" -> [t EXCEPT !.until = NoNumberYet]
    [] event.kind = "output" ->
         IF event.stage \in STEP_STAGES /\ event.total > 0 /\ event.done >= 0
            /\ (t.readings = <<>> \/ event.done > Last(t.readings).done)
         THEN [t EXCEPT !.readings = Append(@, [at |-> event.at, done |-> event.done, total |-> event.total])] ELSE t
    [] OTHER -> t

ReplayedRuns == scoring.execution.runs
RunsAfter(t) == {r \in DOMAIN ReplayedRuns : r > (IF t.current # 0 THEN t.current ELSE t.last)}
WaitLeft(t, now) == IF t.until = NoNumberYet THEN 0 ELSE Max({t.until - now, 0})
PolicyWait(seconds) == wait_after(scoring.execution.cooldown, seconds)

NoShare == <<0, 0>>
Silent == [run |-> NoNumberYet, job |-> NoNumberYet, share |-> NoShare, jobShare |-> NoShare]

\* LastSignatureEstimator._references: the newest run of the signature, else of the backend and pipeline.
ReferenceOf(run) ==
  LET newest(rows) == CHOOSE t \in rows : \A u \in rows : u.of < t.of \/ (u.of = t.of /\ u.run.run <= t.run.run)
      alike == {t \in scoring.training : t.run.backend = run.backend /\ t.run.pipeline = run.pipeline}
      same == {t \in alike : SameSignature(t.run, run)}
  IN  IF same # {} THEN {newest(same).run} ELSE IF alike # {} THEN {newest(alike).run} ELSE {}

\* What the runs after the current one take, with the waits between them.
TotalLater(later, time(_), child(_)) ==
  MapThenSumSet(time, later) + MapThenSumSet(LAMBDA r : PolicyWait(child(r)), later \ {Max(later)})

LastSignature(t, now) ==
  LET later == RunsAfter(t)
      known == \A r \in later : ReferenceOf(ReplayedRuns[r]) # {}
      of(r) == CHOOSE x \in ReferenceOf(ReplayedRuns[r]) : TRUE
      total == IF later = {} THEN 0 ELSE TotalLater(later, LAMBDA r : Seconds(of(r)), LAMBDA r : ChildSeconds(of(r)))
      left == Max({0, Seconds(of(t.current)) - (now - t.origin)})
  IN  IF t.current # 0
      THEN IF ReferenceOf(ReplayedRuns[t.current]) = {} THEN Silent
           ELSE [Silent EXCEPT !.run = left,
                               !.job = IF ~known THEN NoNumberYet
                                       ELSE left + (IF later = {} THEN 0 ELSE PolicyWait(ChildSeconds(of(t.current)))) + total]
      ELSE IF known /\ later # {} THEN [Silent EXCEPT !.job = WaitLeft(t, now) + total] ELSE Silent

\* ConstantPaceEstimator.reading
ConstantPace(t, now) ==
  LET later == Cardinality(RunsAfter(t))
      first == t.readings[1]
      final == Last(t.readings)
      left == Max({0, ((first.total - final.done) * (final.at - first.at)) \div (final.done - first.done) - (now - final.at)})
      passed == now - t.origin
      elapsed == now - t.started
      full == IF t.full = <<>> THEN passed + left ELSE Mean(t.full)
      child == IF t.child = <<>> THEN full ELSE Mean(t.child)
  IN  IF t.current = 0
      THEN IF later = 0 \/ t.full = <<>> THEN Silent
           ELSE [Silent EXCEPT !.job = WaitLeft(t, now) + later * Mean(t.full) + (later - 1) * PolicyWait(Mean(t.child))]
      ELSE IF Len(t.readings) < 2 THEN Silent
      ELSE LET job == left + later * full + later * PolicyWait(child)
           IN  [run |-> left, job |-> job, share |-> <<passed, passed + left>>, jobShare |-> <<elapsed, elapsed + job>>]

Reading(t, now) == IF sought.estimator = "constant-pace" THEN ConstantPace(t, now) ELSE LastSignature(t, now)

----------------------------------------------------------------------------
(* _score.                                                                   *)

\* The checkpoints of every run, then of the job, by time.
MarksOf(job) ==
  LET shares(set) == SetToSortSeq(set, <)
      marks(start, end, number, set) ==
        [i \in 1 .. Cardinality(set) |-> [at |-> start + (shares(set)[i] * (end - start)) \div Parts, number |-> number, share |-> shares(set)[i]]]
  IN  Ordered(FlattenSeq([r \in DOMAIN job.starts |-> marks(job.starts[r], job.ends[r], r, RunShares)]) \o marks(0, job.finished, 0, JobShares),
              LAMBDA a, b : a.at < b.at)

\* gate.prepare_replay: an execution without its waits, and the checkpoints of its runs.
GateCase(execution) ==
  LET job == replay_job([execution EXCEPT !.cooldown = [mode |-> "off"], !.waits = <<>>])
  IN  [job |-> job, marks |-> SelectSeq(MarksOf(job), LAMBDA mark : mark.number # 0)]
\* gate.replay: all that is not later than a checkpoint is heard before it.
GateHeard(gate, mark) ==
  Max({0} \cup {n \in DOMAIN gate.job.events : \A i \in 1 .. n : gate.job.events[i].at <= mark.at})

NoExecution == [execution |-> [number |-> 0, runs |-> <<>>, cooldown |-> [mode |-> "off"], waits |-> <<>>],
         training |-> {}, leftOut |-> {}, job |-> [events |-> <<>>, starts |-> <<>>, ends |-> <<>>, finished |-> 0], marks |-> <<>>]
Going == scoring # NoExecution

NextEvent == scoring.job.events[heard + 1]
\* A checkpoint is read before the first event that is later than it; those at its own instant are heard first.
MarkDue_Early ==
  /\ pending < Len(scoring.marks)
  /\ heard < Len(scoring.job.events) => scoring.marks[pending + 1].at <= NextEvent.at
MarkDue ==
  /\ pending < Len(scoring.marks)
  /\ heard < Len(scoring.job.events) => scoring.marks[pending + 1].at < NextEvent.at

Observation(mark) ==
  LET reading == Reading(track, mark.at)
      run == ReplayedRuns[IF mark.number = 0 THEN 1 ELSE mark.number]
  IN  IF ~Wanted(run) THEN <<>>
      ELSE <<[number |-> mark.number, share |-> mark.share, at |-> mark.at, heard |-> heard,
              truth |-> (IF mark.number = 0 THEN scoring.job.finished ELSE scoring.job.ends[mark.number]) - mark.at,
              estimate |-> IF mark.number = 0 THEN reading.job ELSE reading.run,
              qualified |-> IndexQualified(run, scoring.training)]>>

ReadMark ==
  /\ Going /\ MarkDue
  /\ report' = report \o Observation(scoring.marks[pending + 1])
  /\ pending' = pending + 1
  /\ UNCHANGED <<held, sought, groups, inFold, scoring, heard, track, traces>>

\* A share moves back when it is less than the last one of the same run, or of the job.
MovedBack(share, was) == share # NoShare /\ was # NoShare /\ share[1] * was[2] < was[1] * share[2]
WithShare(trace, share) ==
  IF share = NoShare THEN trace
  ELSE [trace EXCEPT !.moves = IF MovedBack(share, trace.share) THEN @ + 1 ELSE @, !.share = share]

FeedEvent ==
  /\ Going /\ ~MarkDue /\ heard < Len(scoring.job.events)
  /\ track' = Tracked(track, NextEvent)
  /\ LET reading == Reading(track', NextEvent.at)
         first(r) == IF traces[r].first = NoNumberYet /\ reading.run # NoNumberYet THEN NextEvent.at - scoring.job.starts[r] ELSE traces[r].first
     IN  traces' = [r \in DOMAIN traces |->
                     CASE r = 0 -> WithShare(traces[0], reading.jobShare)
                       [] r = track'.current /\ r # 0 -> [WithShare(traces[r], reading.share) EXCEPT !.first = first(r)]
                       [] OTHER -> traces[r]]
  /\ heard' = heard + 1
  /\ UNCHANGED <<held, sought, groups, inFold, scoring, pending, report>>

----------------------------------------------------------------------------
(* The executions to score.                                                  *)

\* replay_leave_one_out: each alone, in order.  replay_folds: dealt into folds after a shuffle.
Dealt(order, folds) == [f \in 1 .. folds |-> [i \in 1 .. (Len(order) - f) \div folds + 1 |-> order[(i - 1) * folds + f]]]

ReplayStart(store, how) ==
  /\ held = store /\ sought = how
  /\ groups \in IF how.folds = 0 THEN {[i \in DOMAIN store |-> [left |-> <<i>>, all |-> {store[i].number}]]}
                ELSE {[f \in 1 .. how.folds |-> [left |-> Dealt(order, how.folds)[f],
                                                 all |-> {store[i].number : i \in ToSet(Dealt(order, how.folds)[f])}]] :
                        order \in SetToSeqs(DOMAIN store)}
  /\ inFold = 0 /\ scoring = NoExecution /\ heard = 0 /\ pending = 0 /\ track = NewTrack /\ report = <<>> /\ traces = <<>>

\* The next execution of the first group, none once the fold holds enough runs.
TakeExecution ==
  /\ ~Going /\ groups # <<>>
  /\ LET left == Head(groups).left
         execution == held[Head(left)]
         job == replay_job(execution)
     IN  IF left = <<>> \/ (sought.folds > 0 /\ inFold >= PerFold)
         THEN groups' = Tail(groups) /\ inFold' = 0 /\ UNCHANGED <<scoring, traces>>
         ELSE /\ groups' = [groups EXCEPT ![1].left = Tail(@)]
              /\ IF HasWanted(execution)
                 THEN /\ scoring' = [execution |-> execution, training |-> TrainingOf(Head(groups).all), leftOut |-> Head(groups).all,
                                     job |-> job, marks |-> MarksOf(job)]
                      /\ traces' = [r \in 0 .. Len(execution.runs) |-> [first |-> NoNumberYet, moves |-> 0, share |-> NoShare]]
                      /\ inFold' = inFold + Len(execution.runs)
                 ELSE UNCHANGED <<scoring, traces, inFold>>
  /\ UNCHANGED <<held, sought, heard, pending, track, report>>

AllScored == Going /\ heard = Len(scoring.job.events) /\ pending = Len(scoring.marks)
EndScore ==
  /\ AllScored
  /\ scoring' = NoExecution /\ heard' = 0 /\ pending' = 0 /\ track' = NewTrack /\ report' = <<>> /\ traces' = <<>>
  /\ UNCHANGED <<held, sought, groups, inFold>>

ReplayNext == TakeExecution \/ ReadMark \/ FeedEvent \/ EndScore

----------------------------------------------------------------------------
(* What must hold.                                                           *)

Observations == ToSet(report)

\* An estimate knows what had happened when it was made, all of it and nothing later.
ReadsThePast ==
  \A o \in Observations : o.heard = Cardinality({i \in DOMAIN scoring.job.events : scoring.job.events[i].at <= o.at})

\* Each checkpoint of each run that is asked for is read once, while the run goes on.
EveryMarkRead ==
  AllScored =>
    /\ \A r \in DOMAIN ReplayedRuns, s \in RunShares :
         Cardinality({i \in DOMAIN report : report[i].number = r /\ report[i].share = s}) = IF Wanted(ReplayedRuns[r]) THEN 1 ELSE 0
    /\ \A i \in DOMAIN report : report[i].number = 0 => report[i].at < scoring.job.finished
    /\ \A i, j \in DOMAIN report : i < j => report[i].at <= report[j].at

\* Nothing an execution is scored against comes from itself, so that the counts made once say what the count of each
\* run would.
NeverByItself ==
  Going =>
    /\ \A t \in scoring.training : t.of \notin scoring.leftOut /\ t.of # scoring.execution.number
    /\ \A o \in Observations : o.qualified = qualified(ReplayedRuns[IF o.number = 0 THEN 1 ELSE o.number], scoring.execution.number, scoring.training)

\* The events are those of a job: in time order, each run's own between its start and its end, one run at a time, and
\* the next one after the wait.
StreamIsAJobs ==
  Going =>
    LET events == scoring.job.events
        place(kind, r) == CHOOSE i \in DOMAIN events : events[i].kind = kind /\ events[i].number = r
    IN  /\ \A i \in 1 .. Len(events) - 1 : events[i].at <= events[i + 1].at
        /\ \A r \in DOMAIN ReplayedRuns :
             /\ events[place("run started", r)].at = scoring.job.starts[r] /\ events[place("run finished", r)].at = scoring.job.ends[r]
             /\ \A i \in DOMAIN events :
                  events[i].number = r /\ events[i].kind \in {"stage started", "output", "stage finished"} =>
                    place("run started", r) < i /\ i < place("run finished", r)
             /\ r > 1 => /\ scoring.job.starts[r] = scoring.job.ends[r - 1] + WaitAfter(scoring.execution, ReplayedRuns[r - 1])
                         /\ place("run finished", r - 1) < place("run started", r)

\* A run that steps evenly until it ends.
EvenRun(run) ==
  LET steps == SelectSeq(FlattenSeq([i \in DOMAIN counted_stages(run) |->
                 IF counted_stages(run)[i].stage \in STEP_STAGES THEN Readings(counted_stages(run)[i]) ELSE <<>>]), LAMBDA r : TRUE)
      pace == steps[2].offset - steps[1].offset
      per == steps[2].done - steps[1].done
  IN  /\ Len(steps) >= 2 /\ Last(steps).done = Last(steps).total /\ Last(steps).offset = Seconds(run)
      /\ \A i \in 2 .. Len(steps) : (steps[i].offset - steps[i - 1].offset) * per = (steps[i].done - steps[i - 1].done) * pace
SameTimes(a, b) == Seconds(a) = Seconds(b) /\ ChildSeconds(a) = ChildSeconds(b)

\* An estimator is right where what it assumes is so: the constant pace of a run that steps evenly, and of a job whose
\* runs are alike; the last signature of a run that takes what its reference took, and of a job whose runs all do.
RightWhereItHolds ==
  \A o \in Observations :
    LET runs == ToSet(ReplayedRuns)
        policed == scoring.execution.waits = <<>>
        alike == \A a, b \in runs : SameTimes(a, b)
        plain == \A a \in runs : ChildSeconds(a) = Seconds(a) \/ scoring.execution.cooldown.mode # "auto"
        known == \A a \in runs : ReferenceOf(a) # {} /\ \A b \in ReferenceOf(a) : SameTimes(a, b)
    IN  o.estimate # NoNumberYet =>
          IF sought.estimator = "constant-pace"
          THEN (IF o.number # 0 THEN EvenRun(ReplayedRuns[o.number]) ELSE policed /\ alike /\ plain /\ \A a \in runs : EvenRun(a)) => o.estimate = o.truth
          ELSE (IF o.number # 0 THEN \A b \in ReferenceOf(ReplayedRuns[o.number]) : SameTimes(b, ReplayedRuns[o.number]) ELSE policed /\ known) => o.estimate = o.truth

\* A run's first number came before any estimate of it, and the share of one that steps evenly never moves back.
FirstNumberTrue ==
  /\ \A o \in Observations : o.number # 0 /\ o.estimate # NoNumberYet =>
       traces[o.number].first # NoNumberYet /\ scoring.job.starts[o.number] + traces[o.number].first <= o.at
  /\ Going => \A r \in DOMAIN ReplayedRuns : EvenRun(ReplayedRuns[r]) => traces[r].moves = 0

\* The gate of the knobs, which replays without the waits, judges each run at the same points: it has heard as much of the
\* run, and as much of it is left.
LikeTheGate ==
  AllScored => \E gate \in {GateCase(scoring.execution)} :
    LET heardOf(r, events, count) ==
          Cardinality({i \in 1 .. count : events[i].number = r /\ events[i].kind \notin {"cooldown started", "cooldown ended"}})
    IN  \A o \in Observations : o.number # 0 =>
          \E mark \in ToSet(gate.marks) :
            /\ mark.number = o.number /\ mark.share = o.share
            /\ gate.job.ends[o.number] - mark.at = o.truth
            /\ heardOf(o.number, gate.job.events, GateHeard(gate, mark)) = heardOf(o.number, scoring.job.events, o.heard)

\* A replay judges an estimator by what it could know, at every checkpoint, against what happened.
ReplayFair ==
  /\ ReadsThePast /\ EveryMarkRead /\ NeverByItself /\ StreamIsAJobs
  /\ RightWhereItHolds /\ FirstNumberTrue /\ LikeTheGate
=============================================================================
