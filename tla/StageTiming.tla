---------------------------- MODULE StageTiming ----------------------------
(* How the time of one run is told.  What the child writes is cut into       *)
(* segments, each stamped when its last byte arrived and, when it has no     *)
(* terminator, released early (core/process/segments.py); the supervisor     *)
(* drains them, a parser reads them as progress of stages, and a tracker     *)
(* makes of the readings contiguous spans (jobs/timing/tracker.py) on the    *)
(* run's clock, where the gaps are named (jobs/timing/timeline.py).  A job   *)
(* log tells the same run again (jobs/timing/log_import.py).  Times are      *)
(* whole units after the run's start; only the stream with the readings is   *)
(* modelled, the other one gives none.                                       *)
EXTENDS Integers, Sequences, FiniteSets, FiniteSetsExt, Functions

CONSTANTS
  Lines,      \* what the child may write: [backend, phase, done, total]
  MaxTime,    \* bound: time units of a run
  MaxLines,   \* bound: lines of a child
  IdleWindow, \* idle_release_seconds
  DrainTime,  \* output_drain_seconds
  MaxMarks    \* MAX_MARKS: marks a stage keeps whole

ASSUME TimingBounds == {MaxTime, MaxLines, IdleWindow, DrainTime, MaxMarks} \subseteq Nat /\ IdleWindow > 0 /\ MaxMarks > 1

VARIABLES
  clock,      \* the run's clock
  told,       \* where the run is: begun, child, exited, finishing, told
  source,    \* whose child it is: draw or h3
  segment,    \* SegmentSplitter: pending text, its arrival, whether it was released
  output,     \* the output queue: segments with their stamps
  tracker,    \* StageTracker: the open stage, the closed spans, the boundary
  childAt,    \* _child_origin and, once it exited, when
  ownSpans,   \* the spans of Framecontrol's own stages
  stageAt,    \* when the open stage of its own began
  written,    \* what the child wrote, and when
  logged      \* the lines as the job log holds them: text, stamp, when logged

timingVars == <<clock, told, source, segment, output, tracker, childAt, ownSpans, stageAt, written, logged>>

Unset == -1   \* None, of a time or a count
NoText == [text |-> <<>>, at |-> Unset, released |-> FALSE]

----------------------------------------------------------------------------
(* The parsers: a line is one reading, or none.  Draw Things prints a line   *)
(* as work starts, so step n of N means n - 1 are done; H3 as work is done.  *)

DrawThingsStage == [Starting |-> "starting", Processing |-> "processing", Finishing |-> "finishing", Generated |-> "finishing"]
\* The phases h3.c names, of which the ones with a counter worth a mark and one without stand for all.
H3StageOf(phase) ==
  CASE phase \in {"denoise enqueue", "denoise"} -> "denoise"
    [] phase = "ffmpeg" -> "ffmpeg"
    [] phase = "text encoder" -> "text_encode"
    [] OTHER -> "other"

DrawThingsReadings(l, at) ==
  IF l.phase = "Sampling"
  THEN {[stage |-> "sampling", phase |-> l.phase, offset |-> at, done |-> l.done - 1, total |-> l.total,
         unit |-> TRUE, begins |-> TRUE] : x \in {1} \cap {IF 1 <= l.done /\ l.done <= l.total THEN 1 ELSE 0}}
  ELSE {[stage |-> DrawThingsStage[p], phase |-> p, offset |-> at, done |-> Unset, total |-> Unset,
         unit |-> FALSE, begins |-> p # "Generated"] : p \in {l.phase} \cap DOMAIN DrawThingsStage}

H3Readings(l, at) ==
  {[stage |-> H3StageOf(m.phase), phase |-> m.phase, offset |-> at, done |-> m.done, total |-> m.total,
    unit |-> H3StageOf(m.phase) \in {"denoise", "ffmpeg"}, begins |-> FALSE]
     : m \in {k \in {l} : k.phase # "noise" /\ k.total >= 1 /\ k.done <= k.total}}

Readings(l, at) == IF l.backend = "h3" THEN H3Readings(l, at) ELSE DrawThingsReadings(l, at)

\* A redraw of H3 that ends its phase is terminated, and so is every other line that is no redraw.
EndsLine(l) == l.backend # "h3" \/ H3Readings(l, 0) = {} \/ l.done = l.total

----------------------------------------------------------------------------
(* StageTracker: feed and finish, over [open, spans, boundary].              *)

\* round(a / b): to the even one of two numbers as near.
Rounded(a, b) == LET q == a \div b  r == 2 * (a % b) IN IF r > b \/ (r = b /\ q % 2 = 1) THEN q + 1 ELSE q

ThinMarks(marks) ==
  IF Len(marks) <= MaxMarks THEN marks
  ELSE [i \in 1 .. MaxMarks |-> marks[Rounded((i - 1) * (Len(marks) - 1), MaxMarks - 1) + 1]]

Span(stage, start, end, marks) == [stage |-> stage, start |-> start, end |-> end, marks |-> ThinMarks(marks)]

KeyOf(r) == <<r.stage, IF r.stage = "other" THEN r.phase ELSE "">>
NoStage == [key |-> <<"", "">>, start |-> Unset, last |-> Unset, done |-> Unset, total |-> Unset, unit |-> FALSE, marks |-> <<>>]
Begun(r, start) == [NoStage EXCEPT !.key = KeyOf(r), !.start = start, !.last = start]
NewTracker(origin) == [open |-> NoStage, spans |-> <<>>, boundary |-> origin, failed |-> FALSE]

\* A plausible bug: only another total is seen as a counter that starts over.
Restarted_OtherTotal(current, r) ==
  r.done # Unset /\ current.done # Unset /\ current.total # Unset /\ r.total # current.total
Restarted(current, r) ==
  /\ r.done # Unset /\ current.done # Unset
  /\ r.done < current.done \/ (current.total # Unset /\ r.total # current.total)

\* The reading's count, and a mark of it when it moved.
Counted(current, r) ==
  IF r.done = Unset THEN current
  ELSE LET unit == r.unit \/ current.unit
           moved == unit /\ (current.marks = <<>> \/ current.marks[Len(current.marks)][2] # r.done)
       IN  [current EXCEPT !.done = r.done, !.total = r.total, !.unit = unit,
                           !.marks = IF moved THEN Append(@, <<r.offset, r.done>>) ELSE @]

Feed(t, r) ==
  LET current == t.open
      changed == current # NoStage /\ KeyOf(r) # current.key
      turns == changed \/ (current # NoStage /\ Restarted(current, r))
      boundary == IF ~turns THEN t.boundary ELSE IF r.begins THEN r.offset ELSE current.last
      \* The next stage starting is the proof that this one's last unit is done.
      proved == changed /\ r.begins /\ current.unit /\ current.total # Unset /\ current.done # current.total
      marks == current.marks \o (IF proved THEN <<<<boundary, current.total>>>> ELSE <<>>)
      base == IF turns \/ current = NoStage THEN Begun(r, boundary) ELSE current
  IN  [t EXCEPT !.open = [Counted(base, r) EXCEPT !.last = Max({@, r.offset})],
                !.spans = @ \o (IF turns THEN <<Span(current.key[1], current.start, boundary, marks)>> ELSE <<>>),
                !.boundary = boundary]

FinishTracker(t, end) ==
  LET current == t.open
      close == Max({end, current.last})
  IN  IF current # NoStage
      THEN [t EXCEPT !.open = NoStage, !.spans = Append(@, Span(current.key[1], current.start, close, current.marks)), !.boundary = close]
      ELSE [t EXCEPT !.spans = IF @ = <<>> THEN <<Span("child", t.boundary, Max({end, t.boundary}), <<>>)>> ELSE @]

(* The lines of a child that started at origin, in order.  A line the parser *)
(* fails on ends the reading of stages, not the run (timing_read_failed).    *)
FeedAll(t0, lines, origin) ==
  LET t[i \in 0 .. Len(lines)] ==
        IF i = 0 THEN t0
        ELSE LET l == lines[i].text
                 readings == Readings(l, origin + (lines[i].stamp - childAt.start))
             IN  IF t[i - 1].failed \/ l.phase = "unreadable" THEN [t[i - 1] EXCEPT !.failed = TRUE]
                 ELSE IF readings = {} THEN t[i - 1]
                 ELSE Feed(t[i - 1], CHOOSE r \in readings : TRUE)
  IN  t[Len(lines)]

----------------------------------------------------------------------------
(* SegmentSplitter and the reader thread.                                    *)

\* _cut: the pending segment is delivered, unless it was already.
Cut == IF segment.text # <<>> /\ ~segment.released THEN <<[text |-> segment.text[1], stamp |-> segment.at]>> ELSE <<>>

Alive == told = "child"

\* Draw Things ends a line with a newline, and H3 begins a redraw with a carriage return.
Write(l) ==
  /\ Alive /\ Len(written) < MaxLines /\ l.backend = source
  /\ LET text == <<[text |-> l, stamp |-> clock]>>
     IN  IF EndsLine(l)
         THEN output' = output \o Cut \o text /\ segment' = NoText
         ELSE output' = output \o Cut /\ segment' = [text |-> <<l>>, at |-> clock, released |-> FALSE]
  /\ written' = Append(written, [text |-> l, stamp |-> clock])
  /\ UNCHANGED <<clock, told, source, tracker, childAt, ownSpans, stageAt, logged>>

\* A redraw that arrives in two pieces: 1/1 so far, then 1/10.  H3 writes a redraw within the idle window.
WriteRest(l) ==
  /\ Alive /\ segment.text # <<>> /\ clock < segment.at + IdleWindow
  /\ l.backend = source /\ ~EndsLine(l) /\ segment.text[1].phase = l.phase /\ segment.text[1].done = l.done
  /\ l.total = 10 * segment.text[1].total
  /\ segment' = [segment EXCEPT !.text = <<l>>, !.at = clock]
  /\ written' = [written EXCEPT ![Len(written)] = [text |-> l, stamp |-> clock]]
  /\ UNCHANGED <<clock, told, source, output, tracker, childAt, ownSpans, stageAt, logged>>

\* release_idle: what reads as a whole reading goes out once nothing more arrived for the window.
ReleaseIdle ==
  /\ told \in {"child", "exited"}
  /\ segment.text # <<>> /\ ~segment.released /\ H3Readings(segment.text[1], 0) # {}
  /\ clock >= segment.at + IdleWindow
  /\ output' = output \o Cut /\ segment' = [segment EXCEPT !.released = TRUE]
  /\ UNCHANGED <<clock, told, source, tracker, childAt, ownSpans, stageAt, written, logged>>

\* The stream ends: flush.
StreamEnds ==
  /\ told = "exited" /\ segment.text # <<>>
  /\ output' = output \o Cut /\ segment' = NoText
  /\ UNCHANGED <<clock, told, source, tracker, childAt, ownSpans, stageAt, written, logged>>

----------------------------------------------------------------------------
(* The supervisor, the run's timeline and the finishing steps.               *)

TimingStart(b) ==
  /\ clock = 0 /\ told = "begun" /\ source = b
  /\ segment = NoText /\ output = <<>> /\ tracker = NewTracker(Unset)
  /\ childAt = [start |-> Unset, end |-> Unset]
  /\ ownSpans = {Span("resize", -2, -1, <<>>)}   \* before_start: work done for the run before it started
  /\ stageAt = Unset /\ written = <<>> /\ logged = <<>>

TimingInit == \E b \in {"draw", "h3"} : TimingStart(b)

\* child_started: prepare ends, and the child's stages are read from here.
ChildStarted ==
  /\ told = "begun" /\ told' = "child"
  /\ childAt' = [childAt EXCEPT !.start = clock]
  /\ ownSpans' = ownSpans \cup {Span("prepare", 0, clock, <<>>)}
  /\ tracker' = NewTracker(clock)
  /\ UNCHANGED <<clock, source, segment, output, stageAt, written, logged>>

\* _drain_output: each line is logged and read into the timeline.
Drain ==
  /\ told \in {"child", "exited"} /\ output # <<>>
  /\ output' = <<>>
  /\ logged' = logged \o [i \in DOMAIN output |-> [text |-> output[i].text, stamp |-> output[i].stamp, at |-> clock]]
  /\ tracker' = FeedAll(tracker, output, childAt.start)
  /\ UNCHANGED <<clock, told, source, segment, childAt, ownSpans, stageAt, written>>

ChildExits ==
  /\ Alive /\ told' = "exited"
  /\ childAt' = [childAt EXCEPT !.end = clock]
  /\ UNCHANGED <<clock, source, segment, output, tracker, ownSpans, stageAt, written, logged>>

\* The readers are done, or the drain time is over, and the queue is drained: child_finished.
RunnerReturned ==
  /\ told = "exited" /\ output = <<>>
  /\ segment.text = <<>> \/ clock >= childAt.end + DrainTime
  /\ told' = "finishing"
  /\ childAt' = [childAt EXCEPT !.end = clock]
  /\ tracker' = FinishTracker(tracker, clock)
  /\ UNCHANGED <<clock, source, segment, output, ownSpans, stageAt, written, logged>>

\* with timeline.stage(name): closed even when its block raises.
StageBegins ==
  /\ told = "finishing" /\ stageAt = Unset /\ stageAt' = clock
  /\ UNCHANGED <<clock, told, source, segment, output, tracker, childAt, ownSpans, written, logged>>
StageEnds ==
  /\ stageAt # Unset /\ stageAt' = Unset
  /\ ownSpans' = ownSpans \cup {Span("own", stageAt, clock, <<>>)}
  /\ UNCHANGED <<clock, told, source, segment, output, tracker, childAt, written, logged>>

\* The gaps finish() names: before each span, from where the ones that sort before it end, and after the last.
Before(p, s) == p.start < s.start \/ (p.start = s.start /\ p.end < s.end)
Gaps(spans, end) ==
  LET counted == {s \in spans : s.start >= 0}
      cursor(s) == Max({0} \cup {p.end : p \in {q \in counted : Before(q, s)}})
      last == Max({0} \cup {p.end : p \in counted})
  IN  {Span("unaccounted", cursor(s), s.start, <<>>) : s \in {q \in counted : q.start > cursor(q)}}
      \cup {Span("unaccounted", last, end, <<>>) : x \in {1} \cap {IF end > last THEN 1 ELSE 0}}

\* RunTiming.finish: the run failed before its child, or its finishing steps are over.
FinishTiming ==
  /\ told \in {"begun", "finishing"} /\ stageAt = Unset
  /\ told' = "told"
  /\ LET prepared == IF told = "begun" THEN {Span("prepare", 0, clock, <<>>)} ELSE {}
         spans == ownSpans \cup prepared
     IN  ownSpans' = spans \cup Gaps(spans \cup Range(tracker.spans), clock)
  /\ UNCHANGED <<clock, source, segment, output, tracker, childAt, stageAt, written, logged>>

TimePasses ==
  /\ told # "told" /\ clock < MaxTime /\ clock' = clock + 1
  /\ UNCHANGED <<told, source, segment, output, tracker, childAt, ownSpans, stageAt, written, logged>>

TimingNext ==
  \/ \E l \in Lines : Write(l) \/ WriteRest(l)
  \/ ReleaseIdle \/ StreamEnds
  \/ ChildStarted \/ Drain \/ ChildExits \/ RunnerReturned
  \/ StageBegins \/ StageEnds \/ FinishTiming \/ TimePasses

TimingSpec == TimingInit /\ [][TimingNext]_timingVars

----------------------------------------------------------------------------
(* The job log, read again.                                                  *)

\* _child_origin: each line says when the runner started; the least is the one that was logged without delay.
LoggedOrigin(lines) == Max({0, Min({lines[i].at - (lines[i].stamp - childAt.start) : i \in DOMAIN lines})})

\* _build: the child's spans of a log whose lines were stamped as read.
LoggedSpans(lines) ==
  LET origin == LoggedOrigin(lines)
  IN  FinishTracker(FeedAll(NewTracker(origin), lines, origin), childAt.end).spans

(* Before output was stamped as read, a redraw was logged when the next one  *)
(* began, or the stream ended: the readings of such a log, from the child's. *)
LateLog(lines, exit) ==
  [i \in DOMAIN lines |-> IF EndsLine(lines[i].text) THEN lines[i].stamp
                          ELSE IF i < Len(lines) THEN lines[i + 1].stamp ELSE exit]

\* remove_lag, in half units: when each reading was written, and whether that is an estimate.
RemoveLag(lines, at, origin) ==
  LET final(i) == EndsLine(lines[i].text)
      exact(i) == IF i > 1 THEN at[i - 1] ELSE origin
      estimate(i) == IF i < Len(lines) /\ ~final(i + 1) THEN 2 * Max({exact(i), at[i] - (at[i + 1] - at[i])})
                     ELSE exact(i) + at[i]
  IN  [i \in DOMAIN lines |->
         IF i > 1 /\ ~final(i - 1) THEN [at |-> 2 * at[i - 1], estimated |-> FALSE]
         ELSE IF final(i) THEN [at |-> 2 * at[i], estimated |-> FALSE]
         ELSE [at |-> estimate(i), estimated |-> TRUE]]

----------------------------------------------------------------------------
AllSpans == ownSpans \cup Range(tracker.spans)

TimingTypeOK ==
  /\ clock \in 0 .. MaxTime /\ told \in {"begun", "child", "exited", "finishing", "told"}
  /\ Len(written) <= MaxLines /\ Len(logged) <= Len(written)
  /\ \A s \in AllSpans : s.end \in -1 .. MaxTime

(* What the child wrote is delivered in order, each segment once (also when  *)
(* it was released before its terminator came) and stamped with the time its *)
(* last byte arrived; a redraw that has only partly arrived never is.        *)
StampedAsWritten ==
  LET sent == [i \in DOMAIN logged |-> [text |-> logged[i].text, stamp |-> logged[i].stamp]] \o output
  IN  sent \o Cut = written

(* The spans of a run that ended add up to its time: each moment between its *)
(* start and its end is in exactly one of them, whatever the child printed.  *)
SpansTile ==
  told = "told" =>
    /\ \A s \in AllSpans : s.start <= s.end /\ s.end <= clock
    /\ \A t \in 0 .. clock - 1 : Cardinality({s \in AllSpans : s.start <= t /\ t < s.end}) = 1

(* Within one span the counter only goes up, at times inside the span: a     *)
(* counter that starts over opens another.                                   *)
MarksRise ==
  \A s \in Range(tracker.spans) : \A i \in DOMAIN s.marks :
    /\ s.start <= s.marks[i][1] /\ s.marks[i][1] <= s.end
    /\ i > 1 => s.marks[i - 1][2] < s.marks[i][2] /\ s.marks[i - 1][1] <= s.marks[i][1]

(* The log tells the run as it was timed live, when one line of it was       *)
(* logged as it was stamped.                                                 *)
LogTellsTheRun ==
  (told = "told" /\ ~tracker.failed /\ \E i \in DOMAIN logged : logged[i].at = logged[i].stamp)
    => LoggedSpans(logged) = tracker.spans

(* From a log of late readings every reading is put back to when it was      *)
(* written, but for the ones flagged, and those are no later than logged.    *)
LagIsRemoved ==
  (told = "told" /\ source = "h3" /\ written # <<>> /\ \A i \in DOMAIN written : H3Readings(written[i].text, 0) # {})
    => LET at == LateLog(written, childAt.end)
           moved == RemoveLag(written, at, childAt.start)
       IN  \A i \in DOMAIN written :
             IF moved[i].estimated THEN 2 * childAt.start <= moved[i].at /\ moved[i].at <= 2 * at[i]
             ELSE moved[i].at = 2 * written[i].stamp

\* A run's stages are timed as the child wrote them, with no gap hidden, live and from a log.
TimelineTrue == StampedAsWritten /\ SpansTile /\ MarksRise /\ LogTellsTheRun /\ LagIsRemoved
=============================================================================
