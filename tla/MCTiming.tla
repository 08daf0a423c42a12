------------------------------ MODULE MCTiming ------------------------------
(* The timing knobs and the forecasts: the files of the knobs, what a group  *)
(* of them learns from, the rows of the timing history, the plans it gives a *)
(* run, one job's published forecast, the forecast that stands while entries *)
(* come and go, and the replay that judges an estimator.  A behaviour moves  *)
(* one of the seven.                                                         *)
EXTENDS KnobFiles, KnobLearning, TimingRows, PlanChoice, ForecastPublisher, ForecastFlow, TimingReplay

(* Two pipelines of a backend: one with live runs of two sizes, one known    *)
(* from logs alone, and a run whose steps were never seen.                   *)
MCWork(pixels, text, number, switch) == [pixels |-> pixels, text |-> text, number |-> number, compatibility |-> switch]
MCSample(pipeline, work, fidelity, steps) ==
  [backend |-> "h3", pipeline |-> pipeline, model |-> "m", build |-> 1, work |-> work,
   fidelity |-> fidelity, shows |-> {"load", "sampling"}, steps |-> steps]
MCSamples ==
  {MCSample("a", MCWork(1, "x", 1, "none"), "live", TRUE), MCSample("a", MCWork(2, "x", 1, "c1"), "live", TRUE),
   MCSample("a", MCWork(1, "x", 1, "none"), "live", FALSE), MCSample("b", MCWork(1, "y", NoNumber, "none"), "log", TRUE)}
MCRequest(pipeline, work) == [backend |-> "h3", pipeline |-> pipeline, model |-> "m", build |-> 1, work |-> work]
MCRequests ==
  {MCRequest("a", MCWork(1, "x", 1, "none")), MCRequest("a", MCWork(2, "x", 1, "c2")),
   MCRequest("a", MCWork(2, "y", 1, "none")), MCRequest("b", MCWork(1, "x", 1, "none"))}

(* Recorded runs: one that steps evenly, one whose steps have no marks and   *)
(* that loads first, one whose work goes on after the steps, and one whose   *)
(* pace changes.                                                             *)
MCStage(name, source, start, end, total, marks) ==
  [stage |-> name, source |-> source, start |-> start, end |-> end, total |-> total, marks |-> marks]
MCStages ==
  [even  |-> <<MCStage("sampling", "child", 0, 48, 2, <<<<0, 0>>, <<24, 1>>, <<48, 2>>>>)>>,
   plain |-> <<MCStage("prepare", FRAMECONTROL, -24, 0, 0, <<>>), MCStage("load", "child", 0, 24, 0, <<>>), MCStage("sampling", "child", 24, 48, 2, <<>>)>>,
   late  |-> <<MCStage("sampling", "child", 0, 24, 3, <<<<0, 0>>, <<16, 2>>, <<24, 3>>>>), MCStage("verify", FRAMECONTROL, 24, 48, 0, <<>>)>>,
   rough |-> <<MCStage("denoise", "child", 0, 72, 2, <<<<0, 0>>, <<24, 1>>, <<72, 2>>>>), MCStage("verify", FRAMECONTROL, 72, 96, 0, <<>>)>>]
MCRun(number, kind, backend, work, fidelity) ==
  [run |-> number, backend |-> backend, pipeline |-> "p", workload |-> work, fidelity |-> fidelity, stages |-> MCStages[kind]]
MCSeconds == [
  off    |-> [mode |-> "off"],
  manual |-> [mode |-> "manual", seconds |-> 24],
  auto   |-> [mode |-> "auto", ratio |-> 50, minimum |-> 8, maximum |-> 36]]
MCExecution(number, mode, waits, runs) == [number |-> number, cooldown |-> MCSeconds[mode], waits |-> waits, runs |-> runs]

MCOne(kind, fidelity) == <<MCRun(1, kind, "h3", 1, fidelity)>>
MCTwo == {<<MCRun(1, k, "h3", 1, "live"), MCRun(2, l, b[1], b[2], "live")>> :
            k \in DOMAIN MCStages, l \in DOMAIN MCStages, b \in {<<"h3", 1>>, <<"h3", 2>>, <<"dt", 1>>}}
MCStores ==
  {<<MCExecution(1, "off", <<>>, MCOne(o[1], "live")), MCExecution(2, w[1], w[2], runs), MCExecution(3, "off", <<>>, MCOne(o[1], o[2]))>> :
     o \in {<<"even", "live">>, <<"rough", "log">>}, w \in {<<"manual", <<>>>>, <<"auto", <<>>>>, <<"auto", <<4>>>>}, runs \in MCTwo}

(* The whole history left out one at a time, and some of it by folds; the    *)
(* runs of one backend are asked for where there are two.                    *)
MCReplays ==
  {[store |-> s, how |-> [estimator |-> e, backend |-> b, folds |-> f]] :
     s \in MCStores, e \in {"constant-pace", "last-signature"}, b \in {"any", "h3"}, f \in {0, 2}}
MCReplay(replay) ==
  /\ replay.how.backend = "h3" => replay.store[2].runs[2].backend = "dt"
  /\ replay.how.folds = 2 =>
       /\ replay.how.backend = "any" /\ replay.store[2].waits # <<>>
       /\ replay.store[2].runs[1] = [replay.store[2].runs[2] EXCEPT !.run = 1]

VARIABLE part

TimingInit ==
    /\ part \in {"files", "learning", "rows", "plans", "publisher", "flow", "replay"}
    /\ KnobInit /\ LearnInit /\ PlanInit /\ FlowInit
    /\ IF part = "rows" THEN TimingRowInit ELSE RowsStart([e \in Numbers |-> NotYet])
    /\ PublisherInit /\ (part # "publisher" => ~fc.planned)
    /\ IF part = "replay" THEN \E replay \in MCReplays : MCReplay(replay) /\ ReplayStart(replay.store, replay.how)
       ELSE ReplayStart(<<>>, [estimator |-> "constant-pace", backend |-> "any", folds |-> 0])

TimingNext ==
    /\ UNCHANGED part
    /\ \/ part = "files" /\ KnobNext /\ UNCHANGED <<learnVars, planVars, timingRowVars, publisherVars, flowVars, replayVars>>
       \/ part = "learning" /\ LearnNext /\ UNCHANGED <<knobVars, planVars, timingRowVars, publisherVars, flowVars, replayVars>>
       \/ part = "rows" /\ TimingRowNext /\ UNCHANGED <<knobVars, learnVars, planVars, publisherVars, flowVars, replayVars>>
       \/ part = "plans" /\ PlanNext /\ UNCHANGED <<knobVars, learnVars, timingRowVars, publisherVars, flowVars, replayVars>>
       \/ part = "publisher" /\ PublisherNext /\ UNCHANGED <<knobVars, learnVars, planVars, timingRowVars, flowVars, replayVars>>
       \/ part = "flow" /\ FlowNext /\ UNCHANGED <<knobVars, learnVars, planVars, timingRowVars, publisherVars, replayVars>>
       \/ part = "replay" /\ ReplayNext /\ UNCHANGED <<knobVars, learnVars, planVars, timingRowVars, publisherVars, flowVars>>

(* What a plan is made of, the rows of the history and what they support,    *)
(* and what the forecasts are judged by.                                     *)
HistoryTold ==
    /\ part = "rows" => TimingRowsTrue
    /\ part = "plans" => PlansTrue
    /\ part = "replay" => ReplayFair

TimingSpec == TimingInit /\ [][TimingNext]_<<part, knobVars, learnVars, planVars, timingRowVars, publisherVars, flowVars, replayVars>>
=============================================================================
