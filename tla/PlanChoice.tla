----------------------------- MODULE PlanChoice -----------------------------
(* Which history a run is priced from (jobs/timing/fit.py): the tiers of     *)
(* FittedModel.plan, the fits it keeps, the stages it expects, and what the  *)
(* ring remembers of runs the history has lost (jobs/timing/ring.py,         *)
(* calibrate.py).  A fit is the set of runs it was made from and the         *)
(* features that vary in them; its numbers are left out.                     *)
EXTENDS Integers, Sequences, FiniteSets, FiniteSetsExt, Functions

CONSTANTS
  Samples,        \* what a complete run may be: backend, pipeline, model, build, work, fidelity, stages shown, step time
  PlanRequests,   \* the runs a forecast asks a plan for
  FactoryPoints,  \* the requests a measured factory point matches exactly
  Calibrated,     \* the backends a calibration knows
  MinSignatureRuns, MinSignatureExecutions, MinFitRuns, MinFitExecutions,  \* Tunables
  MinStageSamples, MinStageRows,                                           \* MIN_STAGE_SAMPLES, and the 4 of _duration
  MaxRuns         \* bound: runs ever recorded

VARIABLES
  history,    \* the complete runs the store holds, in order
  ringRuns,   \* the live ones the ring recorded, which outlive the history's pruning
  summaries,  \* the calibration's summary of each signature of the ring
  fits,       \* _fit_cache of the model made from history
  stageFits,  \* _stage_cache: the runs each stage's fit was made from
  tiers,      \* the fit tiers that have priced a pipeline's stages since the model was made
  made,       \* the plan made last, with its request
  before      \* the tier each request had before the run just recorded
planVars == <<history, ringRuns, summaries, fits, stageFits, tiers, made, before>>

NoNumber == -1
NoPlan == [tier |-> "none", fidelity |-> "none", rows |-> {}, executions |-> 0, stages |-> {}, changed |-> FALSE]
NoPlanYet == [request |-> "none", plan |-> NoPlan]
Made == made.plan.tier # "none"

Rows == {history[i] : i \in DOMAIN history}
NewestOf(rows) == CHOOSE r \in rows : \A q \in rows : q.at <= r.at
Executions(rows) == {r.execution : r \in rows}

(* A run's signature: everything that makes two runs the same job; the       *)
(* build is not in it.  The ring keeps of the compatibility switches only    *)
(* that one is set.                                                          *)
RunSignature(x) == <<x.backend, x.pipeline, x.model, x.work>>
SanitizedWorkload(work) == [work EXCEPT !.compatibility = IF @ = "none" THEN @ ELSE "set"]
Remembered(x) == <<x.backend, x.pipeline, x.model, SanitizedWorkload(x.work)>>

OfBackend(b) == {r \in Rows : r.backend = b}
Live(b) == {r \in OfBackend(b) : r.fidelity = "live" /\ r.steps}
Logged(b) == {r \in OfBackend(b) : r.fidelity # "live" /\ r.steps}

----------------------------------------------------------------------------
(* The ridge fit, by its features.                                           *)

IsText(name) == Len(name) = 2
FeatureValues(work) ==
  [name \in {<<"pixels">>, <<"text", work.text>>} \cup (IF work.number = NoNumber THEN {} ELSE {<<"number">>}) |->
     IF name = <<"pixels">> THEN work.pixels ELSE IF name = <<"number">> THEN work.number ELSE 1]

Value(features, name) == IF name \in DOMAIN features THEN features[name] ELSE 0

\* A number is a feature only where every run has it; a text any run has is one.
FitRidge(rows) ==
  LET names == {k \in UNION {DOMAIN r.features : r \in rows} : IsText(k) \/ \A r \in rows : k \in DOMAIN r.features}
      values == [k \in names |-> {Value(r.features, k) : r \in rows}]
      varying == {k \in names : Cardinality(values[k]) > 1}
  IN  [rows |-> rows, names |-> varying, constants |-> [k \in names \ varying |-> CHOOSE v \in values[k] : TRUE]]

Compatible(fit, request) ==
  /\ \A k \in fit.names : IsText(k) \/ k \in DOMAIN request
  /\ \A k \in DOMAIN fit.constants :
       IF IsText(k) THEN Value(request, k) = fit.constants[k]
       ELSE k \in DOMAIN request /\ request[k] = fit.constants[k]
  /\ \A k \in DOMAIN request : IsText(k) => k \in fit.names \cup DOMAIN fit.constants

----------------------------------------------------------------------------
(* The fit tiers, in the order they are tried.                               *)

Tried == <<[tier |-> "backend_fit", pooled |-> FALSE], [tier |-> "backend_fit", pooled |-> TRUE],
           [tier |-> "pipeline_fit", pooled |-> FALSE], [tier |-> "pipeline_fit", pooled |-> TRUE]>>

Scope(rows, tier, pipeline) == {r \in rows : tier = "pipeline_fit" \/ r.pipeline = pipeline}
FitRows(q, k) == Scope(Live(q.backend) \cup (IF Tried[k].pooled THEN Logged(q.backend) ELSE {}), Tried[k].tier, q.pipeline)
Enough(q, k) ==
  /\ Tried[k].pooled => Scope(Logged(q.backend), Tried[k].tier, q.pipeline) # {}
  /\ Cardinality(FitRows(q, k)) >= MinFitRuns /\ Cardinality(Executions(FitRows(q, k))) >= MinFitExecutions

\* A plausible bug: a fit of the live runs and one of all runs share an entry of the cache.
FitKey_NotPooled(q, k) == <<q.backend, IF Tried[k].tier = "backend_fit" THEN q.pipeline ELSE "any", Tried[k].tier, FALSE>>
FitKey(q, k) == <<q.backend, IF Tried[k].tier = "backend_fit" THEN q.pipeline ELSE "any", Tried[k].tier, Tried[k].pooled>>
Fit(q, k, cached) ==
  IF cached /\ FitKey(q, k) \in DOMAIN fits THEN fits[FitKey(q, k)] ELSE FitRidge(FitRows(q, k))

\* The pipeline tier tells the pipelines apart by an indicator, a text one of the fit's runs must have.
FitsRequest(q, k, cached) ==
  /\ Enough(q, k)
  /\ LET fit == Fit(q, k, cached)
     IN  /\ Compatible(fit, FeatureValues(q.work))
         /\ Tried[k].tier = "pipeline_fit" => \E r \in fit.rows : r.pipeline = q.pipeline
Fitting(q, cached) == {k \in DOMAIN Tried : FitsRequest(q, k, cached)}

----------------------------------------------------------------------------
(* The stages a plan expects.                                                *)

\* The newest run of the signature, else of the backend and pipeline: among the live runs, where there are any.
ExpectedRuns(q) ==
  LET live == {r \in OfBackend(q.backend) : r.fidelity = "live"}
      runs == IF live # {} THEN live ELSE OfBackend(q.backend)
      same == {r \in runs : RunSignature(r) = RunSignature(q)}
  IN  IF same # {} THEN same ELSE {r \in runs : r.pipeline = q.pipeline}

StageKey(q, name) == <<q.backend, q.pipeline, name>>
Showing(rows, name) == {r \in rows : name \in r.shows}
StageFitRows(q, name, scope, cached) ==
  IF cached /\ StageKey(q, name) \in DOMAIN stageFits THEN stageFits[StageKey(q, name)] ELSE Showing(scope, name)

Duration(q, name, same, scope, cached) ==
  IF Cardinality(Showing(same, name)) >= MinStageSamples THEN [name |-> name, by |-> "own", rows |-> Showing(same, name)]
  ELSE IF /\ Cardinality(Showing(scope, name)) >= MinStageRows
          /\ \E a, b \in Showing(scope, name) : a.work.pixels # b.work.pixels
       THEN [name |-> name, by |-> "fit", rows |-> StageFitRows(q, name, scope, cached)]
  ELSE [name |-> name, by |-> "median", rows |-> Showing(scope, name)]

\* The stage that counts steps is priced by the step time; a run that kept no series has none.
Stages(q, same, scope, cached) ==
  IF ExpectedRuns(q) = {} THEN {}
  ELSE LET shown == NewestOf(ExpectedRuns(q))
       IN  {IF name = "sampling" /\ shown.steps THEN [name |-> name, by |-> "steps", rows |-> {}]
            ELSE Duration(q, name, same, scope, cached) : name \in shown.shows}

----------------------------------------------------------------------------
(* The plans, best first.                                                    *)

BuildChanged(rows, q) == NewestOf(rows).build # q.build
Priced(tier, fidelity, rows, stages, q) ==
  [tier |-> tier, fidelity |-> fidelity, rows |-> rows, executions |-> Cardinality(Executions(rows)),
   stages |-> stages, changed |-> BuildChanged(rows, q)]
Unmeasured(tier) == [NoPlan EXCEPT !.tier = tier]

Same(q) == {r \in Live(q.backend) : RunSignature(r) = RunSignature(q)}
SignatureQualifies(q) == Cardinality(Same(q)) >= MinSignatureRuns /\ Cardinality(Executions(Same(q))) >= MinSignatureExecutions
SignaturePlan(q, cached) ==
  Priced("signature", "live", Same(q), Stages(q, Same(q), Scope(OfBackend(q.backend), "backend_fit", q.pipeline), cached), q)

FitPlan(q, k, cached) ==
  Priced(Tried[k].tier, IF Tried[k].pooled THEN "pooled" ELSE "live", Fit(q, k, cached).rows,
         Stages(q, {}, Scope(OfBackend(q.backend), Tried[k].tier, q.pipeline), cached), q)

\* What the calibration remembers of a signature the history has lost: as many runs and executions as tier 1 asks.
SummaryQualifies(q) ==
  \E s \in summaries : s.of = Remembered(q) /\ s.steps /\ s.count >= MinSignatureRuns /\ s.executions >= MinSignatureExecutions
SummaryPlan(q) == [Unmeasured("signature") EXCEPT !.fidelity = "remembered"]

\* A small sample of the same model: the runs of the signature, else the nearest one.
Candidates(q) ==
  LET all == {r \in OfBackend(q.backend) : r.pipeline = q.pipeline /\ r.model = q.model /\ r.steps}
      live == {r \in all : r.fidelity = "live"}
      kept == IF live # {} THEN live ELSE all
      built == {r \in kept : r.build = q.build}
  IN  IF built # {} THEN built ELSE kept
Gap(r, q) == IF r.work.pixels > q.work.pixels THEN r.work.pixels - q.work.pixels ELSE q.work.pixels - r.work.pixels
SparsePlan(q) ==
  LET candidates == Candidates(q)
      same == {r \in candidates : RunSignature(r) = RunSignature(q)}
      sample == IF same # {} THEN NewestOf(same) ELSE NewestOf({r \in candidates : \A c \in candidates : Gap(r, q) <= Gap(c, q)})
      stages == {[name |-> name, by |-> IF name = "sampling" THEN "steps" ELSE "sample", rows |-> {sample}] : name \in sample.shows}
  IN  [Priced("heuristic", sample.fidelity, IF same # {} THEN same ELSE {sample}, stages, q) EXCEPT !.changed = sample.build # q.build]

\* The first tier that prices the request, best first: the signature, the fits, what is remembered, and the guesses.
Rank(q, cached) ==
  IF SignatureQualifies(q) THEN 0
  ELSE LET fitting == Fitting(q, cached)
       IN  IF fitting # {} THEN Min(fitting)
           ELSE IF SummaryQualifies(q) THEN 5
           ELSE IF q \in FactoryPoints THEN 6
           ELSE IF Candidates(q) # {} THEN 7
           ELSE IF q.backend \in Calibrated THEN 8 ELSE 9

PlanAt(q, rank, cached) ==
  CASE rank = 0 -> SignaturePlan(q, cached)
    [] rank \in DOMAIN Tried -> FitPlan(q, rank, cached)
    [] rank = 5 -> SummaryPlan(q)
    [] rank = 6 -> Unmeasured("factory")
    [] rank = 7 -> SparsePlan(q)
    [] rank = 8 -> Unmeasured("heuristic")
    [] rank = 9 -> Unmeasured("live_only")

----------------------------------------------------------------------------
(* The actions.                                                              *)

NewModel == fits' = <<>> /\ stageFits' = <<>> /\ tiers' = {} /\ made' = NoPlanYet

\* plan: every fit tried on the way is kept, and every stage's fit.
MakePlan(q) ==
  /\ LET rank == Rank(q, TRUE)
         plan == PlanAt(q, rank, TRUE)
         tried == {k \in DOMAIN Tried : rank # 0 /\ k <= rank /\ FitKey(q, k) \notin DOMAIN fits /\ Enough(q, k)}
         keyed == [key \in {FitKey(q, k) : k \in tried} |-> CHOOSE k \in tried : FitKey(q, k) = key]
         learned == {s \in plan.stages : s.by = "fit" /\ StageKey(q, s.name) \notin DOMAIN stageFits}
     IN  /\ made' = [request |-> q, plan |-> plan]
         /\ fits' = [key \in DOMAIN fits \cup DOMAIN keyed |-> IF key \in DOMAIN fits THEN fits[key] ELSE FitRidge(FitRows(q, keyed[key]))]
         /\ stageFits' = [key \in DOMAIN stageFits \cup {StageKey(q, s.name) : s \in learned} |->
                            IF key \in DOMAIN stageFits THEN stageFits[key] ELSE (CHOOSE s \in learned : StageKey(q, s.name) = key).rows]
         /\ tiers' = tiers \cup {<<q.backend, q.pipeline, plan.tier = "pipeline_fit">> : s \in {t \in plan.stages : t.by = "fit"}}
  /\ before' = <<>> /\ UNCHANGED <<history, ringRuns, summaries>>

\* A run completes (a log's import adds one the same way), and the model is made again.
Learn(s, another) ==
  LET last == IF history = <<>> THEN 0 ELSE history[Len(history)].execution
      at == IF history = <<>> THEN 1 ELSE history[Len(history)].at + 1
      run == [backend |-> s.backend, pipeline |-> s.pipeline, model |-> s.model, build |-> s.build, work |-> s.work,
              fidelity |-> s.fidelity, shows |-> s.shows, steps |-> s.steps, features |-> FeatureValues(s.work),
              execution |-> IF another THEN last + 1 ELSE last, at |-> at]
  IN  /\ history = <<>> => another
      /\ at <= MaxRuns
      /\ history' = Append(history, run)
      /\ ringRuns' = IF s.fidelity = "live" THEN ringRuns \cup {run} ELSE ringRuns
      /\ before' = [q \in PlanRequests |-> Rank(q, FALSE)]
      /\ NewModel /\ UNCHANGED summaries

\* Retention takes the oldest execution; the newest stays here, so that numbers go on.
Forget ==
  /\ history # <<>> /\ history[1].execution # history[Len(history)].execution
  /\ history' = SelectSeq(history, LAMBDA r : r.execution # history[1].execution)
  /\ before' = <<>> /\ NewModel /\ UNCHANGED <<ringRuns, summaries>>

\* _summaries, of every run of the signature: also one that has no step time counts.
Calibrate ==
  /\ summaries' = {LET of == {r \in ringRuns : Remembered(r) = sig}
                   IN  [of |-> sig, count |-> Cardinality(of), executions |-> Cardinality(Executions(of)), steps |-> \E r \in of : r.steps]
                   : sig \in {Remembered(r) : r \in ringRuns}}
  /\ summaries' # summaries
  /\ before' = <<>> /\ NewModel /\ UNCHANGED <<history, ringRuns>>

PlanInit == history = <<>> /\ ringRuns = {} /\ summaries = {} /\ fits = <<>> /\ stageFits = <<>> /\ tiers = {} /\ made = NoPlanYet /\ before = <<>>
PlanNext ==
  \/ \E q \in PlanRequests : MakePlan(q)
  \/ \E s \in Samples, another \in BOOLEAN : Learn(s, another)
  \/ Forget \/ Calibrate
PlanSpec == PlanInit /\ [][PlanNext]_planVars

----------------------------------------------------------------------------
PlanTypeOK == ~Made \/ made.request \in PlanRequests

(* A plan is what its history supports, whatever was planned before it: the  *)
(* fits kept from earlier requests are the ones a new model would make.  A   *)
(* stage's fit is too, unless the pipeline's stages were priced both over    *)
(* the pipeline and over all of them.                                        *)
PlanIsHistorys ==
  Made =>
    LET q == made.request
        fresh == PlanAt(q, Rank(q, FALSE), FALSE)
        named(stages) == {[name |-> s.name, by |-> s.by] : s \in stages}
    IN  /\ [made.plan EXCEPT !.stages = {}] = [fresh EXCEPT !.stages = {}]
        /\ named(made.plan.stages) = named(fresh.stages)
        /\ made.plan.stages # fresh.stages => \A all \in BOOLEAN : <<q.backend, q.pipeline, all>> \in tiers

(* A plan that prices steps from history expects the stages of a run: only a *)
(* pipeline seen in logs alone, on a backend with live runs, has none, and   *)
(* only the newest run's missing steps leave the steps out of it.            *)
StagesExpected ==
  Made =>
    LET q == made.request
    IN  made.plan.tier \in {"backend_fit", "pipeline_fit"} \/ (made.plan.tier = "signature" /\ made.plan.fidelity = "live") =>
          /\ made.plan.stages = {} =>
               /\ {r \in OfBackend(q.backend) : r.fidelity = "live"} # {}
               /\ \A r \in OfBackend(q.backend) : r.pipeline = q.pipeline => r.fidelity # "live"
          /\ made.plan.stages # {} /\ (\A s \in made.plan.stages : s.by # "steps") => ~NewestOf(ExpectedRuns(q)).steps

(* What is remembered of a signature is its own runs': the ring's live ones  *)
(* of the same work, at least as many and of as many executions as tier 1    *)
(* asks of the history.                                                      *)
RememberedIsReal ==
  Made /\ made.plan.fidelity = "remembered" =>
    LET of == {r \in ringRuns : Remembered(r) = Remembered(made.request)}
    IN  /\ Cardinality(of) >= MinSignatureRuns /\ Cardinality(Executions(of)) >= MinSignatureExecutions
        /\ \E r \in of : r.steps
        /\ \A r \in of : [r.work EXCEPT !.compatibility = "none"] = [made.request.work EXCEPT !.compatibility = "none"]

(* One more run never makes a plan rest on less: no request falls to a later *)
(* tier because a run was recorded or imported.                              *)
HistoryNeverHurts == \A q \in DOMAIN before : Rank(q, FALSE) <= before[q]

PlansTrue == PlanTypeOK /\ PlanIsHistorys /\ StagesExpected /\ RememberedIsReal /\ HistoryNeverHurts
=============================================================================
