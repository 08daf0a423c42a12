---------------------------- MODULE JobCompile ----------------------------
(* A version-2 job from its file to the images its runs read: RunCompiler   *)
(* resolves every run (jobs/compile_v2.py), the adapters validate each      *)
(* run's view (jobs/parsing.py, backends/h3.py), the planner names its      *)
(* files (jobs/planning.py), the executor prepares every handoff, and a     *)
(* resume compiles the stored text again, its first input perhaps gone      *)
(* (services/queue_submit.py).                                              *)
(*                                                                          *)
(* A job file is abstract: its catalogs are functions, its texts are names, *)
(* seconds are counted in 1/Unit, a reference is its kind, the bytes of its *)
(* files and how long they last, and what YAML could get wrong in shape (a  *)
(* missing mapping, an unknown key, a bad name) is refused before this      *)
(* model starts.                                                            *)
EXTENDS Integers, Sequences, FiniteSets
LOCAL INSTANCE FiniteSetsExt

CONSTANTS
    Files,        \* job files: [input, prompts, references, profiles, defaults, runs]
    FrameRate,    \* nominal frames per second of the Draw Things model, 0 when none is established
    CliSizes,     \* sizes draw-things-cli may choose for a run whose size nothing states
    Unit,         \* the parts a second is counted in
    MaxFileBytes, MaxBytes  \* max_reference_file_bytes and max_reference_bytes of the API's limits

VARIABLES
    file,         \* the job file, fixed by its text in the queue
    gone,         \* whether the job's input file is no longer there
    step,         \* where the compiler, then the executor, is
    selected,     \* the _Selection of each run
    compiled,     \* the EffectiveRun of each run
    views,        \* RunCompiler._views, the views built so far by key
    stored,       \* the compiled job the queue stored, <<>> before its submission is done
    copies,       \* the reference pairs whose stored copies are all as they were copied
    first,        \* the first run of this start, 1 unless it resumes
    artifact      \* the image the last run left: [kind, size]

jobVars == <<file, gone, step, selected, compiled, views, stored, copies, first, artifact>>

----------------------------------------------------------------------------
(* The sizes of the images the runs read (jobs/inputs/size.py, the size     *)
(* rules of jobs/parsing.py and of both adapters).  A size is a pair        *)
(* <<width, height>>; sizes the code keeps as exact fractions are compared  *)
(* here by cross multiplication, and `_round' is rounding half up.          *)

SIZE_STEP == 64
MAX_DESIRED_SIZE == 8192
DEFAULT_MAX_CROP_PERCENT == 10

NoSize == <<0, 0>>
\* An input_resize block: 0 is a key the profile does not write.
NoDesired == [width |-> 0, height |-> 0, crop |-> DEFAULT_MAX_CROP_PERCENT]
\* What the properties tell of a ResizePlan.
NoPlan == [desired |-> NoDesired, target |-> NoSize, fit |-> "none"]
Refusal == [desired |-> NoDesired, target |-> NoSize, fit |-> "refused"]

Larger(a, b) == IF a > b THEN a ELSE b
Smaller(a, b) == IF a < b THEN a ELSE b

\* floor_to_step of the fraction num / den.
floor_to_step(num, den) == (num \div (den * SIZE_STEP)) * SIZE_STEP

\* _round: half up.
RoundHalfUp(num, den) == (2 * num + den) \div (2 * den)

\* A desired width or height, floored; the plan is refused when it floors to 0.
Floored(value) == floor_to_step(value, 1)

\* The target: what is written is floored, what is not is derived from the image's aspect ratio.
Target(size, d) ==
    LET w == IF d.width # 0 THEN Floored(d.width) ELSE floor_to_step(Floored(d.height) * size[1], size[2])
        h == IF d.height # 0 THEN Floored(d.height) ELSE floor_to_step(Floored(d.width) * size[2], size[1])
    IN  <<w, h>>

InRange(value) == value >= SIZE_STEP /\ value <= MAX_DESIRED_SIZE

Cropping(d) == d.width = 0 \/ d.height = 0

\* The scaled picture, as a fraction of the image: the larger of the two scales when it is cropped, the smaller when bars
\* are added.
Scaled(size, target, cover) ==
    LET wide == target[1] * size[2] >= target[2] * size[1]
        num == IF wide = cover THEN target[1] ELSE target[2]
        den == IF wide = cover THEN size[1] ELSE size[2]
        pick(a, b) == IF cover THEN Larger(a, b) ELSE Smaller(a, b)
    IN  <<pick(RoundHalfUp(size[1] * num, den), target[1]), pick(RoundHalfUp(size[2] * num, den), target[2])>>

CropsTooMuch(scaled, target, percent) ==
    \E i \in 1..2 : (scaled[i] - target[i]) * 100 > percent * scaled[i]

\* resize_plan
resize_plan(size, d) ==
    LET target == Target(size, d)
        scaled == Scaled(size, target, Cropping(d))
        plan(fit) == [desired |-> d, target |-> target, fit |-> fit]
    IN  IF ~InRange(target[1]) \/ ~InRange(target[2]) THEN Refusal
        ELSE IF size = target THEN plan("none")
        ELSE IF Cropping(d) /\ CropsTooMuch(scaled, target, d.crop) THEN Refusal
        ELSE plan(IF scaled = target THEN "scale" ELSE IF Cropping(d) THEN "crop" ELSE "letterbox")

\* copy_plan: the image, already of the run's size.
copy_plan(size) == [NoPlan EXCEPT !.target = size]

\* _centre_crop_plan of the H3 adapter: any image is cropped to the profile's width and height.
centre_crop_plan(width, height) ==
    [desired |-> [NoDesired EXCEPT !.width = width, !.height = height], target |-> <<width, height>>, fit |-> "crop"]

----------------------------------------------------------------------------
(* The compilation.                                                         *)

DT == "draw-things-cli"
H3 == "h3-metal-cli"
VISUAL_INPUT_PIPELINES == {"i2i", "i2v", "i2av"}
TIMED_PIPELINES == {"i2v", "t2v", "i2av", "r2av"}
H3_FPS == 24
Runs == 1..Len(file.runs)
NoSeed == -1
NoImage == [kind |-> "none", size |-> NoSize]
Has(knobs, key) == key \in DOMAIN knobs

---------------------------------------------------------------------------
(* Defaults and knobs. *)

Applicable(backend, pipeline) ==
    {"seed", "timeout_seconds"}
        \cup (IF pipeline \in TIMED_PIPELINES THEN {"seconds"} ELSE {})
        \cup (IF backend = DT /\ pipeline \in {"i2v", "t2v"} THEN {"frames"} ELSE {})
        \cup (IF pipeline = "r2av" THEN {"reference_pair"} ELSE {})

\* _check_knobs: what one mapping of knobs may hold, by itself.
KnobsAllowed(knobs, backend, pipeline) ==
    /\ DOMAIN knobs \subseteq Applicable(backend, pipeline)
    /\ Has(knobs, "seconds") => /\ knobs["seconds"] > 0
                                /\ backend = H3 => knobs["seconds"] >= Unit /\ knobs["seconds"] <= 15 * Unit
    /\ Has(knobs, "frames") => knobs["frames"] >= 1
    /\ ~(Has(knobs, "seconds") /\ Has(knobs, "frames"))
    /\ Has(knobs, "reference_pair") => knobs["reference_pair"] \in DOMAIN file.references

\* _check_names, of a run or of a defaults block; "" is a name it leaves to the other.
NamesAllowed(item) ==
    /\ item.prompt_pair # "" => /\ item.prompt_pair \in DOMAIN file.prompts
                                /\ ~(item.backend = H3 /\ file.prompts[item.prompt_pair].negative)
    /\ item.settings_profile # "" => /\ item.settings_profile \in DOMAIN file.profiles
                                     /\ file.profiles[item.settings_profile].backend = item.backend

Selects(block, item) == block.backend = item.backend /\ block.pipeline = item.pipeline

\* _defaults
DefaultsAllowed ==
    /\ \A i, j \in 1..Len(file.defaults) : i # j => ~Selects(file.defaults[i], file.defaults[j])
    /\ \A i \in 1..Len(file.defaults) :
        LET block == file.defaults[i] IN NamesAllowed(block) /\ KnobsAllowed(block.knobs, block.backend, block.pipeline)

NoBlock == [prompt_pair |-> "", settings_profile |-> "", knobs |-> <<>>]
Block(item) ==
    IF \E i \in 1..Len(file.defaults) : Selects(file.defaults[i], item)
    THEN file.defaults[CHOOSE i \in 1..Len(file.defaults) : Selects(file.defaults[i], item)] ELSE NoBlock

Temporal == {"seconds", "frames"}
\* Mutant of the next: a run's own seconds leave a default's frames standing.
Inherited_All(own, block) == DOMAIN block

\* A run's own temporal knob replaces the default's, whichever of seconds and frames each of them names.
Inherited(own, block) ==
    IF DOMAIN own \cap Temporal # {} THEN DOMAIN block \ Temporal ELSE DOMAIN block

Merged(own, block) ==
    [key \in DOMAIN own \cup Inherited(own, block) |-> IF Has(own, key) THEN own[key] ELSE block[key]]
Sources(own, block) ==
    [key \in DOMAIN own \cup Inherited(own, block) |-> IF Has(own, key) THEN "run" ELSE "defaults"]

\* _check_resolved
ResolvedAllowed(item, knobs) ==
    /\ Has(knobs, "timeout_seconds")
    /\ item.backend = H3 => Has(knobs, "seconds")
    /\ item.pipeline = "r2av" => Has(knobs, "reference_pair")

Or(own, inherited) == IF own # "" THEN own ELSE inherited

\* _select, of run i.
Selection(i) ==
    LET item == file.runs[i]
        block == Block(item)
    IN  [number |-> i, backend |-> item.backend, pipeline |-> item.pipeline,
         prompt |-> Or(item.prompt_pair, block.prompt_pair),
         profile |-> Or(item.settings_profile, block.settings_profile),
         knobs |-> Merged(item.knobs, block.knobs), sources |-> Sources(item.knobs, block.knobs)]
SelectionAllowed(i) ==
    LET item == file.runs[i]
        s == Selection(i)
    IN  /\ NamesAllowed(item)
        /\ s.prompt # "" /\ s.profile # ""
        /\ ~(item.backend = H3 /\ file.prompts[s.prompt].negative)
        /\ KnobsAllowed(item.knobs, item.backend, item.pipeline)
        /\ ResolvedAllowed(item, s.knobs)

\* _check_profile_scope: a setting that only some pipelines use needs a run of one of them.
ScopeAllowed(name) ==
    LET profile == file.profiles[name]
        pipelines == {selected[i].pipeline : i \in {j \in Runs : selected[j].profile = name}}
    IN  IF profile.backend = H3 THEN profile.color.anchor # "none" => "i2av" \in pipelines
        ELSE profile.color.keys # {} => pipelines # {"i2i"}

\* _check_all_used: every declared selector and name is used by some run.
AllUsed ==
    /\ \A i \in 1..Len(file.defaults) : \E j \in Runs : Selects(file.defaults[i], selected[j])
    /\ DOMAIN file.prompts \subseteq {selected[i].prompt : i \in Runs}
    /\ DOMAIN file.profiles \subseteq {selected[i].profile : i \in Runs}
    /\ DOMAIN file.references \subseteq {selected[i].knobs["reference_pair"] : i \in {j \in Runs : Has(selected[j].knobs, "reference_pair")}}
    /\ \A name \in DOMAIN file.profiles : ScopeAllowed(name)

Visual(i) == selected[i].pipeline \in VISUAL_INPUT_PIPELINES

\* _input: an image exactly when the first run reads one; a resume may do without the file.
InputAllowed ==
    /\ Visual(1) <=> file.input # NoSize
    /\ file.input # NoSize => ~gone \/ first > 1

---------------------------------------------------------------------------
(* One run's view, and the size of what it leaves. *)

\* effective_frames: the nearest count of H3's 17n + 5 grid, rounding half up.
effective_frames(frames) == Smaller(362, Larger(5, 5 + 17 * ((2 * (frames - 5) + 17) \div 34)))

FramesOf(seconds, fps) == RoundHalfUp(seconds * fps, Unit)

\* _derive_temporal: the frames a run's knobs, else its base configuration, give; -1 when they cannot be resolved, 0 when
\* nothing states a count.
DerivedFrames(s) ==
    LET profile == file.profiles[s.profile]
    IN  IF s.backend = H3 THEN FramesOf(s.knobs["seconds"], H3_FPS)
        ELSE IF s.pipeline = "i2i" THEN 0
        ELSE IF Has(s.knobs, "frames") THEN s.knobs["frames"]
        ELSE IF ~Has(s.knobs, "seconds") THEN profile.frames
        ELSE IF FrameRate = 0 \/ FramesOf(s.knobs["seconds"], FrameRate) < 1 THEN -1
        ELSE FramesOf(s.knobs["seconds"], FrameRate)

\* output_size of both adapters.
OutputSize(view) == IF view.backend = DT /\ view.size # NoSize THEN view.size ELSE view.config

\* _input_size: how a Draw Things run prepares the image it reads.  known is the size of the handoff it reads, NoSize for
\* the job's input; missing says that neither is there to be read.
InputSize(s, known, missing, saved) ==
    LET profile == file.profiles[s.profile]
        resize == profile.desired # NoDesired
        held(target) == [desired |-> [NoDesired EXCEPT !.width = target[1], !.height = target[2]], target |-> target, fit |-> "none"]
    IN  IF s.pipeline \notin VISUAL_INPUT_PIPELINES THEN NoPlan
        ELSE IF known # NoSize THEN IF resize THEN resize_plan(known, profile.desired) ELSE copy_plan(known)
        ELSE IF missing /\ resize /\ saved # NoPlan THEN saved
        ELSE IF missing THEN IF profile.size = NoSize THEN Refusal ELSE held(profile.size)
        ELSE IF resize THEN resize_plan(file.input, profile.desired)
        ELSE IF profile.size = file.input THEN copy_plan(file.input) ELSE Refusal

\* The keys a color block may write beside its anchor, by what the anchor corrects towards.
ColorKeys(anchor) ==
    IF anchor = "none" THEN {"anchor"}
    ELSE {"anchor", "strength", "regions"} \cup (IF anchor \in {"first", "blend"} THEN {"reanchor"} ELSE {})
                                          \cup (IF anchor = "blend" THEN {"first_weight"} ELSE {})

\* _color: a still image's view has no color block.
ColorAllowed(s) == s.pipeline = "i2i" \/ file.profiles[s.profile].color.keys \subseteq ColorKeys(file.profiles[s.profile].color.anchor)

\* parse_draw_things, of what a run's view may hold: a t2v profile may not ask for a resize.
DrawThingsAllowed(s, plan) ==
    /\ plan.fit # "refused"
    /\ ColorAllowed(s)
    /\ ~(s.pipeline = "t2v" /\ file.profiles[s.profile].desired # NoDesired)

\* _draw_things_view: a resize plan sets the run's size.
DrawThingsView(s, known, missing, saved) ==
    LET profile == file.profiles[s.profile]
        resize == profile.desired # NoDesired
        plan == InputSize(s, known, missing, saved)
    IN  [backend |-> DT, pipeline |-> s.pipeline, prompt |-> s.prompt, frames |-> DerivedFrames(s), knobs |-> s.knobs,
         config |-> profile.size,
         size |-> IF resize /\ s.pipeline # "t2v" THEN plan.target ELSE NoSize,
         resizes |-> resize, plan |-> plan,
         valid |-> DrawThingsAllowed(s, plan) /\ DerivedFrames(s) # -1]

\* _settings of the H3 adapter.
H3SettingsAllowed(size, frames) ==
    /\ \A i \in 1..2 : size[i] >= 32 /\ size[i] % 32 = 0
    /\ size[1] * size[2] <= 768 * 1344
    /\ frames >= 24 /\ frames <= 360

\* H3Backend.parse_job: every image is cropped to the profile's size, whether or not the file is there to be measured.
H3Plan(s) ==
    LET size == file.profiles[s.profile].size
    IN  IF s.pipeline = "i2av" THEN centre_crop_plan(size[1], size[2]) ELSE NoPlan

VideoKinds == {"video", "video_audio", "silent_video"}
SoundKinds == {"audio", "video", "video_audio"}
InSeconds(length) == length >= 2 * Unit /\ length <= 15 * Unit

\* _inspect_audio
SoundAllowed(entry) == InSeconds(entry.sound)

\* _inspect_reference
Inspected(entry) ==
    /\ entry.kind \in VideoKinds => InSeconds(entry.video)
    /\ entry.kind \in SoundKinds => SoundAllowed(entry)

\* What a run of so many frames hears of a reference: a video's sound no longer than the video, nor than the run.
Consumed(entry, frames) ==
    CASE entry.kind = "audio" -> entry.sound
      [] entry.kind \in {"video", "video_audio"} -> Smaller(Smaller(entry.sound, entry.video), (frames * Unit) \div H3_FPS)
      [] OTHER -> 0

FilesOf(pairs) == {<<name, n, k>> \in pairs \X (1..12) \X (1..2) :
                    n \in DOMAIN file.references[name] /\ k \in DOMAIN file.references[name][n].bytes}
BytesAllowed(pairs) ==
    LET size(f) == file.references[f[1]][f[2]].bytes[f[3]]
    IN  (\A f \in FilesOf(pairs) : size(f) <= MaxFileBytes) /\ MapThenSumSet(size, FilesOf(pairs)) <= MaxBytes

\* snapshot_references: the limit of all bytes is that of every pair's files together.
SnapshotAllowed == BytesAllowed(DOMAIN file.references)

\* Mutant of the next: a resume looks for the pairs of every run.
StillUsed_Any(from) == DOMAIN file.references

\* The pairs parse_snapshot calls active: of a start at the first run all, of a later one those the stored plan still uses.
StillUsed(from) ==
    IF from = 1 THEN DOMAIN file.references
    ELSE {stored[i].view.knobs["reference_pair"] : i \in {j \in from..Len(stored) : stored[j].view.pipeline = "r2av"}}

\* _reference_pairs, of the one pair an r2av run's view has: a stored copy's bytes are not counted again, and a pair only
\* finished runs used is not looked at.
PairAllowed(name, frames) ==
    LET pair == file.references[name]
        inactive == stored # <<>> /\ name \notin StillUsed(first)
        among(kinds) == {n \in DOMAIN pair : pair[n].kind \in kinds}
        heard(n) == Consumed(pair[n], frames)
    IN  /\ pair # <<>> /\ Len(pair) <= 12
        /\ stored # <<>> \/ BytesAllowed({name})
        /\ inactive \/ \A n \in DOMAIN pair : Inspected(pair[n])
        /\ among({"video", "video_audio"}) # {} => frames >= 56
        /\ Cardinality(among({"image"})) <= 9 /\ Cardinality(among(VideoKinds)) <= 3 /\ Cardinality(among(SoundKinds)) <= 3
        /\ among({"image"} \cup VideoKinds) # {}
        /\ inactive \/ MapThenSumSet(heard, DOMAIN pair) <= 15 * Unit

\* _h3_view
H3View(s) ==
    LET profile == file.profiles[s.profile]
        frames == DerivedFrames(s)
    IN  [backend |-> H3, pipeline |-> s.pipeline, prompt |-> s.prompt, frames |-> effective_frames(frames), knobs |-> s.knobs,
         config |-> profile.size, size |-> NoSize, resizes |-> s.pipeline = "i2av", plan |-> H3Plan(s),
         valid |-> /\ H3SettingsAllowed(profile.size, frames) /\ ColorAllowed(s)
                   /\ s.pipeline = "r2av" => PairAllowed(s.knobs["reference_pair"], effective_frames(frames))]

\* Mutant of the next: the stored plan of the first input is not handed on.
SavedPlan_Lost == NoPlan

\* The plan the stored settings keep for the first input (_first_input_plan), when the queue stored one.
SavedPlan == IF stored # <<>> /\ stored[1].view.resizes THEN stored[1].view.plan ELSE NoPlan

Consumes(i) == i > 1 /\ Visual(i)
HandoffSize(i) == IF Consumes(i) THEN OutputSize(compiled[i - 1].view) ELSE NoSize

View(i) ==
    LET s == selected[i]
    IN  IF s.backend = H3 THEN H3View(s) ELSE DrawThingsView(s, HandoffSize(i), i > 1 \/ gone, SavedPlan)

\* Mutant of the next: the key without the input the run reads.
ViewKey_NoInput(i) ==
    LET s == selected[i] IN <<s.backend, s.pipeline, s.prompt, s.profile, s.knobs>>

\* The key of _compile_run under which a view is kept and used again.
ViewKey(i) ==
    LET s == selected[i]
    IN  <<s.backend, s.pipeline, s.prompt, s.profile, s.knobs,
          IF Consumes(i) THEN i - 1 ELSE IF Visual(i) THEN 0 ELSE -1, HandoffSize(i)>>

Kept(key) == {entry \in views : entry.key = key}

\* Mutant of the next: no edge is checked.
EdgeAllowed_Any(i) == TRUE

\* _check_edge: a handoff into a run without input_resize is already the size its profile generates.
EdgeAllowed(i) ==
    LET view == compiled[i].view
        have == OutputSize(compiled[i - 1].view)
        need == OutputSize(view)
    IN  view.backend = H3 \/ view.resizes \/ have = NoSize \/ need = NoSize \/ have = need

EdgesAllowed == \A i \in Runs : Consumes(i) => EdgeAllowed(i)

\* What effective_plan shows of a run, which a resume compares with the stored plan.
PublicPlan(run) == [sources |-> run.sources, knobs |-> run.view.knobs, frames |-> run.view.frames, size |-> run.view.size]

\* _root: what the job says of its runs together.
Root(runs) ==
    LET backends == {runs[i].view.backend : i \in DOMAIN runs}
        seeds == {IF Has(runs[i].view.knobs, "seed") THEN runs[i].view.knobs["seed"] ELSE NoSeed : i \in DOMAIN runs}
    IN  [backend |-> IF Cardinality(backends) = 1 THEN CHOOSE b \in backends : TRUE ELSE "mixed",
         seed |-> IF Cardinality(seeds) = 1 THEN CHOOSE s \in seeds : TRUE ELSE NoSeed,
         timeout |-> Max({runs[i].view.knobs["timeout_seconds"] : i \in DOMAIN runs}),
         plan |-> [i \in DOMAIN runs |-> PublicPlan(runs[i])]]

\* parse_snapshot: the job parsed again is the one the queue stored; the first input's plan is not compared once the file is
\* gone.
SameJob ==
    /\ Root(compiled) = Root(stored)
    /\ gone \/ compiled[1].view.plan = stored[1].view.plan

---------------------------------------------------------------------------
(* The files a run leaves, and the image the next one reads. *)

\* run_needs_visual_input; a run past the end needs nothing.
NeedsVisual(i) == i \in Runs /\ Visual(i)

\* plan_run's paths: an H3 run hands off only to a run that reads an image.
HandsOff(i) == IF selected[i].backend = H3 THEN NeedsVisual(i + 1) ELSE selected[i].pipeline # "i2i"

\* What run i leaves for the next: its last frame, else its output.
Left(i, size) ==
    [kind |-> IF HandsOff(i) \/ selected[i].pipeline = "i2i" THEN "image" ELSE "video", size |-> size]

\* plan_input of both adapters, of an image that another backend or profile left.
plan_input(i, size) ==
    LET view == compiled[i].view
        again == resize_plan(size, view.plan.desired)
    IN  IF view.backend = H3 THEN view.plan
        ELSE IF view.resizes THEN IF again.target = view.plan.target THEN again ELSE Refusal
        ELSE IF OutputSize(view) = NoSize \/ OutputSize(view) = size THEN copy_plan(size) ELSE Refusal

SameProfile(i) == selected[i].backend = selected[i - 1].backend /\ selected[i].profile = selected[i - 1].profile

\* _temporary_input and _prepare_boundary: the size of the image run i reads.
Reads(i) ==
    IF ~Visual(i) THEN NoPlan
    ELSE IF i = 1 THEN compiled[1].view.plan
    ELSE IF SameProfile(i) THEN copy_plan(artifact.size)
    ELSE plan_input(i, artifact.size)

---------------------------------------------------------------------------

JobStart(f) ==
    /\ file = f
    /\ gone = FALSE
    /\ step = [at |-> "defaults", run |-> 1]
    /\ selected = <<>> /\ compiled = <<>> /\ views = {} /\ stored = <<>> /\ copies = {}
    /\ first = 1 /\ artifact = NoImage

JobInit == \E f \in Files : JobStart(f)

At(place) == step.at = place
Goto(place, i) == step' = [at |-> place, run |-> i]
OrRefused(allowed, place, i) == Goto(IF allowed THEN place ELSE "refused", i)

CheckDefaults ==
    /\ At("defaults")
    /\ OrRefused(DefaultsAllowed, "select", 1)
    /\ UNCHANGED <<file, gone, selected, compiled, views, stored, copies, first, artifact>>

Select ==
    /\ At("select")
    /\ selected' = IF SelectionAllowed(step.run) THEN Append(selected, Selection(step.run)) ELSE selected
    /\ OrRefused(SelectionAllowed(step.run), IF step.run = Len(file.runs) THEN "used" ELSE "select", step.run + 1)
    /\ UNCHANGED <<file, gone, compiled, views, stored, copies, first, artifact>>

CheckAllUsed ==
    /\ At("used")
    /\ OrRefused(AllUsed /\ InputAllowed, "compile", 1)
    /\ UNCHANGED <<file, gone, selected, compiled, views, stored, copies, first, artifact>>

\* _compile_run: the view of the run's key, built and validated by its adapter when it is the first with that key.
CompileRun ==
    /\ At("compile")
    /\ LET i == step.run
           kept == Kept(ViewKey(i))
           view == IF kept # {} THEN (CHOOSE entry \in kept : TRUE).view ELSE View(i)
       IN  /\ compiled' = Append(compiled, [sources |-> selected[i].sources, view |-> view])
           /\ views' = views \cup {[key |-> ViewKey(i), view |-> view]}
           /\ OrRefused(view.valid, IF i = Len(file.runs) THEN "edges" ELSE "compile", i + 1)
    /\ UNCHANGED <<file, gone, selected, stored, copies, first, artifact>>

\* _check_edges, then _root: the submission copies the references and stores the job, a start compares what it parsed with
\* what is stored.
CheckEdges ==
    /\ At("edges")
    /\ LET allowed == EdgesAllowed /\ IF stored = <<>> THEN SnapshotAllowed ELSE SameJob
           storing == allowed /\ stored = <<>>
       IN  /\ OrRefused(allowed, IF stored = <<>> THEN "queued" ELSE "run", first)
           /\ stored' = IF storing THEN compiled ELSE stored
           /\ copies' = IF storing THEN DOMAIN file.references ELSE copies
    /\ UNCHANGED <<file, gone, selected, compiled, views, first, artifact>>

\* parse_snapshot, of a queued entry the worker claims, or of one that ended early with runs left and is resumed: the
\* stored text is compiled again, a resume for a later run that starts from the saved handoff.  The job's input, or a copied
\* reference, may have been removed since; the copies of the pairs still used are verified first.
Start ==
    /\ \/ At("queued")
       \/ At("run") /\ step.run > first /\ step.run \in Runs
    /\ gone' \in {gone, file.input # NoSize}
    /\ copies' \in {copies} \cup {copies \ {name} : name \in copies}
    /\ first' = step.run
    /\ OrRefused(StillUsed(step.run) \subseteq copies', "defaults", 1)
    /\ selected' = <<>> /\ compiled' = <<>> /\ views' = {}
    /\ UNCHANGED <<file, stored, artifact>>

\* The size a run comes out at: the one its view states, else whatever draw-things-cli chooses.
Sizes(i) == IF OutputSize(compiled[i].view) # NoSize THEN {OutputSize(compiled[i].view)} ELSE CliSizes

\* Run i of the chain: its image prepared, then made and left for the next run.
RunNext ==
    /\ At("run") /\ step.run \in Runs
    /\ \/ /\ Reads(step.run).fit = "refused"
          /\ Goto("stopped", step.run)
          /\ UNCHANGED artifact
       \/ /\ Reads(step.run).fit # "refused"
          /\ \E size \in Sizes(step.run) : artifact' = Left(step.run, size)
          /\ Goto("run", step.run + 1)
    /\ UNCHANGED <<file, gone, selected, compiled, views, stored, copies, first>>

JobNext == CheckDefaults \/ Select \/ CheckAllUsed \/ CompileRun \/ CheckEdges \/ Start \/ RunNext

JobSpec == JobInit /\ [][JobNext]_jobVars

---------------------------------------------------------------------------

Sized(i) == OutputSize(compiled[i].view) # NoSize

\* The image a run is about to read is an image file of exactly the size the run generates, and a run is stopped for the
\* size of its image only when an earlier run's size could not be known from the job's file: what check_edge and the
\* resize plans of the compiler promise, run by run, is what the executor meets.
SizesAsPlanned ==
    /\ At("run") /\ step.run \in Runs /\ Visual(step.run) =>
        /\ step.run > 1 => artifact.kind = "image"
        /\ Reads(step.run).fit # "refused" /\ Sized(step.run) => Reads(step.run).target = OutputSize(compiled[step.run].view)
    /\ At("stopped") => \E i \in 1..step.run : ~Sized(i)

\* Every compiled run has the view it would have had alone: the cache of views never hands a run what was validated for
\* another input.
ViewsAlone == At("compile") \/ At("edges") => \A i \in 1..Len(compiled) : compiled[i].view = View(i)

AllSized == \A i \in 1..Len(stored) : OutputSize(stored[i].view) # NoSize

\* A job the queue stored is refused by no later start, its first input gone or not, unless run 1 itself needs the file, or
\* a run still to be made needs a reference whose copy is lost: its text, its configurations, the plan of its first image
\* and its references were all kept, and give the same runs again.
StoredJobStarts ==
    stored # <<>> /\ AllSized /\ At("refused") =>
        \/ gone /\ first = 1
        \/ \E i \in first..Len(stored) : stored[i].view.pipeline = "r2av" /\ stored[i].view.knobs["reference_pair"] \notin copies

\* The same of every stored job, also one with a run whose size nothing states: parse_snapshot runs a queued job "exactly
\* as it was validated at submission".  Not so: the plan of the first input is taken for a later run.
EveryStoredJobStarts == stored # <<>> /\ At("refused") => gone /\ first = 1

\* Every knob the run itself writes stands, a default stands only where the run writes neither it nor its temporal
\* counterpart, and no run is left with both seconds and frames; an H3 run's frames are on its grid, within half a step of
\* what its seconds ask for.
KnobsAsWritten ==
    \A i \in 1..Len(selected) :
        LET own == file.runs[i].knobs
            knobs == selected[i].knobs
        IN  /\ \A key \in DOMAIN own : knobs[key] = own[key]
            /\ ~(Has(knobs, "seconds") /\ Has(knobs, "frames"))
            /\ \A key \in DOMAIN knobs \ DOMAIN own : \E j \in 1..Len(file.defaults) :
                  Selects(file.defaults[j], file.runs[i]) /\ file.defaults[j].knobs[key] = knobs[key]
            /\ i <= Len(compiled) /\ selected[i].backend = H3 =>
                  LET frames == compiled[i].view.frames
                      off == 24 * knobs["seconds"] - Unit * frames
                  IN  frames % 17 = 5 /\ off <= 9 * Unit /\ off >= -(9 * Unit)

\* A run whose profile asks for a resize generates at the resized size, the configuration's width and height ignored: what
\* the user guide says of input_resize.  Not so when the run before it states no size.
ResizeAsWritten ==
    \A i \in 1..Len(compiled) :
        LET view == compiled[i].view
            d == file.profiles[selected[i].profile].desired
        IN  At("run") /\ view.backend = DT /\ view.resizes =>
                /\ d.width # 0 => view.size[1] = Floored(d.width)
                /\ d.height # 0 => view.size[2] = Floored(d.height)

\* A job runs as it was written, validated and stored.
JobAsWritten == SizesAsPlanned /\ ViewsAlone /\ StoredJobStarts /\ KnobsAsWritten
=============================================================================
