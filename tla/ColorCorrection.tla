-------------------------- MODULE ColorCorrection --------------------------
(* The color correction of one run (jobs/color_run.py): two passes over its  *)
(* frames, the people, skin and background found by a segmenter that may     *)
(* fail at any frame (jobs/media/regions.py), the plan of which of them are  *)
(* corrected apart, the encoder of the copy (jobs/media/clip_frames.py), and *)
(* what is left of it all when something fails.                              *)
(*                                                                           *)
(* A frame is its number; its statistics are the regions that have enough of *)
(* it to be measured, and a transform is the region it was fitted to.        *)
EXTENDS Integers, Sequences, FiniteSets

CONSTANTS
    MaxClip,      \* bound: frames of the run's video
    SampleEvery   \* every how many frames the drift is measured

ASSUME CorrectionConstants == MaxClip \in Nat \ {0} /\ SampleEvery \in Nat \ {0}

VARIABLES
    wish,       \* color.regions; whether an anchor is given and held to
    vision,     \* the finder: "none", "works" or "failed"; and had_segmenter
    images,     \* the regions of the run's input and of the anchor
    firstPass,  \* _FirstPass: each frame's regions, and whether it has masks
    regionPlan, \* _Plan: each frame's transforms
    curve,      \* the corrected frames that were measured
    begun,      \* created: what this correction began
    made,       \* the copy and the handoff on disk
    placed,     \* history: the names under which someone else's file appeared
    late,       \* whether the deadline has passed
    doing,      \* the next step of _correct
    outcome     \* the result, once there is one: whether it succeeded, whether it has a drift, and what went wrong

correctionVars == <<wish, vision, images, firstPass, regionPlan, curve, begun, made, placed, late, doing, outcome>>

Free == [frames |-> <<>>, state |-> "free"]
Foreign == [frames |-> <<>>, state |-> "foreign"]
NoTransforms == [frame |-> <<>>, people |-> <<>>, skin |-> <<>>]
ImageOrder == [input |-> "anchor", anchor |-> "first_image", first_image |-> "frames"]

CorrectionStart(regions, held, segmenter) ==
    /\ wish = [regions |-> regions, held |-> held]
    /\ vision = [finder |-> segmenter, had |-> segmenter = "works"]
    /\ images = [input |-> {}, anchor |-> {}] /\ firstPass = <<>> /\ regionPlan = NoTransforms /\ curve = {}
    /\ begun = {} /\ made = [copy |-> Free, handoff |-> Free] /\ placed = {} /\ late = FALSE /\ doing = "input"
    /\ outcome = [succeeded |-> FALSE, drift |-> FALSE, why |-> "none"]

CorrectionInit == \E regions, held \in BOOLEAN, segmenter \in {"none", "works"} : CorrectionStart(regions, held, segmenter)

---------------------------------------------------------------------------
(* Failures.  Whatever breaks the correction, what it began is removed.      *)

Fail(why) ==
    /\ doing' = "done" /\ outcome' = [outcome EXCEPT !.why = why]
    /\ made' = [f \in DOMAIN made |-> IF f \in begun THEN Free ELSE made[f]]

\* The deadline passes: ffmpeg is killed, and every read and write after that raises.
Deadline ==
    /\ doing # "done" /\ ~late /\ late' = TRUE
    /\ UNCHANGED <<wish, placed, vision, images, firstPass, regionPlan, curve, begun, made, doing, outcome>>

\* A file of someone else's appears under a name that was free when the run was planned.
PlaceFile ==
    /\ doing # "done"
    /\ \E f \in DOMAIN made : made[f] = Free /\ made' = [made EXCEPT ![f] = Foreign] /\ placed' = placed \cup {f}
    /\ UNCHANGED <<wish, vision, images, firstPass, regionPlan, curve, begun, late, doing, outcome>>

---------------------------------------------------------------------------
(* Regions.                                                                  *)

\* region_stats: the background and the skin are measured only where people are.
Found == {{"frame"} \cup r : r \in {{}} \cup {{"people"} \cup more : more \in SUBSET {"skin", "background"}}}

\* RegionFinder: until the segmenter raises; from then on every frame is one region, without masks.
Finds ==
    IF vision.finder # "works" THEN {[regions |-> {"frame"}, masks |-> FALSE, finder |-> vision.finder]}
    ELSE [regions : Found, masks : {TRUE}, finder : {"works"}] \cup {[regions |-> {"frame"}, masks |-> FALSE, finder |-> "failed"]}

\* The run's input, the anchor when it is held to, and the first image when there is one; one that cannot be read fails.
MeasureImage(image) ==
    /\ doing = image
    /\ \/ Fail("tool") /\ UNCHANGED <<vision, images>>
       \/ image # "input" /\ ~(image = "anchor" /\ wish.held) /\ doing' = ImageOrder[image] /\ UNCHANGED <<vision, images, made, outcome>>
       \/ /\ image = "anchor" => wish.held
          /\ \E f \in Finds : images' = [i \in DOMAIN images |-> IF i = image THEN f.regions ELSE images[i]] /\ vision' = [vision EXCEPT !.finder = f.finder]
          /\ doing' = ImageOrder[image] /\ UNCHANGED <<made, outcome>>
    /\ UNCHANGED <<wish, placed, firstPass, regionPlan, curve, begun, late>>

FirstPassFrame ==
    /\ doing = "frames" /\ ~late /\ Len(firstPass) < MaxClip
    /\ \E f \in Finds : /\ firstPass' = Append(firstPass, [regions |-> f.regions, masks |-> f.masks])
                        /\ vision' = [vision EXCEPT !.finder = f.finder]
    /\ UNCHANGED <<wish, placed, images, regionPlan, curve, begun, made, late, doing, outcome>>

\* The end of the frames: also where ffmpeg failed or was killed, and where there was none.  The drift is checked.
FirstPassEnds ==
    /\ doing = "frames"
    /\ \/ Fail("tool")
       \/ ~late /\ firstPass # <<>> /\ doing' = "plan" /\ outcome' = [outcome EXCEPT !.drift = TRUE] /\ UNCHANGED made
    /\ UNCHANGED <<wish, placed, vision, images, firstPass, regionPlan, curve, begun, late>>

---------------------------------------------------------------------------
(* The plan.                                                                 *)

Clip == DOMAIN firstPass

\* A region is corrected apart when the input, the anchor held to and half of the frames have enough of it.
_counts(region) ==
    /\ region \in images.input /\ (wish.held => region \in images.anchor)
    /\ 2 * Cardinality({i \in Clip : region \in firstPass[i].regions}) >= Len(firstPass)

\* fit_run: a frame with too little of a region takes its parent's fit; the input and the anchor must have the region.
FitRun(region) == [i \in Clip |-> IF region \in firstPass[i].regions THEN region ELSE "frame"]
Fits(region) == region \in images.input /\ (wish.held => region \in images.anchor)

\* Mutant of the next: people are corrected apart although the segmenter failed during the run.
Apart_Failed == wish.regions /\ vision.had /\ _counts("people")

\* A segmenter that failed during the run leaves the whole run to the whole frame.
Apart == wish.regions /\ vision.had /\ vision.finder # "failed" /\ _counts("people")

_plan ==
    [frame |-> IF Apart /\ _counts("background") THEN FitRun("background") ELSE FitRun("frame"),
     people |-> IF Apart THEN FitRun("people") ELSE <<>>,
     skin |-> IF Apart /\ _counts("skin") THEN [i \in Clip |-> IF "skin" \in firstPass[i].regions THEN "skin" ELSE "none"] ELSE <<>>]

UsedRegions(p) == {"frame"} \cup {p.frame[i] : i \in DOMAIN p.frame} \cup {p.people[i] : i \in DOMAIN p.people} \cup ({p.skin[i] : i \in DOMAIN p.skin} \ {"none"})

Plan ==
    /\ doing = "plan"
    /\ regionPlan' = _plan
    /\ IF \A r \in UsedRegions(_plan) : Fits(r) THEN doing' = "encoder" /\ UNCHANGED <<made, outcome>> ELSE Fail("missing")
    /\ UNCHANGED <<wish, placed, vision, images, firstPass, curve, begun, late>>

---------------------------------------------------------------------------
(* The encoder of the copy.                                                  *)

\* choose_encoder: one of those this ffmpeg lists for the original's format; which of them, by what a probe of each but the
\* last finds, changes the encoding alone.  None listed fails.
ChooseEncoder ==
    /\ doing = "encoder"
    /\ \/ Fail("tool")
       \/ doing' = "open" /\ UNCHANGED <<made, outcome>>
    /\ UNCHANGED <<wish, placed, vision, images, firstPass, regionPlan, curve, begun, late>>

\* A copy that exists is refused, and nothing of this correction has begun.
OpenEncoder ==
    /\ doing = "open"
    /\ \/ Fail("tool") /\ UNCHANGED begun
       \/ /\ made.copy = Free
          /\ made' = [made EXCEPT !.copy.state = "partial"] /\ begun' = {"copy"} /\ doing' = "second" /\ UNCHANGED outcome
    /\ UNCHANGED <<wish, placed, vision, images, firstPass, regionPlan, curve, late>>

---------------------------------------------------------------------------
(* The second pass.                                                          *)

\* region_parts: no transform apart for a frame without masks.
Applied(i) ==
    LET apart == regionPlan.people # <<>> /\ firstPass[i].masks
    IN  [frame |-> i, whole |-> regionPlan.frame[i], people |-> IF apart THEN regionPlan.people[i] ELSE "none",
         skin |-> IF apart /\ regionPlan.skin # <<>> THEN regionPlan.skin[i] ELSE "none"]

Written == made.copy.frames

\* The second decoding may give another number of frames than the first.
SecondPassFrame ==
    /\ doing = "second" /\ ~late
    /\ LET i == Len(Written) + 1
       IN  \/ Fail("tool") /\ UNCHANGED curve
           \/ i > Len(firstPass) /\ Fail("frames") /\ UNCHANGED curve
           \/ /\ i <= Len(firstPass)
              /\ made' = [made EXCEPT !.copy.frames = Append(@, Applied(i))]
              /\ curve' = IF (i - 1) % SampleEvery = 0 THEN curve \cup {i} ELSE curve
              /\ UNCHANGED <<doing, outcome>>
    /\ UNCHANGED <<wish, placed, vision, images, firstPass, regionPlan, begun, late>>

\* ffmpeg ended, and the encoder is closed.
SecondPassEnds ==
    /\ doing = "second"
    /\ \/ Fail("tool") /\ UNCHANGED curve
       \/ ~late /\ Len(Written) # Len(firstPass) /\ Fail("frames") /\ UNCHANGED curve
       \/ /\ ~late /\ Len(Written) = Len(firstPass)
          /\ made' = [made EXCEPT !.copy.state = "closed"] /\ curve' = curve \cup {Len(Written)} /\ doing' = "tag" /\ UNCHANGED outcome
    /\ UNCHANGED <<wish, placed, vision, images, firstPass, regionPlan, begun, late>>

\* The handoff counts as begun before it is written.
TagCopy ==
    /\ doing = "tag"
    /\ \/ Fail("tool") /\ UNCHANGED begun
       \/ begun' = begun \cup {"handoff"} /\ doing' = "handoff" /\ UNCHANGED <<made, outcome>>
    /\ UNCHANGED <<wish, placed, vision, images, firstPass, regionPlan, curve, late>>

WriteHandoff ==
    /\ doing = "handoff"
    /\ \/ Fail("tool")
       \/ /\ made.handoff = Free
          /\ made' = [made EXCEPT !.handoff = [frames |-> <<Written[Len(Written)]>>, state |-> "closed"]]
          /\ doing' = "check" /\ UNCHANGED outcome
    /\ UNCHANGED <<wish, placed, vision, images, firstPass, regionPlan, curve, begun, late>>

CheckCopy ==
    /\ doing = "check"
    /\ \/ Fail("tool")
       \/ doing' = "done" /\ outcome' = [outcome EXCEPT !.succeeded = TRUE] /\ UNCHANGED made
    /\ UNCHANGED <<wish, placed, vision, images, firstPass, regionPlan, curve, begun, late>>

CorrectionNext ==
    \/ Deadline \/ PlaceFile
    \/ \E image \in DOMAIN ImageOrder : MeasureImage(image)
    \/ FirstPassFrame \/ FirstPassEnds \/ Plan \/ ChooseEncoder \/ OpenEncoder
    \/ SecondPassFrame \/ SecondPassEnds \/ TagCopy \/ WriteHandoff \/ CheckCopy

CorrectionSpec == CorrectionInit /\ [][CorrectionNext]_correctionVars

---------------------------------------------------------------------------

\* samples_from_stats: the frames the drift is measured on.
Sampled == {i \in Clip : (i - 1) % SampleEvery = 0 \/ i = Len(firstPass)}

\* A correction that succeeded has a copy of every frame in its order and the last of them as its handoff, and measured the
\* frames its drift was measured on; one that failed, at whatever step, leaves nothing of its own, and a copy that was there.
\* Left out: a file placed under the handoff's name, which is removed although it was not begun.
WholeOrNothing ==
    doing = "done" =>
        IF outcome.succeeded
        THEN /\ made.copy.state = "closed" /\ [i \in DOMAIN Written |-> Written[i].frame] = [i \in Clip |-> i]
             /\ made.handoff.frames = <<Written[Len(firstPass)]>> /\ curve = Sampled
        ELSE /\ made.copy = (IF "copy" \in placed THEN Foreign ELSE Free)
             /\ made.handoff \in {Free, Foreign}

\* No clip changes its regions on the way: people are corrected apart in all of its frames or in none, although the
\* segmenter may fail at any of them; and what is planned apart was measured wherever the plan reads it.
NoSwitch ==
    /\ \A i, j \in DOMAIN Written : Written[i].people = "none" <=> Written[j].people = "none"
    /\ outcome.why # "missing"

CorrectionWhole == WholeOrNothing /\ NoSwitch
=============================================================================
