---------------------------- MODULE ColorChain ----------------------------
(***************************************************************************)
(* What each run of a version-2 job takes as its input, compares its       *)
(* colors with and holds them to: the executor's first image, segments and *)
(* chain anchor (jobs/executor.py), the two backends' prepare_run, and     *)
(* what a resume brings over from the execution it continues               *)
(* (services/queue_resume.py, services/queue_worker.py).                   *)
(*                                                                         *)
(* An image is a path: run 1's prepared copy of the job's input, which is  *)
(* removed after run 1, the first image kept beside the manifest, or the   *)
(* handoff of a run.                                                       *)
(***************************************************************************)
EXTENDS Naturals, Sequences, FiniteSets, FiniteSetsExt

CONSTANTS Plans,      \* the jobs: sequences of runs [kind, pair, holds, reanchor]
          MaxResumes, \* how often the job is resumed
          MaxLost     \* how many images a person removes between executions

(* A job has a run, and each run one of the five pipelines.                *)
ASSUME ChainAssumption ==
    \A p \in Plans :
        /\ Len(p) \in Nat \ {0}
        /\ \A n \in 1..Len(p) : /\ p[n].kind \in {"i2i", "i2v", "t2v", "i2av", "r2av"}
                               /\ p[n].holds \in BOOLEAN /\ p[n].reanchor \in BOOLEAN

None == <<"none">>
Temporary == <<"temporary">>
FirstImage == <<"first_image">>
Handoff(n) == <<"handoff", n>>

(* Pipelines conditioned on an image, and those of H3.                     *)
Conditioned == {"i2i", "i2v", "i2av"}
H3Pipelines == {"i2av", "r2av"}

VARIABLES plan,    \* the compiled runs
          phase,   \* "open", "run", "running" or "ended"
          start,   \* the first run of this execution
          number,  \* the run it is at
          chain,   \* _Chain: first_image, anchor, segmented, segment_first_image
          named,   \* manifest.first_image: the image it names
          disk,    \* the images that exist
          record,  \* run -> its RunRecord: whether it succeeded, its input, anchor and first image
          resumes, lost

colorVars == <<plan, phase, start, number, chain, named, disk, record, resumes, lost>>

ChainRuns == 1..Len(plan)

run_needs_visual_input(n) == n \in ChainRuns /\ plan[n].kind \in Conditioned

IsVideo(n) == plan[n].kind # "i2i"

Resumed == resumes > 0

NoRecord == [succeeded |-> FALSE, input |-> None, anchor |-> None, first_image |-> None]

ChainStart(p) ==
    /\ plan = p
    /\ phase = "open"
    /\ start = 1
    /\ number = 1
    /\ chain = [first_image |-> None, anchor |-> None, segmented |-> FALSE, segment_first_image |-> None]
    /\ named = None
    /\ disk = {}
    /\ record = [n \in ChainRuns |-> NoRecord]
    /\ resumes = 0
    /\ lost = 0

ChainInit == \E p \in Plans : ChainStart(p)

---------------------------------------------------------------------------
(* The start of an execution.                                              *)

(* Mutation: the resume takes what was recorded without looking for it.    *)
OnDisk_Blind(image) == image

OnDisk(image) == IF image \in disk THEN image ELSE None

(* A resume that lands after an independent segment start.                 *)
AfterBreak == \E n \in 2..(start - 1) : ~run_needs_visual_input(n)

(* Mutation: the resume brings over the first image only.                  *)
ResumedChain_NoAnchor ==
    [first_image |-> OnDisk(named), anchor |-> None, segmented |-> AfterBreak, segment_first_image |-> None]

(* A resume's chain: _resolve_chain gives the anchor of the last succeeded *)
(* run and the first image its execution names; each is taken when the     *)
(* file is there.                                                          *)
ResumedChain ==
    [first_image |-> OnDisk(named), anchor |-> OnDisk(record[start - 1].anchor),
     segmented |-> AfterBreak, segment_first_image |-> None]

FreshChain(first) == [first_image |-> first, anchor |-> None, segmented |-> FALSE, segment_first_image |-> None]

(* A job whose first run is an image job keeps none and resumes none.      *)
KeepFirstImage ==
    /\ phase = "open"
    /\ phase' = "run"
    /\ \/ /\ ~IsVideo(1)
          /\ chain' = [FreshChain(None) EXCEPT !.segmented = AfterBreak]
          /\ named' = None
          /\ disk' = IF Resumed THEN disk ELSE disk \cup {Temporary}
       \/ /\ IsVideo(1) /\ Resumed
          /\ chain' = ResumedChain
          /\ named' = OnDisk(named)
          /\ UNCHANGED disk
       \/ \* run 1 has no input: its first image is named before it is written
          /\ IsVideo(1) /\ ~Resumed /\ ~run_needs_visual_input(1)
          /\ chain' = FreshChain(None)
          /\ named' = FirstImage
          /\ UNCHANGED disk
       \/ \* run 1's copy is kept as the first image, or cannot be
          /\ IsVideo(1) /\ ~Resumed /\ run_needs_visual_input(1)
          /\ \E kept \in BOOLEAN :
                /\ chain' = FreshChain(IF kept THEN FirstImage ELSE None)
                /\ named' = IF kept THEN FirstImage ELSE None
                /\ disk' = disk \cup {Temporary} \cup (IF kept THEN {FirstImage} ELSE {})
    /\ UNCHANGED <<plan, start, number, record, resumes, lost>>

---------------------------------------------------------------------------
(* One run.                                                                *)

(* The image a run reads.  A copy prepared at a boundary of two profiles   *)
(* stands for the handoff it was made from.                                *)
DurableInput(n) ==
    IF ~run_needs_visual_input(n) THEN None ELSE IF n = 1 THEN Temporary ELSE Handoff(n - 1)

(* _segment_first_image: the chain as the run finds it, and the image its  *)
(* drift is measured against.                                              *)
Segmented(n) ==
    LET fresh == IF n > 1 /\ ~run_needs_visual_input(n)
                 THEN [chain EXCEPT !.segmented = TRUE, !.segment_first_image = None, !.anchor = None] ELSE chain IN
    IF fresh.segmented /\ fresh.segment_first_image = None /\ run_needs_visual_input(n)
    THEN [fresh EXCEPT !.segment_first_image = DurableInput(n)] ELSE fresh

MeasuredAgainst(c) == IF c.segmented THEN c.segment_first_image ELSE c.first_image

ChangedPair(n) == n > 1 /\ plan[n - 1].pair # plan[n].pair

(* H3Backend.prepare_run, for a version-2 run: the anchor of the chain and *)
(* of the record.                                                          *)
H3Anchor(n, c) ==
    IF plan[n].kind = "r2av" THEN None
    ELSE IF c.anchor = None
         THEN IF n = 1 /\ MeasuredAgainst(c) # None THEN MeasuredAgainst(c) ELSE DurableInput(n)
    ELSE IF ChangedPair(n) /\ plan[n].reanchor THEN DurableInput(n)
    ELSE c.anchor

(* DrawThingsBackend.prepare_run: only a run that holds to an anchor looks *)
(* for one.                                                                *)
Holds(n) == IsVideo(n) /\ plan[n].holds /\ run_needs_visual_input(n)

DrawAnchor(n, c) ==
    IF ~Holds(n) THEN c.anchor
    ELSE IF plan[n].reanchor /\ ChangedPair(n) THEN DurableInput(n)
    ELSE IF c.anchor = None THEN MeasuredAgainst(c)
    ELSE c.anchor

prepare_run(n, c) ==
    IF plan[n].kind \in H3Pipelines
    THEN [chain_anchor |-> H3Anchor(n, c), record_anchor |-> H3Anchor(n, c)]
    ELSE [chain_anchor |-> DrawAnchor(n, c), record_anchor |-> IF Holds(n) THEN DrawAnchor(n, c) ELSE None]

StartRun ==
    /\ phase = "run"
    /\ number \in ChainRuns
    /\ LET c == Segmented(number)
           prepared == prepare_run(number, c) IN
       /\ chain' = [c EXCEPT !.anchor = prepared.chain_anchor]
       /\ record' = [record EXCEPT ![number] =
            [succeeded |-> FALSE, input |-> DurableInput(number), anchor |-> prepared.record_anchor,
             first_image |-> MeasuredAgainst(c)]]
    /\ phase' = "running"
    /\ UNCHANGED <<plan, start, number, named, disk, resumes, lost>>

FreshT2v == plan[1].kind = "t2v" /\ number = 1 /\ ~Resumed

(* The run's end: a t2v job's first image is run 1's handoff, or is no     *)
(* longer named; run 1's copy goes.                                        *)
FinishRun ==
    /\ phase = "running"
    /\ \E ok, kept \in BOOLEAN :
        LET handoff == IF ok THEN {Handoff(number)} ELSE {}
            firstImage == IF FreshT2v /\ ok /\ kept THEN {FirstImage} ELSE {} IN
        /\ record' = [record EXCEPT ![number].succeeded = ok]
        /\ disk' = (disk \cup handoff \cup firstImage) \ (IF number = 1 THEN {Temporary} ELSE {})
        /\ named' = IF FreshT2v /\ firstImage = {} THEN None ELSE named
        /\ chain' = IF firstImage # {} THEN [chain EXCEPT !.first_image = FirstImage] ELSE chain
        /\ \/ ok /\ number < Len(plan) /\ phase' = "run" /\ number' = number + 1
           \/ phase' = "ended" /\ UNCHANGED number   \* failed, stopped, parked, or done
    /\ UNCHANGED <<plan, start, resumes, lost>>

---------------------------------------------------------------------------
(* Between two executions.                                                 *)

Succeeded == {n \in ChainRuns : record[n].succeeded}

(* A person removes an image while nothing runs.                           *)
Remove ==
    /\ phase = "ended"
    /\ lost < MaxLost
    /\ \E image \in disk : disk' = disk \ {image}
    /\ lost' = lost + 1
    /\ UNCHANGED <<plan, phase, start, number, chain, named, record, resumes>>

(* A resume is refused when no run succeeded, when all did, or when the    *)
(* file it would start from is gone.                                       *)
Resume ==
    /\ phase = "ended"
    /\ resumes < MaxResumes
    /\ Succeeded # {} /\ Max(Succeeded) < Len(plan)
    /\ Handoff(Max(Succeeded)) \in disk
    /\ start' = Max(Succeeded) + 1
    /\ number' = start'
    /\ resumes' = resumes + 1
    /\ phase' = "open"
    /\ UNCHANGED <<plan, chain, named, disk, record, lost>>

ChainNext == KeepFirstImage \/ StartRun \/ FinishRun \/ Remove \/ Resume

ChainSpec == ChainInit /\ [][ChainNext]_colorVars

---------------------------------------------------------------------------
(* The documented anchor, from the plan alone.  An r2av run, or a t2v run  *)
(* after run 1, ends a segment; a segment starts at its first run with an input,  *)
(* the chain's first at the first image; a run whose prompt pair differs   *)
(* from the previous run's moves the anchor to its own input, when it      *)
(* looks for an anchor and reanchors.                                      *)

LooksForAnchor(n) == IF plan[n].kind \in H3Pipelines THEN plan[n].kind = "i2av" ELSE Holds(n)

Breaks(n) == ~run_needs_visual_input(n) /\ (n > 1 \/ plan[n].kind = "r2av")

SegmentOf(n) == {m \in 1..n : run_needs_visual_input(m) /\ ~\E b \in (m + 1)..n : Breaks(b)}

Moves(m, n) == m \in SegmentOf(n) /\ m > 1 /\ LooksForAnchor(m) /\ ChangedPair(m) /\ plan[m].reanchor

PlannedAnchor(n) ==
    LET moved == {m \in 1..n : Moves(m, n)}
        broken == \E b \in 1..n : Breaks(b) IN
    IF moved # {} THEN Handoff(Max(moved) - 1)
    ELSE IF ~broken THEN FirstImage
    ELSE Handoff(Min(SegmentOf(n)) - 1)

(* A t2v job's first image is a copy of run 1's handoff.                   *)
Picture(image) == IF image = FirstImage /\ plan[1].kind = "t2v" THEN Handoff(1) ELSE image

(* Every run that looks for an anchor is held to the documented one,       *)
(* however often the job was interrupted and resumed: the anchor the       *)
(* resume brings over stands for what the earlier execution kept in        *)
(* memory.  Outside what the code carries over are a job whose first run   *)
(* is an image, a Draw Things run after an r2av run 1 (no first image      *)
(* exists), a first image that was not kept, files a person removed, and a *)
(* resume after a run that did not look for an anchor itself.              *)
AnchorAsPlanned ==
    \A n \in ChainRuns :
        (/\ record[n].input # None
         /\ LooksForAnchor(n)
         /\ IsVideo(1)
         /\ lost = 0
         /\ named = FirstImage
         /\ plan[1].kind = "r2av" => \A m \in 1..n : plan[m].kind \in H3Pipelines
         /\ \A m \in 1..(n - 1) : run_needs_visual_input(m) => LooksForAnchor(m))
        => Picture(record[n].anchor) = Picture(PlannedAnchor(n))

(* A run is never held to, or measured against, an image that is gone when *)
(* the run starts, unless the first image could not be kept (then the      *)
(* H3 anchor is run 1's copy, which run 1's end removes).                  *)
HeldToFile ==
    (phase = "run" /\ phase' = "running" /\ named = FirstImage) =>
        /\ record'[number].anchor \in disk \cup {None}
        /\ record'[number].first_image \in disk \cup {None}

(* "A resume takes the anchor of the run it continues after, or the first  *)
(* image, with a warning, when that file is gone" (the user guide).        *)
GoneAnchorIsFirstImage ==
    (/\ phase = "running" /\ Resumed /\ number = start
     /\ record[start - 1].anchor \notin disk \cup {None}
     /\ LooksForAnchor(number) /\ ~(ChangedPair(number) /\ plan[number].reanchor)
     /\ FirstImage \in disk /\ ~chain.segmented /\ IsVideo(1))
    => record[number].anchor = FirstImage

(* The first image a job names is a file once run 1 has ended ("none for   *)
(* r2av", the job definition milestone).                                   *)
NamedImageExists ==
    (phase = "run" /\ number > 1 /\ lost = 0) => (named = None \/ named \in disk)

(* Every step leaves each run, over resumes, with the documented anchor, and *)
(* a run starts only with an anchor and a first image that are files.        *)
AnchorKept == [][AnchorAsPlanned' /\ HeldToFile]_colorVars
==========================================================================
