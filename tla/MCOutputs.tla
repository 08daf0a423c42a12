----------------------------- MODULE MCOutputs -----------------------------
(* From a job's file to the files of its runs: the compilation of the job,   *)
(* the colors of its chain, the timing of a run's stages, the finishing of   *)
(* one run, the correction of its colors, the tag of its video and the color *)
(* the video is handled with.  A behaviour moves one of the seven.           *)
EXTENDS RunFinish, ColorChain, JobCompile, StageTiming, TLC

CONSTANT MaxRuns

----------------------------------------------------------------------------
(* Chains of up to MaxRuns runs over the five pipelines, two prompt pairs    *)
(* and two color policies.                                                   *)

Kinds == {"i2i", "i2v", "t2v", "i2av", "r2av"}

Chained(kinds, pairs, holds, reanchor) ==
    [n \in DOMAIN kinds |-> [kind |-> kinds[n], pair |-> pairs[n], holds |-> holds, reanchor |-> reanchor]]

MCPlans ==
    UNION {{Chained(kinds, pairs, h, r) : kinds \in [1..n -> Kinds], pairs \in {p \in [1..n -> {1, 2}] : p[1] = 1},
                                          h \in BOOLEAN, r \in BOOLEAN} : n \in 2..MaxRuns}

----------------------------------------------------------------------------
(* Job files of up to MaxRuns runs.  The profiles' sizes are chosen so that  *)
(* a handoff fits, must be resized, must be cropped too much or has a size   *)
(* nothing states.  The two reference pairs fit together only beside some    *)
(* inputs, and the second one's sounds only in a short run.                  *)

Wide == <<192, 128>>
Desired(w, h) == [NoDesired EXCEPT !.width = w, !.height = h]
Color(anchor, keys) == [anchor |-> anchor, keys |-> keys]
Profile(backend, size, desired, frames) ==
    [backend |-> backend, size |-> size, desired |-> desired, frames |-> frames, color |-> Color("none", {})]
AllProfiles == [
    plain  |-> Profile(DT, Wide, NoDesired, 0),
    width  |-> Profile(DT, Wide, Desired(150, 0), 8),
    both   |-> Profile(DT, <<200, 128>>, Desired(130, 130), 0),
    free   |-> [Profile(DT, NoSize, NoDesired, 0) EXCEPT !.color = Color("previous", {"anchor", "strength"})],
    h3     |-> [Profile(H3, <<128, 96>>, NoDesired, 0) EXCEPT !.color = Color("blend", {"anchor", "first_weight"})]]

Timeout == [timeout_seconds |-> 1]
Secs(n) == [timeout_seconds |-> 1, seconds |-> n]
Item(b, p, profile, knobs) ==
    [backend |-> b, pipeline |-> p, prompt_pair |-> "p", settings_profile |-> profile, knobs |-> knobs]

Items ==
    {Item(DT, "i2i", n, Timeout) : n \in {"plain", "both"}}
    \cup {Item(DT, "i2v", n, [timeout_seconds |-> 1, frames |-> 9]) : n \in {"plain", "width", "both", "free"}}
    \cup {Item(DT, "t2v", n, Timeout) : n \in {"plain", "free", "width"}}
    \cup {Item(DT, "i2v", "width", <<>>), Item(DT, "i2v", "", Secs(2))}
    \cup {Item(H3, "i2av", "h3", Secs(n)) : n \in {47, 49, 720}}
    \cup {Item(H3, "r2av", "h3", [reference_pair |-> "r", seed |-> 1] @@ Secs(101))}
    \cup {Item(H3, "r2av", "h3", [reference_pair |-> "s"] @@ Secs(n)) : n \in {101, 240}}

Blocks == {<<>>,
           <<[backend |-> DT, pipeline |-> "i2v", prompt_pair |-> "p", settings_profile |-> "plain",
              knobs |-> [timeout_seconds |-> 2, frames |-> 5]]>>}

UsedProfiles(runs, defaults) ==
    LET at(item) == IF item.settings_profile = "" THEN "plain" ELSE item.settings_profile
    IN  {at(runs[i]) : i \in DOMAIN runs}

Reference(kind, bytes, seen, heard) == [kind |-> kind, bytes |-> bytes, video |-> seen, sound |-> heard]
Pairs(input) == [
    r |-> <<Reference("image", <<1>>, 0, 0), Reference("audio", <<1>>, 0, 600)>>,
    s |-> <<Reference("video_audio", <<IF input = <<300, 100>> THEN 2 ELSE 1, 1>>, 144, 130), Reference("audio", <<1>>, 0, 600)>>]
UsedPairs(runs) == {runs[i].knobs["reference_pair"] : i \in {j \in DOMAIN runs : Has(runs[j].knobs, "reference_pair")}}

File(input, runs, defaults) ==
    [input |-> input,
     prompts |-> [n \in {"p"} |-> [negative |-> FALSE]],
     references |-> [name \in UsedPairs(runs) |-> Pairs(input)[name]],
     profiles |-> [n \in UsedProfiles(runs, defaults) |-> AllProfiles[n]],
     defaults |-> defaults, runs |-> runs]

RunLists == UNION {[1..n -> Items] : n \in 1..MaxRuns}
MCCliSizes == {<<64, 64>>, Wide}

MCFiles == {File(input, runs, defaults) : input \in {NoSize, Wide, <<300, 100>>}, runs \in RunLists, defaults \in Blocks}

----------------------------------------------------------------------------
(* Lines of a child: for each backend its stages, a counter, a line that     *)
(* gives no reading or breaks the parser, and for H3 a total of two digits,  *)
(* which may arrive in two pieces.                                           *)

Line(b, p, done, total) == [backend |-> b, phase |-> p, done |-> done, total |-> total]
MCLines ==
    {Line("draw", p, 0, 0) : p \in {"Starting", "Finishing", "Generated", "unreadable"}}
    \cup {Line("draw", "Sampling", n, 2) : n \in 1..2}
    \cup {Line("h3", "text encoder", 1, 1), Line("h3", "denoise", 10, 10), Line("h3", "new phase", 1, 2), Line("h3", "noise", 0, 0)}
    \cup {Line("h3", "denoise enqueue", 0, n) : n \in {1, 10}}

----------------------------------------------------------------------------
(* Videos with up to two tracks, video or sound, each with an offset or      *)
(* none, of 32 or 64 bits, and the media before, after or around the moov.   *)

Boxed(kind, n) == [kind |-> kind, size |-> n, bytes |-> n]
Measured(n) == [size |-> n, bytes |-> n]
Layouts == {<<"moov", "mdat">>, <<"mdat", "moov">>, <<"mdat", "moov", "mdat">>, <<"moov", "mdat", "mdat">>,
            <<"moov", "free", "mdat">>, <<"moov">>, <<"mdat">>, <<"moov", "mdat", "moof">>}
Top(layout) ==
    [i \in 1 .. Len(layout) + 1 |->
        IF i = 1 THEN Boxed("ftyp", 2) ELSE IF layout[i - 1] = "moov" THEN Boxed("moov", 9) ELSE Boxed(layout[i - 1], 3)]
Media(top) ==
    UNION {{StartOf([top |-> top], i) + 1, StartOf([top |-> top], i + 1) - 1} : i \in {n \in DOMAIN top : top[n].kind = "mdat"}}
Track(kind, entry, colr, wide, chunks) ==
    [kind |-> kind, box |-> Measured(4), entry |-> Measured(entry), colr |-> colr, wide |-> wide, chunks |-> chunks]
MCTracks(wide, chunks) ==
    {Track("vide", 2, colr, wide, chunks) : colr \in BOOLEAN}
    \cup {Track("vide", 0, FALSE, wide, chunks), Track("soun", 2, FALSE, wide, chunks)}
VideosOf(top) ==
    LET one == UNION {MCTracks(wide, chunks) : wide \in BOOLEAN, chunks \in {<<>>} \cup {<<p>> : p \in Media(top)}}
    IN  {[top |-> top, tracks |-> t] : t \in UNION {[1..n -> one] : n \in 0..2}}
MCVideos == UNION {VideosOf(Top(layout)) : layout \in Layouts}

----------------------------------------------------------------------------
(* Videos whose first frame states a matrix, a wrong one, an unknown one or  *)
(* none.  The four pairs of scores, of the matrix that encoded the pixels    *)
(* and of the others, are pixels that tell, a tie below the threshold, none  *)
(* below it, and noise.  A writer's own box may be wrong, of a code the      *)
(* check has no name for, or a profile.                                      *)

Scored(encoded) ==
    {[m \in Candidates |-> IF m = SameMatrix(encoded) THEN s[1] ELSE s[2]] :
        s \in {<<216, 254>>, <<232, 229>>, <<240, 244>>, <<250, 250>>}}
OwnBox(matrix) == [NoBox EXCEPT !.matrix = matrix]
ShownClip(kind, stated, range, encoded, boxes) ==
    {[kind |-> kind, stated |-> stated, range |-> range, encoded |-> encoded, scores |-> scores,
      dense |-> dense, asked |-> asked, quicktime |-> quicktime, box |-> box] :
        scores \in Scored(encoded), dense \in BOOLEAN, quicktime \in BOOLEAN, box \in boxes,
        asked \in IF kind = "run" THEN BOOLEAN ELSE {TRUE}}
MCClips ==
    ShownClip("copy", BT709, "tv", BT709, {NoBox, OwnBox(BT709)})
    \cup UNION {ShownClip("run", stated, range, encoded, {NoBox, OwnBox(BT601), OwnBox("fcc"), [NoBox EXCEPT !.icc = TRUE]}) :
                   stated \in {Unstated, "smpte170m", BT709, BT2020, "fcc", "ycgco"}, range \in {Unstated, "pc"},
                   encoded \in {BT601, BT709, "fcc"}}
PlainClip == CHOOSE c \in ShownClip("copy", BT709, "tv", BT709, {NoBox}) : TRUE

----------------------------------------------------------------------------
VARIABLE part

OutputsInit ==
    /\ part \in {"compile", "colors", "stages", "finish", "correct", "tag", "color"}
    /\ IF part = "compile" THEN JobInit ELSE JobStart(File(Wide, <<Item(DT, "i2i", "plain", Timeout)>>, <<>>))
    /\ IF part = "colors" THEN ChainInit ELSE ChainStart(Chained(<<"t2v">>, <<1>>, FALSE, FALSE))
    /\ IF part = "stages" THEN TimingInit ELSE TimingStart("draw")
    /\ IF part = "finish" THEN FinishInit ELSE FinishStart([backend |-> "draw", pipeline |-> "image", corrects |-> FALSE])
    /\ IF part = "correct" THEN CorrectionInit ELSE CorrectionStart(FALSE, FALSE, "none")
    /\ IF part = "tag" THEN TagInit ELSE TagStart([top |-> <<>>, tracks |-> <<>>])
    /\ IF part = "color" THEN LookInit ELSE LookStart(PlainClip)

OutputsNext ==
    /\ UNCHANGED part
    /\ \/ part = "compile" /\ JobNext /\ UNCHANGED <<colorVars, timingVars, finishVars, correctionVars, tagVars, colorTagVars>>
       \/ part = "colors" /\ ChainNext /\ UNCHANGED <<jobVars, timingVars, finishVars, correctionVars, tagVars, colorTagVars>>
       \/ part = "stages" /\ TimingNext /\ UNCHANGED <<jobVars, colorVars, finishVars, correctionVars, tagVars, colorTagVars>>
       \/ part = "finish" /\ FinishNext /\ UNCHANGED <<jobVars, colorVars, timingVars, correctionVars, tagVars, colorTagVars>>
       \/ part = "correct" /\ CorrectionNext /\ UNCHANGED <<jobVars, colorVars, timingVars, finishVars, tagVars, colorTagVars>>
       \/ part = "tag" /\ TagNext /\ UNCHANGED <<jobVars, colorVars, timingVars, finishVars, correctionVars, colorTagVars>>
       \/ part = "color" /\ LookNext /\ UNCHANGED <<jobVars, colorVars, timingVars, finishVars, correctionVars, tagVars>>

OutputsSpec ==
    OutputsInit /\ [][OutputsNext]_<<part, jobVars, colorVars, timingVars, finishVars, correctionVars, tagVars, colorTagVars>>

\* A run's videos are made as its job file says, and handled in the color they were made in (JobCompile, VideoTag).
MadeAsWritten == JobAsWritten /\ ColorTold
=============================================================================
