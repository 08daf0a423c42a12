------------------------------ MODULE VideoTag ------------------------------
(* A video's color: the matrix it is decoded, tagged and checked with, and   *)
(* the tag written into its container.                                       *)
(*                                                                           *)
(* The tag (jobs/media/video_color.py): one colr box is added to the first   *)
(* video track's sample entry, the boxes around it grow by as many bytes,    *)
(* and the chunk offsets that point past it are shifted; the file is then    *)
(* replaced.                                                                 *)
(*                                                                           *)
(* A file is its top boxes, one after the other, and the tracks of its moov. *)
(* A box has the size its header states and the bytes it really takes; the   *)
(* boxes between a track and its sample entry are left out, being grown as   *)
(* the track is.  A chunk offset is a position in the file.                  *)
(*                                                                           *)
(* The matrix (jobs/media/stream_color.py, fingerprint.py, video_color.py,   *)
(* frames.py and checks.py, in the order of RunFinisher.finish): the one its *)
(* pixels measure when they tell, else the one its first frame states, else  *)
(* BT.709.  ffprobe, ffmpeg and the reader of the boxes may fail at each of  *)
(* their calls.  The corrected copy is probed, tagged and checked the same   *)
(* way, with the color it was written in.                                    *)
EXTENDS Integers, Sequences, FiniteSets, FiniteSetsExt

CONSTANTS
    Videos,      \* the files: [top, tracks]
    ColrSize,    \* bytes of a colr box
    MaxNumber,   \* the largest number of a 32-bit field
    Clips        \* the videos a child or an encoder may leave

\* A box of a whole file is as long as it says, and a chunk is in the media.
Measures == [size : Nat, bytes : Nat]
TopBoxes == [kind : STRING, size : Nat, bytes : Nat]
Tracks == [kind : STRING, box : Measures, entry : Measures, colr : BOOLEAN, wide : BOOLEAN, chunks : Seq(Nat)]

VARIABLES
    video,     \* the file under its name
    original,  \* the file as it was written
    patched,   \* the file with its moov patched
    swap,      \* the temporary file beside it: "none", "part" or "whole"
    tagging    \* "reading", "copying", "swapping", "changed", "kept", "refused" or "crashed"

tagVars == <<video, original, patched, swap, tagging>>

TagStart(v) == video = v /\ original = v /\ patched = v /\ swap = "none" /\ tagging = "reading"

TagInit == \E v \in Videos : TagStart(v)

---------------------------------------------------------------------------
(* The boxes.                                                                *)

HasBox(v, kind) == \E i \in DOMAIN v.top : v.top[i].kind = kind
IndexOf(v, kind) == Min({i \in DOMAIN v.top : v.top[i].kind = kind})
StartOf(v, i) ==
    LET before[n \in Nat] == IF n = 0 THEN 0 ELSE before[n - 1] + v.top[n].bytes
    IN  before[i - 1]
MoovEnd(v) == StartOf(v, IndexOf(v, "moov") + 1)

Lies(v, position, i) == StartOf(v, i) <= position /\ position < StartOf(v, i + 1)

ASSUME VideosAssumption ==
    /\ ColrSize \in Nat /\ MaxNumber \in Nat
    /\ Videos \subseteq [top : Seq(TopBoxes), tracks : Seq(Tracks)]
    /\ \A v \in Videos :
         /\ \A i \in DOMAIN v.top : v.top[i].size = v.top[i].bytes
         /\ \A t \in DOMAIN v.tracks :
              /\ v.tracks[t].box.size = v.tracks[t].box.bytes /\ v.tracks[t].entry.size = v.tracks[t].entry.bytes
              /\ \A c \in DOMAIN v.tracks[t].chunks :
                    \E i \in DOMAIN v.top : v.top[i].kind = "mdat" /\ Lies(v, v.tracks[t].chunks[c], i)

\* _video_path: the first track that holds video and has a sample entry.
VideoTracks(v) == {t \in DOMAIN v.tracks : v.tracks[t].kind = "vide" /\ v.tracks[t].entry.bytes > 0}

media_after_moov(v) == \E i \in DOMAIN v.top : v.top[i].kind = "mdat" /\ i > IndexOf(v, "moov")

_grow(box) == [box EXCEPT !.size = @ + ColrSize, !.bytes = @ + ColrSize]

\* Mutant of the next: only the offsets into the first box after the moov.
Shifted_Next(v, offset) ==
    LET next == IndexOf(v, "moov") + 1
    IN  IF media_after_moov(v) /\ offset >= MoovEnd(v) /\ offset < StartOf(v, next + 1) THEN offset + ColrSize ELSE offset

Shifted(v, offset) == IF media_after_moov(v) /\ offset >= MoovEnd(v) THEN offset + ColrSize ELSE offset

\* The chunk offsets of every track, not of the one that is tagged alone.
_shift_chunk_offsets(v) == [t \in DOMAIN v.tracks |-> [v.tracks[t] EXCEPT !.chunks = [c \in DOMAIN @ |-> Shifted(v, @[c])]]]

_patch_moov(v) ==
    LET mine == Min(VideoTracks(v))
    IN  [top |-> [v.top EXCEPT ![IndexOf(v, "moov")] = _grow(@)],
         tracks |-> [_shift_chunk_offsets(v) EXCEPT ![mine].colr = TRUE, ![mine].box = _grow(@), ![mine].entry = _grow(@)]]

\* A number that no longer fits its field raises.
Overflows(v) ==
    \/ v.top[IndexOf(v, "moov")].size > MaxNumber
    \/ \E t \in DOMAIN v.tracks : ~v.tracks[t].wide /\ \E c \in DOMAIN v.tracks[t].chunks : v.tracks[t].chunks[c] > MaxNumber

---------------------------------------------------------------------------

ReadMoov ==
    /\ tagging = "reading"
    /\ IF HasBox(video, "moof") \/ ~HasBox(video, "moov") \/ VideoTracks(video) = {} THEN tagging' = "refused" /\ UNCHANGED <<patched, swap>>
       \* A box that is there already is the writer's statement.
       ELSE IF video.tracks[Min(VideoTracks(video))].colr THEN tagging' = "kept" /\ UNCHANGED <<patched, swap>>
       ELSE IF Overflows(_patch_moov(video)) THEN tagging' = "refused" /\ UNCHANGED <<patched, swap>>
       ELSE tagging' = "copying" /\ patched' = _patch_moov(video) /\ swap' = "part"
    /\ UNCHANGED <<video, original>>

\* _replace: the copy fails, when the file shrank or the disk is full, and is removed, or it is whole.
CopyFile ==
    /\ tagging = "copying"
    /\ \/ tagging' = "refused" /\ swap' = "none"
       \/ tagging' = "swapping" /\ swap' = "whole"
    /\ UNCHANGED <<video, original, patched>>

SwapIn ==
    /\ tagging = "swapping"
    /\ \/ tagging' = "changed" /\ video' = patched
       \/ tagging' = "refused" /\ UNCHANGED video
    /\ swap' = "none"
    /\ UNCHANGED <<original, patched>>

TagCrash ==
    /\ tagging \in {"copying", "swapping"}
    /\ tagging' = "crashed"
    /\ UNCHANGED <<video, original, patched, swap>>

TagNext == ReadMoov \/ CopyFile \/ SwapIn \/ TagCrash

TagSpec == TagInit /\ [][TagNext]_tagVars

---------------------------------------------------------------------------

\* Where a position of a file lies: in which of its top boxes, and how far in.
PlaceOf(v, position) ==
    LET i == Min({n \in DOMAIN v.top : position < StartOf(v, n + 1)}) IN <<i, position - StartOf(v, i)>>

Boxes(v) == {v.top[i] : i \in DOMAIN v.top} \cup {v.tracks[t].box : t \in DOMAIN v.tracks} \cup {v.tracks[t].entry : t \in DOMAIN v.tracks}

\* Whatever is tagged, refused or interrupted, the file under the video's name is whole: each chunk offset finds the media it
\* found in the file as it was written, wherever the moov and the media are, each box is as long as it says, and the file was
\* changed exactly when that is reported; a temporary file is left by a crash alone.
MediaKept ==
    /\ \A t \in DOMAIN video.tracks : \A c \in DOMAIN video.tracks[t].chunks :
          PlaceOf(video, video.tracks[t].chunks[c]) = PlaceOf(original, original.tracks[t].chunks[c])
    /\ \A box \in Boxes(video) : box.size = box.bytes
    /\ video # original <=> tagging = "changed"
    /\ swap # "none" => tagging \in {"copying", "swapping", "crashed"}

----------------------------------------------------------------------------
(* The matrix.                                                               *)

VARIABLES
    clip,      \* the video: what it states, how it was encoded, what its pixels show, the box its writer gave it
    judged,    \* the StreamColor it is handled with
    probe,     \* MediaChecker.probe: "unread", "read" or "failed"
    colrBox,   \* its colr box
    frame,     \* its last frame: what it was decoded with and what the PNG says
    verdict,   \* the output check's warnings and notes
    pngVerdict,\* the last frame check's warnings
    calls,     \* whether every call of ffprobe, ffmpeg and the box reader succeeded so far
    looking    \* the next step

colorTagVars == <<clip, judged, probe, colrBox, frame, verdict, pngVerdict, calls, looking>>

Unstated == "none"
BT601 == "bt470bg"
BT709 == "bt709"
BT2020 == "bt2020nc"

\* stream_color.MATRICES: what can be decoded with and tagged.
MATRICES == {BT709, "fcc", BT601, "smpte170m", "smpte240m", BT2020}
\* fingerprint.MATRICES, and SAME_MATRIX: ffprobe's names of the candidates.
Candidates == {BT601, BT709, BT2020}
SameMatrix(name) == IF name = "smpte170m" THEN BT601 ELSE IF name \in Candidates THEN name ELSE Unstated
\* checks.H273_MATRICES: the codes of a box the check has a name for.
H273_MATRICES == {BT709, BT601, "smpte170m", BT2020}

OrDefault(matrix) == IF matrix = Unstated THEN BT709 ELSE matrix

NoBox == [matrix |-> Unstated, range |-> Unstated, icc |-> FALSE]
NoFrame == [matrix |-> Unstated, range |-> Unstated, png |-> Unstated]

----------------------------------------------------------------------------
(* MatrixFingerprint: a candidate's score is the mean distance, in           *)
(* thousandths, of its decoded values from whole levels.                     *)

FOUND_BELOW == 235
MARGIN == 12
NOISE_FROM == 245

\* MatrixFingerprint.matrix: the lowest score, when it is low and clear of the others.
Measured_NoMargin(scores) ==
    IF \E m \in Candidates : scores[m] < FOUND_BELOW
    THEN CHOOSE m \in Candidates : \A other \in Candidates : scores[m] <= scores[other]
    ELSE Unstated
MeasuredMatrix(scores) ==
    LET clear == {m \in Candidates : /\ scores[m] < FOUND_BELOW
                                     /\ \A other \in Candidates \ {m} : scores[other] >= scores[m] + MARGIN}
    IN  IF clear = {} THEN Unstated ELSE CHOOSE m \in clear : TRUE

looks_like_noise(scores) == \A m \in Candidates : scores[m] >= NOISE_FROM

----------------------------------------------------------------------------
(* resolve_video_color.                                                      *)

\* What the first frame states, nothing without an answer of ffprobe's.
StatedColor(probed) ==
    [matrix |-> IF probed THEN clip.stated ELSE Unstated, range |-> IF probed THEN clip.range ELSE Unstated,
     measured |-> FALSE, fingerprint |-> FALSE]

\* The pixels' matrix, over what is stated, when they tell another.
ResolvedColor_StatedFirst(stated) == stated
ResolvedColor(stated) ==
    LET pixels == MeasuredMatrix(clip.scores)
        taken == [stated EXCEPT !.fingerprint = TRUE]
    IN  IF pixels = Unstated \/ SameMatrix(OrDefault(stated.matrix)) = pixels THEN taken
        ELSE [taken EXCEPT !.matrix = pixels, !.measured = TRUE]

decode_range(color) == IF color.range \in {"tv", "pc"} THEN color.range ELSE "tv"
Decodable(color) == OrDefault(color.matrix) \in MATRICES

\* COPY_COLOR: what the corrected copy is written, tagged and checked with.
COPY_COLOR == [matrix |-> BT709, range |-> "tv", measured |-> FALSE, fingerprint |-> FALSE]

LookStart(c) ==
    /\ clip = c
    /\ judged = COPY_COLOR
    /\ probe = "unread"
    /\ colrBox = c.box
    /\ frame = NoFrame
    /\ verdict = [warnings |-> {}, notes |-> {}]
    /\ pngVerdict = {}
    /\ calls = TRUE
    /\ looking = IF c.kind = "run" THEN "color" ELSE "probe"

LookInit == \E c \in Clips : LookStart(c)

ReadColor ==
    /\ looking = "color"
    /\ \E probed, decodes \in BOOLEAN :
         LET stated == StatedColor(probed)
             tried == probed /\ clip.dense
         IN  /\ judged' = IF tried /\ decodes THEN ResolvedColor(stated) ELSE stated
             /\ calls' = (calls /\ probed /\ (tried => decodes))
    /\ looking' = "probe"
    /\ UNCHANGED <<clip, probe, colrBox, frame, verdict, pngVerdict>>

\* MediaChecker.probe, before the box.
Probe ==
    /\ looking = "probe"
    /\ probe' \in {"read", "failed"}
    /\ calls' = (calls /\ probe' = "read")
    /\ looking' = "tag"
    /\ UNCHANGED <<clip, judged, colrBox, frame, verdict, pngVerdict>>

\* tag_video_colors: QuickTime's box has no range.
BoxOf(color) ==
    [matrix |-> OrDefault(color.matrix), range |-> IF clip.quicktime THEN Unstated ELSE decode_range(color), icc |-> FALSE]

\* A video with a box of any kind, of an unknown matrix, or that cannot be edited keeps what its writer gave it.
Tag ==
    /\ looking = "tag"
    /\ \E edits \in BOOLEAN :
         /\ colrBox' = IF edits /\ colrBox = NoBox /\ Decodable(judged) THEN BoxOf(judged) ELSE colrBox
         /\ calls' = (calls /\ edits)
    /\ looking' = "check"
    /\ UNCHANGED <<clip, judged, probe, frame, verdict, pngVerdict>>

----------------------------------------------------------------------------
(* check_output.                                                             *)

\* read_colr: a box that holds an ICC profile states no codes.
ReadBox == IF colrBox.icc THEN NoBox ELSE colrBox

BoxMatrix == IF ReadBox.matrix \in H273_MATRICES THEN ReadBox.matrix ELSE Unstated

Contradicts ==
    /\ clip.stated # Unstated /\ BoxMatrix # Unstated
    /\ SameMatrix(BoxMatrix) # SameMatrix(clip.stated)

\* The tagger wrote what the pixels measure, over the stream's statement.
TaggedAsMeasured == judged.measured /\ SameMatrix(BoxMatrix) = SameMatrix(OrDefault(judged.matrix))

\* _fingerprint: the measurement that chose the color, else one made now.
PixelsSeen(decodes) == clip.dense /\ (judged.fingerprint \/ decodes)

OutputWarnings(decodes) ==
    LET pixels == MeasuredMatrix(clip.scores)
    IN  {w \in {"codec", "box", "stream", "noise", "matrix"} :
            \/ w = "codec" /\ clip.kind = "run" /\ ~clip.asked
            \/ w = "box" /\ ReadBox = NoBox
            \/ w = "stream" /\ Contradicts /\ ~TaggedAsMeasured
            \/ /\ PixelsSeen(decodes)
               /\ \/ w = "noise" /\ looks_like_noise(clip.scores)
                  \/ w = "matrix" /\ pixels # Unstated /\ SameMatrix(OrDefault(judged.matrix)) # pixels}

OutputNotes(decodes) ==
    {n \in {"unstated", "measured", "unmeasured", "inconclusive"} :
        \/ n = "unstated" /\ clip.stated = Unstated /\ ~judged.measured
        \/ n = "measured" /\ Contradicts /\ TaggedAsMeasured
        \/ n = "unmeasured" /\ ~PixelsSeen(decodes)
        \/ /\ n = "inconclusive" /\ PixelsSeen(decodes)
           /\ MeasuredMatrix(clip.scores) = Unstated /\ ~looks_like_noise(clip.scores)}

\* _guarded: whatever breaks the check is its only warning.
CheckOutput ==
    /\ looking = "check"
    /\ \E probed, opens, decodes \in BOOLEAN :
         /\ verdict' = IF probe = "read" /\ probed /\ opens
                       THEN [warnings |-> OutputWarnings(decodes), notes |-> OutputNotes(decodes)]
                       ELSE [warnings |-> {"unread"}, notes |-> {}]
         /\ calls' = (calls /\ probed /\ opens /\ decodes)
    /\ looking' = IF clip.kind = "run" THEN "frame" ELSE "done"
    /\ UNCHANGED <<clip, judged, probe, colrBox, frame, pngVerdict>>

----------------------------------------------------------------------------
(* The last frame.                                                           *)

\* srgb_filter: 16-bit RGB without alpha, labeled sRGB; a matrix the scale filter does not know is left to ffmpeg,
\* which takes the frame's.
RGB_16 == [mode |-> "RGB", depth |-> 16, alpha |-> FALSE, label |-> "sRGB"]
DecodedFrame(color) ==
    [matrix |-> IF Decodable(color) THEN OrDefault(color.matrix) ELSE clip.stated,
     range |-> IF Decodable(color) THEN decode_range(color) ELSE decode_range(clip), png |-> RGB_16]

\* extract_last_frame; a failure ends the run's finishing.
ExtractFrame ==
    /\ looking = "frame"
    /\ \/ /\ frame' = DecodedFrame(judged)
          /\ looking' = "last_frame"
       \/ /\ looking' = "failed"
          /\ UNCHANGED frame
    /\ UNCHANGED <<clip, judged, probe, colrBox, verdict, pngVerdict, calls>>

\* check_last_frame, and check_handoff of the resume that continues from it.
PngWarnings(png) ==
    {w \in {"alpha", "label", "depth", "mode"} :
        \/ w = "alpha" /\ png.alpha
        \/ w = "label" /\ png.label \notin {"sRGB", "iCCP"}
        \/ w = "depth" /\ png.depth # 16
        \/ w = "mode" /\ png.mode # "RGB"}

CheckLastFrame ==
    /\ looking = "last_frame"
    /\ pngVerdict' = PngWarnings(frame.png)
    /\ looking' = "done"
    /\ UNCHANGED <<clip, judged, probe, colrBox, frame, verdict, calls>>

LookNext == ReadColor \/ Probe \/ Tag \/ CheckOutput \/ ExtractFrame \/ CheckLastFrame

LookSpec == LookInit /\ [][LookNext]_colorTagVars

----------------------------------------------------------------------------
(* What must hold.                                                           *)

Agree(a, b) == a = b \/ (SameMatrix(a) # Unstated /\ SameMatrix(a) = SameMatrix(b))

\* A box the tagger wrote says what the last frame was decoded with, or, of a copy, what it was encoded with.
TaggedAsDecoded ==
    (colrBox # clip.box /\ looking = "done") =>
        /\ Agree(colrBox.matrix, IF clip.kind = "run" THEN frame.matrix ELSE clip.encoded)
        /\ colrBox.range # Unstated => colrBox.range = (IF clip.kind = "run" THEN frame.range ELSE "tv")

\* Pixels that tell are believed over what the stream states, known or not, whenever the tools answer.
PixelsWin ==
    (calls /\ clip.kind = "run" /\ clip.dense /\ MeasuredMatrix(clip.scores) # Unstated /\ looking = "done") =>
        Agree(frame.matrix, clip.encoded)

\* A check without a warning can be trusted: the video states its color; the tagger's box agrees with a statement of
\* the stream that the pixels do not refute; and pixels that were measured and tell were decoded as they were encoded.
OkIsTrue ==
    (looking = "done" /\ verdict.warnings = {}) =>
        /\ ReadBox # NoBox
        /\ (~judged.measured /\ clip.stated # Unstated /\ BoxMatrix # Unstated) => Agree(colrBox.matrix, clip.stated)
        /\ ("unmeasured" \notin verdict.notes /\ MeasuredMatrix(clip.scores) # Unstated) =>
             Agree(OrDefault(judged.matrix), clip.encoded)

\* A plain video raises no warning: every call succeeds, its writer gave it no box, it is of the format asked for, its
\* stream states a matrix known here or none, and its pixels are no noise.
NoFalseAlarm ==
    (/\ looking = "done" /\ calls /\ clip.box = NoBox /\ clip.asked
     /\ OrDefault(clip.stated) \in MATRICES /\ ~looks_like_noise(clip.scores)) =>
        verdict.warnings = {} /\ pngVerdict = {}

\* The color a video is decoded with is the one its pixels and its stream call for, its box says the same, and its
\* checks report what is wrong with it and nothing else.
ColorTold == TaggedAsDecoded /\ PixelsWin /\ OkIsTrue /\ NoFalseAlarm
=============================================================================
