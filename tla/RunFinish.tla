---------------------------- MODULE RunFinish ----------------------------
(***************************************************************************)
(* One run from the end of its child to its record: RunLauncher.launch     *)
(* (jobs/launcher.py) classifies the child's end, then the backend         *)
(* finishes the output.  Draw Things' finishing (RunFinisher and           *)
(* ColorCorrector) works on the final names; H3's (finish_h3) works on     *)
(* staged files and promotes them at the end.  Every step may fail, and a  *)
(* stop may arrive at any moment.                                          *)
(*                                                                         *)
(* A file is its content or Nothing.  A content is a sequence: what was    *)
(* made, followed by the content it was made from, so a property can ask   *)
(* where a file comes from.  Probing, tagging (VideoTag) and correcting    *)
(* (ColorCorrection) are one step each here and modules of their own.      *)
(***************************************************************************)
EXTENDS ColorCorrection, VideoTag

VARIABLES job,      \* the run: backend, pipeline, whether it is a video and is corrected
          pc,       \* the next step; "ended" by the child's end, "done" by the finishing's
          files,    \* path -> content
          known,    \* H3: the child's colors can be interpreted
          delivery, \* H3: the path of the delivery, state.delivery
          main,     \* H3: the path of the main output, state.main_output
          runRecord,   \* the names RunRecord keeps: field -> recorded or not
          stop,     \* CancelToken.requested
          result    \* how the run ended, "none" before

finishVars == <<job, pc, files, known, delivery, main, runRecord, stop, result>>

Nothing == << >>

Staged == {"partial", "delivery", "native", "raw", "corrected", "handoff"}

Promoted == {"output", "raw_output", "uncorrected_output", "last_frame"}

Paths == Staged \cup Promoted \cup {"raw_last_frame", "copy"}

Exists(path) == files[path] # Nothing

(* What a run may be: a Draw Things image, a Draw Things video, or one of  *)
(* H3's two pipelines; corrects says that its colors are corrected         *)
(* (corrects and strength > 0 for H3, corrects and an input for a video).  *)
Jobs ==
    [backend : {"draw"}, pipeline : {"image", "video"}, corrects : BOOLEAN]
    \cup [backend : {"h3"}, pipeline : {"i2av", "r2av"}, corrects : BOOLEAN]

IsH3 == job.backend = "h3"

(* The file the child writes: H3's staging MP4, or the output itself.      *)
child_output == IF IsH3 THEN "partial" ELSE "output"

(* StagedH3Artifacts.for_request: only a corrected i2av run keeps the      *)
(* child's MP4.                                                            *)
KeepsRaw == job.corrects /\ job.pipeline = "i2av"

Correcting == job.corrects /\ job.pipeline = "video"

FinishStart(j) ==
    /\ job = j
    /\ pc = "child"
    /\ files = [p \in Paths |-> Nothing]
    /\ known = FALSE
    /\ delivery = "partial"
    /\ main = "partial"
    /\ runRecord = [f \in {"raw_output", "uncorrected_output", "corrected_output", "last_frame"} |-> FALSE]
    /\ stop = FALSE
    /\ result = "none"

FinishInit == \E j \in {i \in Jobs : i.pipeline = "image" => ~i.corrects} : FinishStart(j)

RequestStop ==
    /\ pc \notin {"ended", "done"}
    /\ ~stop
    /\ stop' = TRUE
    /\ UNCHANGED <<job, pc, files, known, delivery, main, runRecord, result>>

---------------------------------------------------------------------------
(* The launcher.                                                           *)

Ended(status) == pc' = "done" /\ result' = status

StepTo(step) == pc' = step /\ UNCHANGED result

(* The child ends: past its time limit, by the stop, with an exit code     *)
(* other than 0, or with 0; and it has written its file or not.  Only an   *)
(* exit code of 0 with the file there is finished.                         *)
ChildEnds ==
    /\ pc = "child"
    /\ \E end \in {"timed_out", "failed", "exit_0"} \cup (IF stop THEN {"interrupted"} ELSE {}), wrote \in BOOLEAN :
        /\ files' = [files EXCEPT ![child_output] = IF wrote THEN <<"child">> ELSE Nothing]
        /\ \/ end # "exit_0" /\ pc' = "ended" /\ result' = end
           \/ end = "exit_0" /\ ~wrote /\ pc' = "ended" /\ result' = "failed"
           \/ end = "exit_0" /\ wrote /\ StepTo(IF IsH3 THEN "verify" ELSE "tag")
    /\ UNCHANGED <<job, known, delivery, main, runRecord, stop>>

---------------------------------------------------------------------------
(* H3: finish_h3, one action per step.                                     *)

Cleared(paths) == [p \in Paths |-> IF p \in paths THEN Nothing ELSE files[p]]

(* The three ways out of finish_h3's try: a status that a step returned or *)
(* a cancelled color step, an error it catches (what was promoted goes),   *)
(* and an error it does not catch; the finally clause clears the staged    *)
(* files on each.                                                          *)
cleanup_staged == Cleared(Staged)

(* Mutation: an error while promoting only clears the staged files.        *)
cleanup_promoted_StagedOnly == Cleared(Staged)

cleanup_promoted == Cleared(Staged \cup Promoted)

Returned(status) == Ended(status) /\ files' = cleanup_staged

Caught == Ended("failed") /\ files' = cleanup_promoted

Uncaught == Ended("raised") /\ files' = cleanup_staged

(* _verify_h3_mp4: the streams, codecs, size, frame rate, frame count and  *)
(* synchronisation are as the run asked; ValueError, or a KeyError or      *)
(* ZeroDivisionError from facts ffprobe left out.                          *)
verify_h3_mp4 == {"ok", "invalid", "incomplete"}

VerifySource ==
    /\ pc = "verify"
    /\ \/ stop /\ Returned("interrupted")
       \/ \E found \in verify_h3_mp4 :
            \/ found = "ok" /\ StepTo("interpret") /\ UNCHANGED files
            \/ found = "invalid" /\ Returned("failed")
            \/ found = "incomplete" /\ Uncaught
    /\ UNCHANGED <<job, known, delivery, main, runRecord, stop>>

InterpretSourceColor ==
    /\ pc = "interpret"
    /\ known' \in BOOLEAN
    /\ StepTo("copy_raw")
    /\ UNCHANGED <<job, files, delivery, main, runRecord, stop>>

CopyRawChild ==
    /\ pc = "copy_raw"
    /\ \/ ~KeepsRaw /\ StepTo("deliver") /\ UNCHANGED files
       \/ KeepsRaw /\ StepTo("deliver") /\ files' = [files EXCEPT !["raw"] = files["partial"]]
       \/ KeepsRaw /\ Caught
    /\ UNCHANGED <<job, known, delivery, main, runRecord, stop>>

(* A step that runs ffmpeg reads the stop while it waits, and cancels the  *)
(* finishing when one was asked (_read_frame, _write_frame, _wait_process  *)
(* and the loops of the two operators below).                              *)
WithCancel(outcomes) == outcomes \cup (IF stop THEN {"cancelled"} ELSE {})

(* The conversion ends with the delivery written, or fails or times out.   *)
convert_h3_delivery == WithCancel({"written", "failed"})

(* The drift's frames are decoded, or not: a fact of the record only.      *)
measure_h3_drift == WithCancel({"measured"})

(* The two passes of the correction end with the copy, or fail or time out.*)
correct_h3_video == WithCancel({"written", "failed"})

ColorCancelled == Returned("interrupted")

Delivered(path) ==
    /\ delivery' = path
    /\ main' = path
    /\ StepTo("drift")

(* The preferred conversion, else the native tag on a copy, else the       *)
(* child's own MP4.                                                        *)
SelectDelivery ==
    /\ pc = "deliver"
    /\ \/ ~known /\ StepTo("drift") /\ UNCHANGED <<files, delivery, main>>
       \/ /\ known
          /\ \E ends \in convert_h3_delivery, found \in verify_h3_mp4, tagged \in BOOLEAN :
            \/ ends = "cancelled" /\ ColorCancelled /\ UNCHANGED <<delivery, main>>
            \/ ends = "written" /\ found = "incomplete" /\ Uncaught /\ UNCHANGED <<delivery, main>>
            \/ /\ ends = "written" /\ found = "ok"
               /\ Delivered("delivery")
               /\ files' = [files EXCEPT !["delivery"] = <<"converted">> \o files["partial"]]
            \/ /\ ends = "failed" \/ found = "invalid"
               /\ ends # "cancelled"
               /\ tagged
               /\ Delivered("native")
               /\ files' = [files EXCEPT !["native"] = <<"tagged">> \o files["partial"]]
            \/ /\ ends = "failed" \/ found = "invalid"
               /\ ends # "cancelled"
               /\ ~tagged
               /\ StepTo("drift")
               /\ UNCHANGED <<files, delivery, main>>
    /\ UNCHANGED <<job, known, runRecord, stop>>

MeasureColorDrift ==
    /\ pc = "drift"
    /\ \/ StepTo("correct") /\ UNCHANGED files
       \/ known /\ "cancelled" \in measure_h3_drift /\ ColorCancelled
    /\ UNCHANGED <<job, known, delivery, main, runRecord, stop>>

(* correct_h3_video and the verification of what it wrote; a failure       *)
(* removes the staged copy and keeps the delivery as the main output.      *)
ApplyOptionalCorrection ==
    /\ pc = "correct"
    /\ \/ ~(KeepsRaw /\ known) /\ StepTo("extract") /\ UNCHANGED <<files, main>>
       \/ /\ KeepsRaw /\ known
          /\ \E ends \in correct_h3_video, found \in verify_h3_mp4 :
            \/ ends = "cancelled" /\ ColorCancelled /\ UNCHANGED main
            \/ ends = "written" /\ found = "incomplete" /\ Uncaught /\ UNCHANGED main
            \/ /\ ends = "written" /\ found = "ok"
               /\ files' = [files EXCEPT !["corrected"] = <<"corrected">> \o files[delivery]]
               /\ main' = "corrected"
               /\ StepTo("extract")
            \/ (ends = "failed" \/ found = "invalid") /\ ends # "cancelled" /\ StepTo("extract") /\ UNCHANGED <<files, main>>
    /\ UNCHANGED <<job, known, delivery, runRecord, stop>>

(* Mutation: the handoff is taken from the delivery whatever the main      *)
(* output is.                                                              *)
ExtractHandoff_Delivery ==
    /\ pc = "extract"
    /\ StepTo("check_stop")
    /\ \/ known /\ files' = [files EXCEPT !["handoff"] = <<"frame">> \o files[delivery]]
       \/ UNCHANGED files
    /\ UNCHANGED <<job, known, delivery, main, runRecord, stop>>

ExtractHandoff ==
    /\ pc = "extract"
    /\ StepTo("check_stop")
    /\ \/ known /\ files' = [files EXCEPT !["handoff"] = <<"frame">> \o files[main]]
       \/ UNCHANGED files
    /\ UNCHANGED <<job, known, delivery, main, runRecord, stop>>

CheckStop ==
    /\ pc = "check_stop"
    /\ IF stop THEN Returned("interrupted") ELSE StepTo("promote_raw") /\ UNCHANGED files
    /\ UNCHANGED <<job, known, delivery, main, runRecord, stop>>

(* os.replace(source, target) and the record's field; it may raise.        *)
Replace(source, target, step) ==
    /\ StepTo(step)
    /\ files' = [files EXCEPT ![target] = files[source], ![source] = Nothing]

PromoteRaw ==
    /\ pc = "promote_raw"
    /\ \/ ~KeepsRaw /\ StepTo("promote_delivery") /\ UNCHANGED <<files, runRecord>>
       \/ KeepsRaw /\ Replace("raw", "raw_output", "promote_delivery") /\ runRecord' = [runRecord EXCEPT !["raw_output"] = TRUE]
       \/ KeepsRaw /\ Caught /\ UNCHANGED runRecord
    /\ UNCHANGED <<job, known, delivery, main, stop>>

PromoteDelivery ==
    /\ pc = "promote_delivery"
    /\ \/ main # "corrected" /\ StepTo("promote_main") /\ UNCHANGED <<files, runRecord>>
       \/ /\ main = "corrected"
          /\ Replace(delivery, "uncorrected_output", "promote_main")
          /\ runRecord' = [runRecord EXCEPT !["uncorrected_output"] = TRUE, !["corrected_output"] = TRUE]
       \/ main = "corrected" /\ Caught /\ UNCHANGED runRecord
    /\ UNCHANGED <<job, known, delivery, main, stop>>

PromoteMain ==
    /\ pc = "promote_main"
    /\ Replace(main, "output", "promote_handoff") \/ Caught
    /\ UNCHANGED <<job, known, delivery, main, runRecord, stop>>

(* A handoff that cannot be promoted is only a warning.                    *)
PromoteHandoff ==
    /\ pc = "promote_handoff"
    /\ \/ Exists("handoff") /\ Replace("handoff", "last_frame", "record") /\ runRecord' = [runRecord EXCEPT !["last_frame"] = TRUE]
       \/ StepTo("record") /\ files' = Cleared({"handoff"}) /\ UNCHANGED runRecord
    /\ UNCHANGED <<job, known, delivery, main, stop>>

RecordAndReport ==
    /\ pc = "record"
    /\ Returned("succeeded")
    /\ UNCHANGED <<job, known, delivery, main, runRecord, stop>>

---------------------------------------------------------------------------
(* Draw Things: RunFinisher.finish.                                        *)

(* Probing and tagging change no file's frames; a failed tag is a warning. *)
TagVideo ==
    /\ pc = "tag"
    /\ StepTo(IF job.pipeline = "video" THEN "last_frame" ELSE "measure")
    /\ UNCHANGED <<job, files, known, delivery, main, runRecord, stop>>

(* A correcting run extracts beside the handoff, which the correction then *)
(* writes.                                                                 *)
extracted == IF Correcting THEN "raw_last_frame" ELSE "last_frame"

(* extract_last_frame may leave a broken file when it fails.               *)
ExtractLastFrame ==
    /\ pc = "last_frame"
    /\ \/ /\ files' = [files EXCEPT ![extracted] = <<"frame">> \o files["output"]]
          /\ StepTo(IF Correcting THEN "color" ELSE "named")
       \/ /\ files' \in {files, [files EXCEPT ![extracted] = <<"broken">>]}
          /\ Ended(IF stop THEN "interrupted" ELSE "failed")
    /\ UNCHANGED <<job, known, delivery, main, runRecord, stop>>

(* What a correction that fails has begun, in this order: nothing, the     *)
(* copy, and the handoff.                                                  *)
created_paths == {{}, {"copy"}, {"copy", "last_frame"}}

(* ColorCorrector removes exactly what it began.                           *)
CorrectionLeft(created) == Cleared(created)

(* The copy and the corrected handoff, or neither: the failed correction's *)
(* uncorrected frame is renamed to the handoff, and a rename that fails    *)
(* fails the run.                                                          *)
Correct ==
    /\ pc = "color"
    /\ LET copy == <<"corrected">> \o files["output"] IN
       \/ /\ files' = [files EXCEPT !["copy"] = copy, !["last_frame"] = <<"frame">> \o copy]
          /\ runRecord' = [runRecord EXCEPT !["corrected_output"] = TRUE]
          /\ StepTo("named")
       \/ \E created \in created_paths :
            LET left == CorrectionLeft(created) IN
            /\ UNCHANGED runRecord
            /\ \/ /\ files' = [left EXCEPT !["last_frame"] = left["raw_last_frame"], !["raw_last_frame"] = Nothing]
                  /\ StepTo("named")
               \/ files' = left /\ Ended("failed")
    /\ UNCHANGED <<job, known, delivery, main, stop>>

NameLastFrame ==
    /\ pc = "named"
    /\ runRecord' = [runRecord EXCEPT !["last_frame"] = TRUE]
    /\ StepTo("measure")
    /\ UNCHANGED <<job, files, known, delivery, main, stop>>

(* The measurement only warns; the launcher then requires the handoff.     *)
Measure ==
    /\ pc = "measure"
    /\ Ended(IF job.pipeline = "video" /\ ~Exists("last_frame") THEN "failed" ELSE "succeeded")
    /\ UNCHANGED <<job, files, known, delivery, main, runRecord, stop>>

---------------------------------------------------------------------------

FinishStep ==
    \/ ChildEnds
    \/ VerifySource \/ InterpretSourceColor \/ CopyRawChild \/ SelectDelivery \/ MeasureColorDrift
    \/ ApplyOptionalCorrection \/ ExtractHandoff \/ CheckStop
    \/ PromoteRaw \/ PromoteDelivery \/ PromoteMain \/ PromoteHandoff \/ RecordAndReport
    \/ TagVideo \/ ExtractLastFrame \/ Correct \/ NameLastFrame \/ Measure

FinishNext == RequestStop \/ FinishStep

FinishSpec == FinishInit /\ [][FinishNext]_finishVars

---------------------------------------------------------------------------
(* A run that succeeded says exactly what is there: every recorded name is *)
(* a file and every file is recorded; the raw MP4 is the child's own, the  *)
(* main output is the corrected delivery exactly when the record says so,  *)
(* and the handoff is the last frame of the main output (of the corrected  *)
(* copy for Draw Things).                                                  *)
SuccessIsWhole ==
    result = "succeeded" =>
        /\ Exists("output")
        /\ runRecord["last_frame"] = Exists("last_frame")
        /\ runRecord["raw_output"] = Exists("raw_output")
        /\ runRecord["uncorrected_output"] = Exists("uncorrected_output")
        /\ Exists("raw_output") => files["raw_output"] = <<"child">>
        /\ IsH3 => /\ runRecord["raw_output"] = KeepsRaw
                   /\ runRecord["corrected_output"] => files["output"] = <<"corrected">> \o files["uncorrected_output"]
                   /\ runRecord["last_frame"] => files["last_frame"] = <<"frame">> \o files["output"]
        /\ ~IsH3 => /\ runRecord["corrected_output"] = Exists("copy")
                    /\ Exists("copy") = Exists("raw_last_frame")
                    /\ runRecord["last_frame"] =>
                          files["last_frame"] = <<"frame">> \o files[IF Exists("copy") THEN "copy" ELSE "output"]

(* What H3's finishing leaves besides its outputs, however it ends:        *)
(* nothing staged, and, unless it succeeded, no output, raw child, delivery or handoff that a   *)
(* resume or a person could take for a finished run.                       *)
NothingHalfDone ==
    (IsH3 /\ pc = "done") =>
        /\ \A p \in Staged : ~Exists(p)
        /\ result # "succeeded" => \A p \in Promoted : ~Exists(p)

(* "On child or finishing failure, retain no final output or handoff and   *)
(* clean up the staging file best-effort" (the H3 milestone): after any    *)
(* end of the run the staging MP4 is gone.                                 *)
ChildStagingGone == (IsH3 /\ pc \in {"ended", "done"}) => ~Exists("partial")

\* A run that succeeded has every file it records, and an H3 run that did not
\* leaves nothing that could be taken for one.
OutputsWhole == SuccessIsWhole /\ NothingHalfDone

\* Whatever step fails, is stopped or cancelled: a run that succeeded has recorded exactly the files it has, a correction is
\* whole or leaves nothing, and a video that is tagged keeps its media.
FilesWhole == OutputsWhole /\ CorrectionWhole /\ MediaKept
==========================================================================
