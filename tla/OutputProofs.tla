---------------------------- MODULE OutputProofs -----------------------------
(* Proofs about what a run leaves on disk: its finishing (RunFinish), for     *)
(* either backend, every choice of the job and a stop or a failure at any     *)
(* step; and its color correction (ColorCorrection), for any number of        *)
(* frames and whatever the segmenter finds or fails at.                       *)
(*                                                                            *)
(* The argument: no file reaches its promised name before the last step that  *)
(* can fail (H3Inv: Unpromoted), and each promotion moves what the steps      *)
(* before it made; a correction is at each step the owner of exactly what it  *)
(* began (Own), and its copy is the clip so far (Told). A tagged file's boxes *)
(* start where they did, later by the tag behind the moov (VideoTag); and an  *)
(* anchor stands from the run that sets it to the last that matches it        *)
(* (ColorChain).                                                              *)
EXTENDS RunFinish, ColorChain, FiniteSetTheorems, SequenceTheorems, TLAPS

------------------------------------------------------------------------------
(* The finishing of a run.                                                    *)

Words == {"child", "broken", "converted", "tagged", "corrected", "frame"}
Contents == Seq(Words)
Fields == {"raw_output", "uncorrected_output", "corrected_output", "last_frame"}
H3Steps == {"verify", "interpret", "copy_raw", "deliver", "drift", "correct", "extract", "check_stop",
            "promote_raw", "promote_delivery", "promote_main", "promote_handoff", "record"}
DrawSteps == {"tag", "last_frame", "color", "named", "measure"}

FinishType ==
  /\ job \in Jobs /\ (job.pipeline = "image" => ~job.corrects)
  /\ pc \in {"child", "ended", "done"} \cup H3Steps \cup DrawSteps
  /\ IsH3 => pc \notin DrawSteps
  /\ ~IsH3 => pc \notin H3Steps
  /\ files \in [Paths -> Contents]
  /\ known \in BOOLEAN /\ stop \in BOOLEAN
  /\ delivery \in {"partial", "delivery", "native"}
  /\ main \in {delivery, "corrected"}
  /\ runRecord \in [Fields -> BOOLEAN]
  /\ result = "succeeded" => pc = "done"

\* Where H3's finishing stands: nothing promoted yet, the raw child's file kept or promoted, and so on along its steps.
Unpromoted == {"child", "verify", "interpret", "copy_raw", "deliver", "drift", "correct", "extract", "check_stop", "promote_raw"}
RawKept == {"deliver", "drift", "correct", "extract", "check_stop", "promote_raw"}
RawPromoted == {"promote_delivery", "promote_main", "promote_handoff", "record"}
Delivering == H3Steps \ {"promote_main", "promote_handoff", "record"}
Output == {"promote_handoff", "record"}

Kept == IF KeepsRaw THEN <<"child">> ELSE Nothing

H3Inv ==
  IsH3 =>
    /\ pc \in Unpromoted => /\ \A p \in Promoted : ~Exists(p)
                            /\ runRecord = [f \in Fields |-> FALSE]
    /\ pc \in Delivering => files["partial"] = <<"child">>
    /\ pc \in RawKept /\ KeepsRaw => files["raw"] = <<"child">>
    /\ pc \in RawPromoted => files["raw_output"] = Kept /\ (runRecord["raw_output"] <=> KeepsRaw)
    /\ pc \in Delivering => Exists(delivery) /\ (main = "corrected" => files["corrected"] = <<"corrected">> \o files[delivery])
    /\ pc \in {"child", "verify", "interpret", "copy_raw", "deliver"} => delivery = "partial" /\ main = "partial"
    /\ pc = "child" => ~Exists("handoff")
    /\ pc \in {"promote_delivery"} => /\ ~Exists("uncorrected_output") /\ ~runRecord["uncorrected_output"] /\ ~runRecord["corrected_output"]
    /\ pc = "promote_main" =>
         /\ (runRecord["uncorrected_output"] <=> main = "corrected") /\ (runRecord["corrected_output"] <=> main = "corrected")
         /\ (Exists("uncorrected_output") <=> main = "corrected")
         /\ IF main = "corrected" THEN files["corrected"] = <<"corrected">> \o files["uncorrected_output"] ELSE Exists(main)
    /\ pc \in {"promote_delivery", "promote_main"} => ~Exists("output")
    /\ pc \in Output =>
         /\ Exists("output")
         /\ (runRecord["uncorrected_output"] <=> runRecord["corrected_output"])
         /\ (Exists("uncorrected_output") <=> runRecord["uncorrected_output"])
         /\ runRecord["corrected_output"] => files["output"] = <<"corrected">> \o files["uncorrected_output"]
    /\ pc \in H3Steps \ {"record"} => ~Exists("last_frame") /\ ~runRecord["last_frame"]
    /\ pc \in H3Steps \ (Output \cup {"check_stop", "promote_raw", "promote_delivery", "promote_main"}) => ~Exists("handoff")
    /\ pc \in {"check_stop", "promote_raw", "promote_delivery", "promote_main"} /\ Exists("handoff") =>
         files["handoff"] = <<"frame">> \o files[main]
    /\ pc = "promote_handoff" /\ Exists("handoff") => files["handoff"] = <<"frame">> \o files["output"]
    /\ pc = "record" =>
         /\ (runRecord["last_frame"] <=> Exists("last_frame"))
         /\ Exists("last_frame") => files["last_frame"] = <<"frame">> \o files["output"]

\* Where Draw Things' finishing stands.
Handed == IF Exists("copy") THEN "copy" ELSE "output"

DrawInv ==
  ~IsH3 =>
    /\ ~Exists("raw_output") /\ ~Exists("uncorrected_output")
    /\ ~runRecord["raw_output"] /\ ~runRecord["uncorrected_output"]
    /\ pc \in {"child", "tag", "last_frame"} \/ (pc = "measure" /\ job.pipeline = "image") =>
         /\ ~Exists("copy") /\ ~Exists("raw_last_frame") /\ ~Exists("last_frame")
         /\ ~runRecord["last_frame"] /\ ~runRecord["corrected_output"]
    /\ pc \in DrawSteps => Exists("output")
    /\ pc \in {"last_frame", "color", "named"} => job.pipeline = "video"
    /\ pc = "color" =>
         /\ ~Exists("copy") /\ ~Exists("last_frame") /\ ~runRecord["corrected_output"] /\ ~runRecord["last_frame"]
         /\ files["raw_last_frame"] = <<"frame">> \o files["output"]
    /\ pc = "named" \/ (pc = "measure" /\ job.pipeline = "video") =>
         /\ (runRecord["corrected_output"] <=> Exists("copy")) /\ (Exists("copy") <=> Exists("raw_last_frame"))
         /\ files["last_frame"] = <<"frame">> \o files[Handed]
         /\ pc = "measure" => runRecord["last_frame"]

FinishInv == FinishType /\ H3Inv /\ DrawInv /\ OutputsWhole

------------------------------------------------------------------------------

LEMMA Prefixed ==
  ASSUME NEW S, NEW w \in S, NEW s \in Seq(S)
  PROVE  <<w>> \in Seq(S) /\ <<w>> # <<>> /\ <<w>> \o s \in Seq(S) /\ <<w>> \o s # <<>>
<1>1. <<w>> \in Seq(S) /\ Len(<<w>>) = 1
  OBVIOUS
<1>2. <<w>> \o s \in Seq(S) /\ Len(<<w>> \o s) = 1 + Len(s) /\ Len(s) \in Nat
  BY <1>1, ConcatProperties, LenProperties
<1> QED
  BY <1>1, <1>2, EmptySeq

LEMMA Made ==
  /\ Nothing \in Contents
  /\ \A w \in Words : <<w>> \in Contents /\ <<w>> # Nothing
  /\ \A w \in Words, s \in Contents : <<w>> \o s \in Contents /\ <<w>> \o s # Nothing
<1>1. <<>> \in Seq(Words)
  BY EmptySeq
<1>2. \A w \in Words, s \in Seq(Words) : <<w>> \in Seq(Words) /\ <<w>> # <<>> /\ <<w>> \o s \in Seq(Words) /\ <<w>> \o s # <<>>
  BY Prefixed, Zenon
<1> QED
  BY <1>1, <1>2, Zenon DEF Contents, Nothing

LEMMA FilesTyped ==
  ASSUME FinishType, NEW path \in Paths
  PROVE  files[path] \in Contents
BY DEF FinishType

\* H3's run ends before its outputs are whole: what was promoted, if anything, is removed.
LEMMA H3EndsEarly ==
  ASSUME FinishInv, IsH3, pc \in {"child"} \cup H3Steps, UNCHANGED <<job, known, delivery, main, runRecord>>, stop' \in BOOLEAN,
         pc' = "done", result' # "succeeded",
         (files' = cleanup_staged /\ pc \in Unpromoted) \/ files' = cleanup_promoted
  PROVE  FinishInv'
<1> USE DEF FinishInv
<1>1. /\ \A p \in Staged \cup Promoted : files'[p] = Nothing
      /\ files' \in [Paths -> Contents]
  BY Made DEF cleanup_staged, cleanup_promoted, Cleared, H3Inv, Exists, FinishType, Paths
<1>2. IsH3'
  BY DEF IsH3
<1>3. FinishType'
  BY <1>1, <1>2 DEF FinishType, IsH3, DrawSteps
<1>4. H3Inv' /\ DrawInv'
  BY <1>2 DEF H3Inv, DrawInv, Unpromoted, RawKept, RawPromoted, Delivering, Output, H3Steps
<1>5. OutputsWhole'
  BY <1>1 DEF OutputsWhole, SuccessIsWhole, NothingHalfDone, Exists
<1> QED
  BY <1>3, <1>4, <1>5

\* A step of H3's finishing that goes on: only its type and H3's part of the invariant are left to show.
LEMMA H3GoesOn ==
  ASSUME FinishInv, IsH3, UNCHANGED <<job, result>>, pc' \in H3Steps, result # "succeeded", FinishType', H3Inv'
  PROVE  FinishInv'
<1>1. IsH3'
  BY DEF IsH3
<1>2. DrawInv' /\ OutputsWhole'
  BY <1>1 DEF DrawInv, OutputsWhole, SuccessIsWhole, NothingHalfDone, H3Steps
<1> QED
  BY <1>2 DEF FinishInv

LEMMA AtH3 ==
  ASSUME FinishInv, pc \in H3Steps
  PROVE  IsH3 /\ result # "succeeded"
BY DEF FinishInv, FinishType, H3Steps

LEMMA VerifyKeeps ==
  ASSUME FinishInv, VerifySource
  PROVE  FinishInv'
<1>1. /\ pc = "verify" /\ UNCHANGED <<job, known, delivery, main, runRecord, stop>>
      /\ IsH3 /\ result # "succeeded"
  BY AtH3 DEF VerifySource, H3Steps
<1>2. CASE Returned("interrupted") \/ Returned("failed") \/ Uncaught
  BY <1>1, <1>2, H3EndsEarly DEF Returned, Uncaught, Ended, FinishInv, FinishType, H3Steps, Unpromoted
<1>3. CASE StepTo("interpret") /\ UNCHANGED files
  <2>1. FinishType'
    BY <1>1, <1>3 DEF StepTo, FinishInv, FinishType, IsH3, H3Steps, DrawSteps
  <2>2. H3Inv'
    BY <1>1, <1>3 DEF StepTo, FinishInv, H3Inv, IsH3, KeepsRaw, Kept, Exists, Unpromoted, RawKept, RawPromoted, Delivering, Output, H3Steps
  <2> QED
    BY <1>1, <1>3, <2>1, <2>2, H3GoesOn DEF StepTo, H3Steps
<1> QED
  BY <1>2, <1>3 DEF VerifySource

LEMMA InterpretKeeps ==
  ASSUME FinishInv, InterpretSourceColor
  PROVE  FinishInv'
<1>1. /\ pc = "interpret" /\ UNCHANGED <<job, files, delivery, main, runRecord, stop>> /\ known' \in BOOLEAN /\ StepTo("copy_raw")
      /\ IsH3 /\ result # "succeeded"
  BY AtH3 DEF InterpretSourceColor, H3Steps
<1>2. FinishType'
  BY <1>1 DEF StepTo, FinishInv, FinishType, IsH3, H3Steps, DrawSteps
<1>3. H3Inv'
  BY <1>1 DEF StepTo, FinishInv, H3Inv, IsH3, KeepsRaw, Kept, Exists, Unpromoted, RawKept, RawPromoted, Delivering, Output, H3Steps
<1> QED
  BY <1>1, <1>2, <1>3, H3GoesOn DEF StepTo, H3Steps

LEMMA CopyRawKeeps ==
  ASSUME FinishInv, CopyRawChild
  PROVE  FinishInv'
<1>1. /\ pc = "copy_raw" /\ UNCHANGED <<job, known, delivery, main, runRecord, stop>>
      /\ IsH3 /\ result # "succeeded"
  BY AtH3 DEF CopyRawChild, H3Steps
<1>2. CASE Caught
  BY <1>1, <1>2, H3EndsEarly DEF Caught, Ended, FinishInv, FinishType, H3Steps
<1>3. StepTo("deliver") /\ ((KeepsRaw /\ files' = [files EXCEPT !["raw"] = files["partial"]]) \/ (~KeepsRaw /\ UNCHANGED files)) =>
        /\ FinishType'
        /\ KeepsRaw => files'["raw"] = <<"child">>
        /\ \A p \in Paths \ {"raw"} : files'[p] = files[p]
  BY <1>1, FilesTyped DEF StepTo, FinishInv, FinishType, H3Inv, IsH3, H3Steps, DrawSteps, Delivering, Paths, Staged
<1>4. CASE StepTo("deliver") /\ ((KeepsRaw /\ files' = [files EXCEPT !["raw"] = files["partial"]]) \/ (~KeepsRaw /\ UNCHANGED files))
  <2>1. Kept' = Kept /\ (KeepsRaw' <=> KeepsRaw)
    BY <1>1 DEF Kept, KeepsRaw
  <2>2. H3Inv'
    BY <1>1, <1>3, <1>4, <2>1 DEF StepTo, FinishInv, FinishType, H3Inv, IsH3, Exists, Unpromoted, RawKept, RawPromoted, Delivering, Output, H3Steps, Paths, Staged, Promoted
  <2> QED
    BY <1>1, <1>3, <1>4, <2>2, H3GoesOn DEF StepTo, H3Steps
<1>5. \/ StepTo("deliver") /\ KeepsRaw /\ files' = [files EXCEPT !["raw"] = files["partial"]]
      \/ StepTo("deliver") /\ ~KeepsRaw /\ UNCHANGED files
      \/ Caught
  BY Zenon DEF CopyRawChild
<1> QED
  BY <1>2, <1>4, <1>5

\* What the steps of the finishing find of the files' paths.
LEMMA SelectDeliveryKeeps ==
  ASSUME FinishInv, SelectDelivery
  PROVE  FinishInv'
<1>1. /\ pc = "deliver" /\ UNCHANGED <<job, known, runRecord, stop>>
      /\ IsH3 /\ result # "succeeded" /\ files["partial"] = <<"child">>
      /\ delivery = "partial" /\ main = "partial"
  BY AtH3 DEF SelectDelivery, H3Steps, FinishInv, H3Inv, Delivering
<1>2. CASE (ColorCancelled \/ Uncaught) /\ UNCHANGED <<delivery, main>>
  BY <1>1, <1>2, H3EndsEarly DEF ColorCancelled, Returned, Uncaught, Ended, FinishInv, FinishType, H3Steps, Unpromoted
<1>3. CASE StepTo("drift") /\ UNCHANGED <<files, delivery, main>>
  <2>1. FinishType'
    BY <1>1, <1>3 DEF StepTo, FinishInv, FinishType, IsH3, H3Steps, DrawSteps
  <2>2. H3Inv'
    BY <1>1, <1>3 DEF StepTo, FinishInv, H3Inv, IsH3, KeepsRaw, Kept, Exists, Unpromoted, RawKept, RawPromoted, Delivering, Output, H3Steps
  <2> QED
    BY <1>1, <1>3, <2>1, <2>2, H3GoesOn DEF StepTo, H3Steps
<1>4. ASSUME NEW path \in {"delivery", "native"}, NEW way \in Words, Delivered(path),
             files' = [files EXCEPT ![path] = <<way>> \o files["partial"]]
      PROVE  FinishInv'
  <2>1. <<way>> \o files["partial"] \in Contents /\ <<way>> \o files["partial"] # Nothing
    BY Made, FilesTyped DEF FinishInv, Paths, Staged
  <2>2. /\ files' \in [Paths -> Contents] /\ files'[path] # Nothing
        /\ \A p \in Paths \ {path} : files'[p] = files[p]
    BY <1>4, <2>1 DEF FinishInv, FinishType, Paths, Staged
  <2>3. FinishType'
    BY <1>1, <1>4, <2>2 DEF Delivered, StepTo, FinishInv, FinishType, IsH3, H3Steps, DrawSteps
  <2>4. H3Inv'
    BY <1>1, <1>4, <2>2 DEF Delivered, StepTo, FinishInv, H3Inv, IsH3, KeepsRaw, Kept, Exists, Unpromoted, RawKept, RawPromoted, Delivering, Output, H3Steps, Paths, Staged, Promoted
  <2> QED
    BY <1>1, <1>4, <2>3, <2>4, H3GoesOn DEF Delivered, StepTo, H3Steps
<1> QED
  <2>1. CASE Delivered("delivery") /\ files' = [files EXCEPT !["delivery"] = <<"converted">> \o files["partial"]]
    <3>1. "delivery" \in {"delivery", "native"} /\ "converted" \in Words
      BY DEF Words
    <3> QED
      BY <1>4, <2>1, <3>1, Zenon
  <2>2. CASE Delivered("native") /\ files' = [files EXCEPT !["native"] = <<"tagged">> \o files["partial"]]
    <3>1. "native" \in {"delivery", "native"} /\ "tagged" \in Words
      BY DEF Words
    <3> QED
      BY <1>4, <2>2, <3>1, Zenon
  <2>3. \/ (ColorCancelled \/ Uncaught) /\ UNCHANGED <<delivery, main>>
        \/ StepTo("drift") /\ UNCHANGED <<files, delivery, main>>
        \/ Delivered("delivery") /\ files' = [files EXCEPT !["delivery"] = <<"converted">> \o files["partial"]]
        \/ Delivered("native") /\ files' = [files EXCEPT !["native"] = <<"tagged">> \o files["partial"]]
    BY ONLY SelectDelivery, Zenon DEF SelectDelivery
  <2> QED
    BY <1>2, <1>3, <2>1, <2>2, <2>3

LEMMA MeasureDriftKeeps ==
  ASSUME FinishInv, MeasureColorDrift
  PROVE  FinishInv'
<1>1. /\ pc = "drift" /\ UNCHANGED <<job, known, delivery, main, runRecord, stop>>
      /\ IsH3 /\ result # "succeeded"
  BY AtH3 DEF MeasureColorDrift, H3Steps
<1>2. CASE ColorCancelled
  BY <1>1, <1>2, H3EndsEarly DEF ColorCancelled, Returned, Ended, FinishInv, FinishType, H3Steps, Unpromoted
<1>3. CASE StepTo("correct") /\ UNCHANGED files
  <2>1. FinishType'
    BY <1>1, <1>3 DEF StepTo, FinishInv, FinishType, IsH3, H3Steps, DrawSteps
  <2>2. H3Inv'
    BY <1>1, <1>3 DEF StepTo, FinishInv, H3Inv, IsH3, KeepsRaw, Kept, Exists, Unpromoted, RawKept, RawPromoted, Delivering, Output, H3Steps
  <2> QED
    BY <1>1, <1>3, <2>1, <2>2, H3GoesOn DEF StepTo, H3Steps
<1> QED
  BY <1>2, <1>3 DEF MeasureColorDrift

LEMMA ApplyCorrectionKeeps ==
  ASSUME FinishInv, ApplyOptionalCorrection
  PROVE  FinishInv'
<1>1. /\ pc = "correct" /\ UNCHANGED <<job, known, delivery, runRecord, stop>>
      /\ IsH3 /\ result # "succeeded" /\ delivery \in {"partial", "delivery", "native"} /\ files[delivery] # Nothing
  BY AtH3 DEF ApplyOptionalCorrection, H3Steps, FinishInv, FinishType, H3Inv, Delivering, Exists
<1>2. CASE (ColorCancelled \/ Uncaught) /\ UNCHANGED main
  BY <1>1, <1>2, H3EndsEarly DEF ColorCancelled, Returned, Uncaught, Ended, FinishInv, FinishType, H3Steps, Unpromoted
<1>3. CASE StepTo("extract") /\ UNCHANGED <<files, main>>
  <2>1. FinishType'
    BY <1>1, <1>3 DEF StepTo, FinishInv, FinishType, IsH3, H3Steps, DrawSteps
  <2>2. H3Inv'
    BY <1>1, <1>3 DEF StepTo, FinishInv, H3Inv, IsH3, KeepsRaw, Kept, Exists, Unpromoted, RawKept, RawPromoted, Delivering, Output, H3Steps
  <2> QED
    BY <1>1, <1>3, <2>1, <2>2, H3GoesOn DEF StepTo, H3Steps
<1>4. CASE files' = [files EXCEPT !["corrected"] = <<"corrected">> \o files[delivery]] /\ main' = "corrected" /\ StepTo("extract")
  <2>1. <<"corrected">> \o files[delivery] \in Contents
    <3>1. files[delivery] \in Contents /\ "corrected" \in Words
      BY <1>1, FilesTyped DEF FinishInv, Paths, Staged, Words
    <3> QED
      BY <3>1, Made, Zenon
  <2>2. /\ files' \in [Paths -> Contents] /\ files'["corrected"] = <<"corrected">> \o files[delivery]
        /\ \A p \in Paths \ {"corrected"} : files'[p] = files[p]
    BY <1>4, <2>1 DEF FinishInv, FinishType, Paths, Staged
  <2>3. FinishType'
    BY <1>1, <1>4, <2>2 DEF StepTo, FinishInv, FinishType, IsH3, H3Steps, DrawSteps
  <2>4. files'[delivery] = files[delivery] /\ \A p \in Promoted \cup {"partial", "raw", "handoff"} : files'[p] = files[p]
    BY <1>1, <2>2 DEF Paths, Staged, Promoted
  <2>5. H3Inv'
    BY <1>1, <1>4, <2>2, <2>4 DEF StepTo, FinishInv, H3Inv, IsH3, KeepsRaw, Kept, Exists, Unpromoted, RawKept, RawPromoted, Delivering, Output, H3Steps, Promoted
  <2> QED
    BY <1>1, <1>4, <2>3, <2>5, H3GoesOn DEF StepTo, H3Steps
<1> QED
  <2>1. \/ (ColorCancelled \/ Uncaught) /\ UNCHANGED main
        \/ StepTo("extract") /\ UNCHANGED <<files, main>>
        \/ files' = [files EXCEPT !["corrected"] = <<"corrected">> \o files[delivery]] /\ main' = "corrected" /\ StepTo("extract")
    BY ONLY ApplyOptionalCorrection, Zenon DEF ApplyOptionalCorrection
  <2> QED
    BY <1>2, <1>3, <1>4, <2>1

LEMMA ExtractHandoffKeeps ==
  ASSUME FinishInv, ExtractHandoff
  PROVE  FinishInv'
<1>1. /\ pc = "extract" /\ UNCHANGED <<job, known, delivery, main, runRecord, stop>> /\ StepTo("check_stop")
      /\ IsH3 /\ result # "succeeded" /\ main \in {"partial", "delivery", "native", "corrected"}
      /\ delivery \in {"partial", "delivery", "native"}
  BY AtH3 DEF ExtractHandoff, H3Steps, FinishInv, FinishType
<1>2. <<"frame">> \o files[main] \in Contents
  <2>1. files[main] \in Contents /\ "frame" \in Words
    BY <1>1, FilesTyped DEF FinishInv, Paths, Staged, Words
  <2> QED
    BY <2>1, Made, Zenon
<1>3. /\ files' \in [Paths -> Contents]
      /\ files'["handoff"] \in {Nothing, <<"frame">> \o files[main]}
      /\ \A p \in Paths \ {"handoff"} : files'[p] = files[p]
  <2>1. files["handoff"] = Nothing /\ files \in [Paths -> Contents]
    BY <1>1 DEF FinishInv, FinishType, H3Inv, Exists, H3Steps, Output
  <2> QED
    BY <1>2, <2>1 DEF ExtractHandoff, Paths, Staged
<1>4. FinishType'
  BY <1>1, <1>3 DEF StepTo, FinishInv, FinishType, IsH3, H3Steps, DrawSteps
<1>5. \A p \in Promoted \cup {"partial", "raw", "delivery", "native", "corrected"} : files'[p] = files[p]
  BY <1>3 DEF Paths, Staged, Promoted
<1>6. H3Inv'
  BY <1>1, <1>3, <1>5 DEF StepTo, FinishInv, H3Inv, IsH3, KeepsRaw, Kept, Exists, Unpromoted, RawKept, RawPromoted, Delivering, Output, H3Steps, Promoted
<1> QED
  BY <1>1, <1>4, <1>6, H3GoesOn DEF StepTo, H3Steps

LEMMA CheckStopKeeps ==
  ASSUME FinishInv, CheckStop
  PROVE  FinishInv'
<1>1. /\ pc = "check_stop" /\ UNCHANGED <<job, known, delivery, main, runRecord, stop>>
      /\ IsH3 /\ result # "succeeded"
  BY AtH3 DEF CheckStop, H3Steps
<1>2. CASE Returned("interrupted")
  BY <1>1, <1>2, H3EndsEarly DEF Returned, Ended, FinishInv, FinishType, H3Steps, Unpromoted
<1>3. CASE StepTo("promote_raw") /\ UNCHANGED files
  <2>1. FinishType'
    BY <1>1, <1>3 DEF StepTo, FinishInv, FinishType, IsH3, H3Steps, DrawSteps
  <2>2. H3Inv'
    BY <1>1, <1>3 DEF StepTo, FinishInv, H3Inv, IsH3, KeepsRaw, Kept, Exists, Unpromoted, RawKept, RawPromoted, Delivering, Output, H3Steps
  <2> QED
    BY <1>1, <1>3, <2>1, <2>2, H3GoesOn DEF StepTo, H3Steps
<1> QED
  BY <1>2, <1>3 DEF CheckStop

LEMMA Replaced ==
  ASSUME FinishType, NEW source \in Paths, NEW target \in Paths, source # target, NEW step, Replace(source, target, step)
  PROVE  /\ files' \in [Paths -> Contents]
         /\ files'[target] = files[source] /\ files'[source] = Nothing
         /\ \A p \in Paths \ {source, target} : files'[p] = files[p]
         /\ StepTo(step)
BY Made, FilesTyped DEF FinishType, Replace

LEMMA PromoteRawKeeps ==
  ASSUME FinishInv, PromoteRaw
  PROVE  FinishInv'
<1>1. /\ pc = "promote_raw" /\ UNCHANGED <<job, known, delivery, main, stop>>
      /\ IsH3 /\ result # "succeeded" /\ main \in {"partial", "delivery", "native", "corrected"}
      /\ delivery \in {"partial", "delivery", "native"} /\ runRecord \in [Fields -> BOOLEAN]
      /\ \A f \in Fields : ~runRecord[f]
      /\ files["raw_output"] = Nothing
  BY AtH3 DEF PromoteRaw, H3Steps, FinishInv, FinishType, H3Inv, Unpromoted, Fields, Exists, Promoted
<1>2. CASE Caught /\ UNCHANGED runRecord
  BY <1>1, <1>2, H3EndsEarly DEF Caught, Ended, FinishInv, FinishType, H3Steps
<1>3. CASE ~KeepsRaw /\ StepTo("promote_delivery") /\ UNCHANGED <<files, runRecord>>
  <2>1. FinishType'
    BY <1>1, <1>3 DEF StepTo, FinishInv, FinishType, IsH3, H3Steps, DrawSteps
  <2>2. H3Inv'
    BY <1>1, <1>3 DEF StepTo, FinishInv, H3Inv, IsH3, KeepsRaw, Kept, Exists, Unpromoted, RawKept, RawPromoted, Delivering, Output, H3Steps, Promoted, Fields
  <2> QED
    BY <1>1, <1>3, <2>1, <2>2, H3GoesOn DEF StepTo, H3Steps
<1>4. CASE KeepsRaw /\ Replace("raw", "raw_output", "promote_delivery") /\ runRecord' = [runRecord EXCEPT !["raw_output"] = TRUE]
  <2>1. "raw" \in Paths /\ "raw_output" \in Paths /\ "raw" # "raw_output"
    BY DEF Paths, Staged, Promoted
  <2>2. /\ files' \in [Paths -> Contents] /\ files'["raw_output"] = files["raw"]
        /\ \A p \in Paths \ {"raw", "raw_output"} : files'[p] = files[p]
        /\ StepTo("promote_delivery")
    BY <1>4, <2>1, Replaced DEF FinishInv
  <2>3. /\ runRecord' \in [Fields -> BOOLEAN] /\ runRecord'["raw_output"]
        /\ \A f \in Fields \ {"raw_output"} : ~runRecord'[f]
    BY <1>1, <1>4 DEF Fields
  <2>4. FinishType'
    BY <1>1, <2>2, <2>3 DEF StepTo, FinishInv, FinishType, IsH3, H3Steps, DrawSteps
  <2>5. \A p \in (Promoted \ {"raw_output"}) \cup {"partial", "delivery", "native", "corrected", "handoff"} : files'[p] = files[p]
    BY <2>2 DEF Paths, Staged, Promoted
  <2>6. H3Inv'
    <3>1. /\ files["raw"] = <<"child">> /\ files["partial"] = <<"child">> /\ files[delivery] # Nothing
          /\ \A p \in Promoted : files[p] = Nothing
          /\ main = "corrected" => files["corrected"] = <<"corrected">> \o files[delivery]
          /\ files["handoff"] # Nothing => files["handoff"] = <<"frame">> \o files[main]
      BY <1>1, <1>4 DEF FinishInv, Exists, H3Inv, Unpromoted, RawKept, RawPromoted, Delivering, Output, H3Steps
    <3>2. pc' = "promote_delivery" /\ IsH3' /\ Kept' = <<"child">> /\ KeepsRaw'
      BY <1>1, <1>4, <2>2 DEF StepTo, IsH3, Kept, KeepsRaw
    <3>3. /\ files'["raw_output"] = <<"child">> /\ files'["partial"] = <<"child">> /\ files'[delivery] # Nothing
          /\ files'["uncorrected_output"] = Nothing /\ files'["output"] = Nothing /\ files'["last_frame"] = Nothing
          /\ main = "corrected" => files'["corrected"] = <<"corrected">> \o files'[delivery]
          /\ files'["handoff"] # Nothing => files'["handoff"] = <<"frame">> \o files'[main]
      BY <1>1, <2>2, <2>5, <3>1 DEF Promoted
    <3> QED
      BY <1>1, <2>3, <3>2, <3>3 DEF Exists, Fields, H3Inv, Unpromoted, RawKept, RawPromoted, Delivering, Output, H3Steps
  <2> QED
    BY <1>1, <2>2, <2>4, <2>6, H3GoesOn DEF StepTo, H3Steps
<1> QED
  BY <1>2, <1>3, <1>4 DEF PromoteRaw

LEMMA PromoteDeliveryKeeps ==
  ASSUME FinishInv, PromoteDelivery
  PROVE  FinishInv'
<1>1. /\ pc = "promote_delivery" /\ UNCHANGED <<job, known, delivery, main, stop>>
      /\ IsH3 /\ result # "succeeded" /\ main \in {delivery, "corrected"}
      /\ delivery \in {"partial", "delivery", "native"} /\ runRecord \in [Fields -> BOOLEAN]
      /\ files[delivery] # Nothing /\ files["uncorrected_output"] = Nothing
      /\ ~runRecord["uncorrected_output"] /\ ~runRecord["corrected_output"]
  BY AtH3 DEF PromoteDelivery, H3Steps, FinishInv, FinishType, H3Inv, Delivering, Exists
<1>2. CASE Caught /\ UNCHANGED runRecord
  BY <1>1, <1>2, H3EndsEarly DEF Caught, Ended, FinishInv, FinishType, H3Steps
<1>3. CASE main # "corrected" /\ StepTo("promote_main") /\ UNCHANGED <<files, runRecord>>
  <2>1. FinishType'
    BY <1>1, <1>3 DEF StepTo, FinishInv, FinishType, IsH3, H3Steps, DrawSteps
  <2>2. H3Inv'
    <3>1. main = delivery /\ pc' = "promote_main" /\ IsH3' /\ Kept' = Kept /\ (KeepsRaw' <=> KeepsRaw)
      BY <1>1, <1>3 DEF StepTo, IsH3, Kept, KeepsRaw
    <3>2. /\ files["raw_output"] = Kept /\ (runRecord["raw_output"] <=> KeepsRaw)
          /\ files["output"] = Nothing /\ files["last_frame"] = Nothing /\ ~runRecord["last_frame"]
          /\ files["handoff"] # Nothing => files["handoff"] = <<"frame">> \o files[main]
      BY <1>1 DEF FinishInv, Exists, H3Inv, Unpromoted, RawKept, RawPromoted, Delivering, Output, H3Steps
    <3> QED
      BY <1>1, <1>3, <3>1, <3>2 DEF Exists, H3Inv, Unpromoted, RawKept, RawPromoted, Delivering, Output, H3Steps
  <2> QED
    BY <1>1, <1>3, <2>1, <2>2, H3GoesOn DEF StepTo, H3Steps
<1>4. CASE /\ main = "corrected" /\ Replace(delivery, "uncorrected_output", "promote_main")
           /\ runRecord' = [runRecord EXCEPT !["uncorrected_output"] = TRUE, !["corrected_output"] = TRUE]
  <2>1. delivery \in Paths /\ "uncorrected_output" \in Paths /\ delivery # "uncorrected_output"
    BY <1>1 DEF Paths, Staged, Promoted
  <2>2. /\ files' \in [Paths -> Contents] /\ files'["uncorrected_output"] = files[delivery]
        /\ \A p \in Paths \ {delivery, "uncorrected_output"} : files'[p] = files[p]
        /\ StepTo("promote_main")
    BY <1>4, <2>1, Replaced DEF FinishInv
  <2>3. /\ runRecord' \in [Fields -> BOOLEAN] /\ runRecord'["uncorrected_output"] /\ runRecord'["corrected_output"]
        /\ \A f \in {"raw_output", "last_frame"} : runRecord'[f] = runRecord[f]
    BY <1>1, <1>4 DEF Fields
  <2>4. FinishType'
    BY <1>1, <2>2, <2>3 DEF StepTo, FinishInv, FinishType, IsH3, H3Steps, DrawSteps
  <2>5. \A p \in (Promoted \ {"uncorrected_output"}) \cup {"corrected", "handoff"} : files'[p] = files[p]
    BY <1>1, <2>2 DEF Paths, Staged, Promoted
  <2>6. H3Inv'
    BY <1>1, <1>4, <2>2, <2>3, <2>5 DEF StepTo, FinishInv, H3Inv, IsH3, KeepsRaw, Kept, Exists, Unpromoted, RawKept, RawPromoted, Delivering, Output, H3Steps, Promoted, Fields
  <2> QED
    BY <1>1, <2>2, <2>4, <2>6, H3GoesOn DEF StepTo, H3Steps
<1> QED
  BY <1>2, <1>3, <1>4 DEF PromoteDelivery

LEMMA PromoteMainKeeps ==
  ASSUME FinishInv, PromoteMain
  PROVE  FinishInv'
<1>1. /\ pc = "promote_main" /\ UNCHANGED <<job, known, delivery, main, runRecord, stop>>
      /\ IsH3 /\ result # "succeeded" /\ main \in {"partial", "delivery", "native", "corrected"}
      /\ delivery \in {"partial", "delivery", "native"}
  BY AtH3 DEF PromoteMain, H3Steps, FinishInv, FinishType
<1>2. CASE Caught
  BY <1>1, <1>2, H3EndsEarly DEF Caught, Ended, FinishInv, FinishType, H3Steps
<1>3. CASE Replace(main, "output", "promote_handoff")
  <2>1. main \in Paths /\ "output" \in Paths /\ main # "output"
    BY <1>1 DEF Paths, Staged, Promoted
  <2>2. /\ files' \in [Paths -> Contents] /\ files'["output"] = files[main]
        /\ \A p \in Paths \ {main, "output"} : files'[p] = files[p]
        /\ StepTo("promote_handoff")
    BY <1>3, <2>1, Replaced DEF FinishInv
  <2>3. FinishType'
    BY <1>1, <2>2 DEF StepTo, FinishInv, FinishType, IsH3, H3Steps, DrawSteps
  <2>4. \A p \in (Promoted \ {"output"}) \cup {"handoff"} : files'[p] = files[p]
    BY <1>1, <2>2 DEF Paths, Staged, Promoted
  <2>5. files[main] # Nothing
    <3>1. CASE main = "corrected"
      <4>1. files["corrected"] = <<"corrected">> \o files["uncorrected_output"]
        BY <1>1, <3>1 DEF FinishInv, H3Inv
      <4>2. files["uncorrected_output"] \in Contents /\ "corrected" \in Words
        BY FilesTyped DEF FinishInv, Paths, Promoted, Words
      <4>3. <<"corrected">> \o files["uncorrected_output"] # Nothing
        BY <4>2, Made, Zenon
      <4> QED
        BY <3>1, <4>1, <4>3
    <3> QED
      BY <1>1, <3>1 DEF FinishInv, H3Inv, Exists
  <2>6. H3Inv'
    <3>1. pc' = "promote_handoff" /\ IsH3' /\ Kept' = Kept /\ (KeepsRaw' <=> KeepsRaw)
      BY <1>1, <2>2 DEF StepTo, IsH3, Kept, KeepsRaw
    <3>2. /\ files["raw_output"] = Kept /\ (runRecord["raw_output"] <=> KeepsRaw)
          /\ files["last_frame"] = Nothing /\ ~runRecord["last_frame"]
          /\ files["handoff"] # Nothing => files["handoff"] = <<"frame">> \o files[main]
          /\ (runRecord["uncorrected_output"] <=> main = "corrected") /\ (runRecord["corrected_output"] <=> main = "corrected")
          /\ (files["uncorrected_output"] # Nothing <=> main = "corrected")
          /\ main = "corrected" => files["corrected"] = <<"corrected">> \o files["uncorrected_output"]
      BY <1>1 DEF FinishInv, Exists, H3Inv, Unpromoted, RawKept, RawPromoted, Delivering, Output, H3Steps
    <3>3. /\ files'["raw_output"] = files["raw_output"] /\ files'["last_frame"] = files["last_frame"]
          /\ files'["uncorrected_output"] = files["uncorrected_output"] /\ files'["handoff"] = files["handoff"]
      BY <2>4 DEF Promoted
    <3> QED
      BY <1>1, <2>2, <2>5, <3>1, <3>2, <3>3 DEF Exists, H3Inv, Unpromoted, RawKept, RawPromoted, Delivering, Output, H3Steps
  <2> QED
    BY <1>1, <2>2, <2>3, <2>6, H3GoesOn DEF StepTo, H3Steps
<1> QED
  BY <1>2, <1>3 DEF PromoteMain

LEMMA PromoteHandoffKeeps ==
  ASSUME FinishInv, PromoteHandoff
  PROVE  FinishInv'
<1>1. /\ pc = "promote_handoff" /\ UNCHANGED <<job, known, delivery, main, stop>>
      /\ IsH3 /\ result # "succeeded" /\ runRecord \in [Fields -> BOOLEAN]
      /\ files["last_frame"] = Nothing /\ ~runRecord["last_frame"]
  BY AtH3 DEF PromoteHandoff, H3Steps, FinishInv, FinishType, H3Inv, Exists
<1>2. CASE Exists("handoff") /\ Replace("handoff", "last_frame", "record") /\ runRecord' = [runRecord EXCEPT !["last_frame"] = TRUE]
  <2>1. "handoff" \in Paths /\ "last_frame" \in Paths /\ "handoff" # "last_frame"
    BY DEF Paths, Staged, Promoted
  <2>2. /\ files' \in [Paths -> Contents] /\ files'["last_frame"] = files["handoff"]
        /\ \A p \in Paths \ {"handoff", "last_frame"} : files'[p] = files[p]
        /\ StepTo("record")
    BY <1>2, <2>1, Replaced DEF FinishInv
  <2>3. /\ runRecord' \in [Fields -> BOOLEAN] /\ runRecord'["last_frame"]
        /\ \A f \in Fields \ {"last_frame"} : runRecord'[f] = runRecord[f]
    BY <1>1, <1>2 DEF Fields
  <2>4. FinishType'
    BY <1>1, <2>2, <2>3 DEF StepTo, FinishInv, FinishType, IsH3, H3Steps, DrawSteps
  <2>5. \A p \in Promoted \ {"last_frame"} : files'[p] = files[p]
    BY <2>2 DEF Paths, Staged, Promoted
  <2>6. H3Inv'
    BY <1>1, <1>2, <2>2, <2>3, <2>5 DEF StepTo, FinishInv, H3Inv, IsH3, KeepsRaw, Kept, Exists, Unpromoted, RawKept, RawPromoted, Delivering, Output, H3Steps, Promoted, Fields
  <2> QED
    BY <1>1, <2>2, <2>4, <2>6, H3GoesOn DEF StepTo, H3Steps
<1>3. CASE StepTo("record") /\ files' = Cleared({"handoff"}) /\ UNCHANGED runRecord
  <2>1. files' \in [Paths -> Contents] /\ \A p \in Paths \ {"handoff"} : files'[p] = files[p]
    BY <1>3, Made, FilesTyped DEF Cleared, FinishInv
  <2>2. FinishType'
    BY <1>1, <1>3, <2>1 DEF StepTo, FinishInv, FinishType, IsH3, H3Steps, DrawSteps
  <2>3. \A p \in Promoted : files'[p] = files[p]
    BY <2>1 DEF Paths, Staged, Promoted
  <2>4. H3Inv'
    <3>1. pc' = "record" /\ IsH3' /\ Kept' = Kept /\ (KeepsRaw' <=> KeepsRaw)
      BY <1>1, <1>3 DEF StepTo, IsH3, Kept, KeepsRaw
    <3>2. /\ files["raw_output"] = Kept /\ (runRecord["raw_output"] <=> KeepsRaw)
          /\ files["output"] # Nothing /\ (runRecord["uncorrected_output"] <=> runRecord["corrected_output"])
          /\ (files["uncorrected_output"] # Nothing <=> runRecord["uncorrected_output"])
          /\ runRecord["corrected_output"] => files["output"] = <<"corrected">> \o files["uncorrected_output"]
      BY <1>1 DEF FinishInv, Exists, H3Inv, Unpromoted, RawKept, RawPromoted, Delivering, Output, H3Steps
    <3>3. /\ files'["raw_output"] = files["raw_output"] /\ files'["last_frame"] = files["last_frame"]
          /\ files'["uncorrected_output"] = files["uncorrected_output"] /\ files'["output"] = files["output"]
      BY <2>3 DEF Promoted
    <3> QED
      BY <1>1, <1>3, <3>1, <3>2, <3>3 DEF Exists, H3Inv, Unpromoted, RawKept, RawPromoted, Delivering, Output, H3Steps
  <2> QED
    BY <1>1, <1>3, <2>2, <2>4, H3GoesOn DEF StepTo, H3Steps
<1> QED
  BY <1>2, <1>3 DEF PromoteHandoff

\* The run that succeeds: what it recorded is what it promoted.
LEMMA RecordKeeps ==
  ASSUME FinishInv, RecordAndReport
  PROVE  FinishInv'
<1>1. /\ pc = "record" /\ pc' = "done" /\ result' = "succeeded" /\ files' = cleanup_staged
      /\ UNCHANGED <<job, known, delivery, main, runRecord, stop>> /\ IsH3 /\ IsH3'
  BY AtH3 DEF RecordAndReport, Returned, Ended, H3Steps, IsH3
<1>2. /\ files' \in [Paths -> Contents]
      /\ \A p \in Staged : files'[p] = Nothing
      /\ \A p \in Promoted : files'[p] = files[p]
  BY <1>1, Made, FilesTyped DEF cleanup_staged, Cleared, FinishInv, Paths, Staged, Promoted
<1>3. FinishType'
  BY <1>1, <1>2 DEF FinishInv, FinishType, DrawSteps
<1>4. H3Inv' /\ DrawInv'
  BY <1>1 DEF H3Inv, DrawInv, Unpromoted, RawKept, RawPromoted, Delivering, Output, H3Steps
<1>5. NothingHalfDone'
  BY <1>1, <1>2 DEF NothingHalfDone, Exists
<1>6. /\ files["raw_output"] = Kept /\ (runRecord["raw_output"] <=> KeepsRaw)
      /\ Exists("output") /\ (runRecord["uncorrected_output"] <=> runRecord["corrected_output"])
      /\ (Exists("uncorrected_output") <=> runRecord["uncorrected_output"])
      /\ runRecord["corrected_output"] => files["output"] = <<"corrected">> \o files["uncorrected_output"]
      /\ (runRecord["last_frame"] <=> Exists("last_frame"))
      /\ Exists("last_frame") => files["last_frame"] = <<"frame">> \o files["output"]
  BY <1>1 DEF FinishInv, H3Inv, RawPromoted, Output
<1>7. "child" \in Words /\ <<"child">> # Nothing
  BY Made DEF Words
<1>8. SuccessIsWhole'
  <2>1. /\ runRecord' = runRecord /\ \A f \in Fields : runRecord[f] \in BOOLEAN
        /\ \A p \in Promoted : files'[p] = files[p]
    BY <1>1, <1>2 DEF FinishInv, FinishType
  <2>2. /\ runRecord["last_frame"] = (files["last_frame"] # Nothing)
        /\ runRecord["raw_output"] = (files["raw_output"] # Nothing)
        /\ runRecord["uncorrected_output"] = (files["uncorrected_output"] # Nothing)
    BY <1>6, <1>7, <2>1 DEF Exists, Kept, Fields
  <2>3. runRecord["raw_output"] = KeepsRaw
    BY <1>6, <2>1 DEF Fields, KeepsRaw
  <2>4. (files["raw_output"] # Nothing) => files["raw_output"] = <<"child">>
    BY <1>6 DEF Kept
  <2>5. KeepsRaw' = KeepsRaw
    BY <1>1 DEF KeepsRaw
  <2> QED
    BY <1>1, <1>6, <2>1, <2>2, <2>3, <2>4, <2>5 DEF SuccessIsWhole, Exists, Promoted
<1> QED
  BY <1>3, <1>4, <1>5, <1>8 DEF FinishInv, OutputsWhole

------------------------------------------------------------------------------
(* The child's end, the stop, and Draw Things' finishing.                      *)

LEMMA StopKeeps ==
  ASSUME FinishInv, RequestStop
  PROVE  FinishInv'
<1>1. UNCHANGED <<job, pc, files, known, delivery, main, runRecord, result>> /\ stop' = TRUE
  BY DEF RequestStop
<1>2. FinishType'
  BY <1>1 DEF FinishInv, FinishType, IsH3
<1>3. H3Inv'
  BY <1>1 DEF FinishInv, H3Inv, IsH3, Exists, Kept, KeepsRaw
<1>4. DrawInv'
  BY <1>1 DEF FinishInv, DrawInv, IsH3, Exists, Handed
<1>5. OutputsWhole'
  BY <1>1 DEF FinishInv, OutputsWhole, SuccessIsWhole, NothingHalfDone, IsH3, Exists, KeepsRaw
<1> QED
  BY <1>2, <1>3, <1>4, <1>5 DEF FinishInv

LEMMA ChildEndsKeeps ==
  ASSUME FinishInv, ChildEnds
  PROVE  FinishInv'
<1> USE DEF FinishInv
<1>1. PICK end \in {"timed_out", "failed", "exit_0", "interrupted"}, wrote \in BOOLEAN :
        /\ files' = [files EXCEPT ![child_output] = IF wrote THEN <<"child">> ELSE Nothing]
        /\ \/ pc' = "ended" /\ result' \in {end, "failed"} /\ result' # "exit_0"
           \/ wrote /\ StepTo(IF IsH3 THEN "verify" ELSE "tag")
  BY DEF ChildEnds
<1>2. /\ pc = "child" /\ UNCHANGED <<job, known, delivery, main, runRecord, stop>> /\ result # "succeeded"
      /\ (IsH3' <=> IsH3)
  BY DEF ChildEnds, FinishType, IsH3
<1>3. /\ child_output \in Paths /\ child_output = (IF IsH3 THEN "partial" ELSE "output")
      /\ "child" \in Words
  BY DEF child_output, Paths, Staged, Promoted, Words
<1>4. <<"child">> \in Contents /\ <<"child">> # Nothing /\ Nothing \in Contents
  BY <1>3, Made, Zenon
<1>5. /\ files' \in [Paths -> Contents] /\ \A p \in Paths \ {child_output} : files'[p] = files[p]
      /\ wrote => files'[child_output] = <<"child">>
  BY <1>1, <1>3, <1>4 DEF FinishType
<1>6. result' # "succeeded"
  BY <1>1, <1>2 DEF StepTo
<1>7. CASE pc' = "ended"
  <2>1. FinishType'
    BY <1>2, <1>5, <1>6, <1>7 DEF FinishType, H3Steps, DrawSteps
  <2>2. H3Inv' /\ OutputsWhole'
    BY <1>6, <1>7 DEF H3Inv, OutputsWhole, SuccessIsWhole, NothingHalfDone, Unpromoted, RawKept, RawPromoted, Delivering, Output, H3Steps
  <2>3. DrawInv'
    BY <1>2, <1>3, <1>5, <1>7 DEF DrawInv, DrawSteps, Exists, Paths, Staged, Promoted
  <2> QED
    BY <2>1, <2>2, <2>3
<1>8. CASE wrote /\ IsH3 /\ StepTo("verify")
  <2>1. FinishType'
    BY <1>2, <1>5, <1>6, <1>8 DEF FinishType, StepTo, H3Steps, DrawSteps
  <2>2. delivery = "partial" /\ main = "partial" /\ ~Exists("handoff")
    BY <1>2, <1>8 DEF H3Inv
  <2>3. /\ files'["partial"] = <<"child">> /\ files'["handoff"] = Nothing
        /\ \A p \in Promoted : files'[p] = Nothing
    BY <1>2, <1>3, <1>5, <1>8, <2>2 DEF H3Inv, Unpromoted, Exists, Paths, Staged, Promoted
  <2>4. H3Inv'
    BY <1>2, <1>4, <1>8, <2>2, <2>3 DEF H3Inv, StepTo, Exists, Unpromoted, RawKept, RawPromoted, Delivering, Output, H3Steps, Fields, Promoted
  <2>5. DrawInv' /\ OutputsWhole'
    BY <1>2, <1>6, <1>8 DEF DrawInv, OutputsWhole, SuccessIsWhole, NothingHalfDone, StepTo
  <2> QED
    BY <2>1, <2>4, <2>5
<1>9. CASE wrote /\ ~IsH3 /\ StepTo("tag")
  <2>1. FinishType'
    BY <1>2, <1>5, <1>6, <1>9 DEF FinishType, StepTo, H3Steps, DrawSteps
  <2>2. DrawInv'
    BY <1>2, <1>3, <1>4, <1>5, <1>9 DEF DrawInv, StepTo, DrawSteps, Exists, Paths, Staged, Promoted
  <2>3. H3Inv' /\ OutputsWhole'
    BY <1>2, <1>6, <1>9 DEF H3Inv, OutputsWhole, SuccessIsWhole, NothingHalfDone
  <2> QED
    BY <2>1, <2>2, <2>3
<1> QED
  BY <1>1, <1>7, <1>8, <1>9

LEMMA AtDraw ==
  ASSUME FinishInv, pc \in DrawSteps
  PROVE  ~IsH3 /\ result # "succeeded"
BY DEF FinishInv, FinishType, DrawSteps

\* A step of Draw Things' finishing: only its type, its part of the invariant and a success are left to show.
LEMMA DrawMoves ==
  ASSUME FinishInv, ~IsH3, UNCHANGED job, FinishType', DrawInv', result' = "succeeded" => SuccessIsWhole'
  PROVE  FinishInv'
<1>1. ~IsH3'
  BY DEF IsH3
<1> QED
  BY <1>1 DEF FinishInv, H3Inv, OutputsWhole, NothingHalfDone, SuccessIsWhole

LEMMA TagVideoKeeps ==
  ASSUME FinishInv, TagVideo
  PROVE  FinishInv'
<1>1. /\ pc = "tag" /\ UNCHANGED <<job, files, known, delivery, main, runRecord, stop, result>>
      /\ pc' = (IF job.pipeline = "video" THEN "last_frame" ELSE "measure")
      /\ ~IsH3 /\ result # "succeeded" /\ (IsH3' <=> IsH3)
  BY AtDraw DEF TagVideo, StepTo, DrawSteps, IsH3
<1>2. FinishType'
  BY <1>1 DEF FinishInv, FinishType, IsH3, H3Steps, DrawSteps
<1>3. DrawInv'
  BY <1>1 DEF FinishInv, DrawInv, Exists, DrawSteps
<1> QED
  BY <1>1, <1>2, <1>3, DrawMoves

LEMMA ExtractLastFrameKeeps ==
  ASSUME FinishInv, ExtractLastFrame
  PROVE  FinishInv'
<1> USE DEF FinishInv
<1>1. /\ pc = "last_frame" /\ UNCHANGED <<job, known, delivery, main, runRecord, stop>>
      /\ ~IsH3 /\ result # "succeeded" /\ (IsH3' <=> IsH3)
      /\ extracted \in {"raw_last_frame", "last_frame"}
  BY AtDraw DEF ExtractLastFrame, DrawSteps, IsH3, extracted
<1>2. /\ files["copy"] = Nothing /\ files["raw_last_frame"] = Nothing /\ files["last_frame"] = Nothing
      /\ files["output"] # Nothing /\ files["output"] \in Contents /\ job.pipeline = "video"
      /\ files["raw_output"] = Nothing /\ files["uncorrected_output"] = Nothing
      /\ \A f \in Fields : ~runRecord[f]
      /\ files \in [Paths -> Contents]
  BY <1>1, FilesTyped DEF DrawInv, Exists, DrawSteps, FinishType, Paths, Promoted, Fields
<1>3. "frame" \in Words /\ "broken" \in Words
  BY DEF Words
<1>4. /\ <<"frame">> \o files["output"] \in Contents /\ <<"frame">> \o files["output"] # Nothing
      /\ <<"broken">> \in Contents
  BY <1>2, <1>3, Made, Zenon
<1>5. CASE /\ files' = [files EXCEPT ![extracted] = <<"frame">> \o files["output"]]
           /\ StepTo(IF Correcting THEN "color" ELSE "named")
  <2>1. /\ files' \in [Paths -> Contents] /\ files'[extracted] = <<"frame">> \o files["output"]
        /\ \A p \in Paths \ {extracted} : files'[p] = files[p]
    BY <1>1, <1>2, <1>4, <1>5 DEF Paths, Promoted
  <2>2. FinishType'
    BY <1>1, <1>5, <2>1 DEF StepTo, FinishType, H3Steps, DrawSteps
  <2>3. \A p \in {"copy", "output", "raw_output", "uncorrected_output"} : files'[p] = files[p]
    BY <1>1, <2>1 DEF Paths, Promoted
  <2>4. /\ Correcting => files'["last_frame"] = Nothing /\ files'["raw_last_frame"] = <<"frame">> \o files["output"]
        /\ ~Correcting => files'["raw_last_frame"] = Nothing /\ files'["last_frame"] = <<"frame">> \o files["output"]
    BY <1>1, <1>2, <2>1 DEF extracted, Paths, Promoted
  <2>5. DrawInv'
    BY <1>1, <1>2, <1>4, <1>5, <2>3, <2>4 DEF StepTo, DrawInv, Exists, DrawSteps, Handed, Fields
  <2> QED
    BY <1>1, <1>5, <2>2, <2>5, DrawMoves DEF StepTo
<1>6. CASE /\ files' \in {files, [files EXCEPT ![extracted] = <<"broken">>]}
           /\ Ended(IF stop THEN "interrupted" ELSE "failed")
  <2>1. files' \in [Paths -> Contents] /\ \A p \in Paths \ {extracted} : files'[p] = files[p]
    BY <1>2, <1>4, <1>6
  <2>2. FinishType'
    BY <1>1, <1>6, <2>1 DEF Ended, FinishType, H3Steps, DrawSteps
  <2>3. DrawInv'
    BY <1>1, <1>2, <1>6, <2>1 DEF Ended, DrawInv, Exists, DrawSteps, Paths, Promoted, Fields
  <2> QED
    BY <1>1, <1>6, <2>2, <2>3, DrawMoves DEF Ended
<1> QED
  BY <1>5, <1>6 DEF ExtractLastFrame

\* The correction is whole, or the uncorrected frame is the handoff, or the run fails.
LEMMA CorrectKeeps ==
  ASSUME FinishInv, Correct
  PROVE  FinishInv'
<1> USE DEF FinishInv
<1> DEFINE made_copy == <<"corrected">> \o files["output"]
<1>1. /\ pc = "color" /\ UNCHANGED <<job, known, delivery, main, stop>>
      /\ ~IsH3 /\ result # "succeeded" /\ (IsH3' <=> IsH3) /\ job.pipeline = "video"
      /\ files["copy"] = Nothing /\ files["last_frame"] = Nothing
      /\ files["output"] # Nothing /\ files["output"] \in Contents
      /\ files["raw_last_frame"] = <<"frame">> \o files["output"]
      /\ files["raw_output"] = Nothing /\ files["uncorrected_output"] = Nothing
      /\ \A f \in Fields : ~runRecord[f]
      /\ files \in [Paths -> Contents] /\ runRecord \in [Fields -> BOOLEAN]
  BY AtDraw, FilesTyped DEF Correct, DrawInv, Exists, DrawSteps, FinishType, IsH3, Paths, Promoted, Fields
<1>2. "frame" \in Words /\ "corrected" \in Words
  BY DEF Words
<1>3. /\ made_copy \in Contents /\ made_copy # Nothing
      /\ <<"frame">> \o files["output"] \in Contents /\ <<"frame">> \o files["output"] # Nothing
  BY <1>1, <1>2, Made, Zenon
<1>4. <<"frame">> \o made_copy \in Contents /\ <<"frame">> \o made_copy # Nothing
  BY <1>2, <1>3, Made, Zenon
<1> HIDE DEF made_copy
<1>5. CASE /\ files' = [files EXCEPT !["copy"] = made_copy, !["last_frame"] = <<"frame">> \o made_copy]
           /\ runRecord' = [runRecord EXCEPT !["corrected_output"] = TRUE]
           /\ StepTo("named")
  <2>1. /\ files' \in [Paths -> Contents] /\ files'["copy"] = made_copy /\ files'["last_frame"] = <<"frame">> \o made_copy
        /\ \A p \in Paths \ {"copy", "last_frame"} : files'[p] = files[p]
    BY <1>1, <1>3, <1>4, <1>5 DEF Paths, Promoted
  <2>2. /\ runRecord' \in [Fields -> BOOLEAN] /\ runRecord'["corrected_output"]
        /\ \A f \in Fields \ {"corrected_output"} : ~runRecord'[f]
    BY <1>1, <1>5 DEF Fields
  <2>3. FinishType'
    BY <1>1, <1>5, <2>1, <2>2 DEF StepTo, FinishType, H3Steps, DrawSteps
  <2>4. \A p \in {"raw_last_frame", "output", "raw_output", "uncorrected_output"} : files'[p] = files[p]
    BY <2>1 DEF Paths, Promoted
  <2>5. DrawInv'
    BY <1>1, <1>3, <1>4, <1>5, <2>1, <2>2, <2>4 DEF StepTo, DrawInv, Exists, DrawSteps, Handed, Fields
  <2> QED
    BY <1>1, <1>5, <2>3, <2>5, DrawMoves DEF StepTo
<1>6. ASSUME NEW created \in created_paths, UNCHANGED runRecord
      PROVE  LET left == CorrectionLeft(created) IN
             /\ files' = [left EXCEPT !["last_frame"] = left["raw_last_frame"], !["raw_last_frame"] = Nothing] /\ StepTo("named") => FinishInv'
             /\ files' = left /\ Ended("failed") => FinishInv'
  <2> DEFINE left == CorrectionLeft(created)
  <2>1. /\ left \in [Paths -> Contents]
        /\ \A p \in Paths : left[p] = files[p]
    BY <1>1, Made DEF CorrectionLeft, Cleared, created_paths
  <2> HIDE DEF left
  <2>2. ASSUME files' = left, Ended("failed")
        PROVE  FinishInv'
    <3>1. FinishType'
      BY <1>1, <1>6, <2>1, <2>2 DEF Ended, FinishType, H3Steps, DrawSteps
    <3>2. DrawInv'
      BY <1>1, <1>6, <2>1, <2>2 DEF Ended, DrawInv, Exists, DrawSteps, Paths, Promoted, Fields
    <3> QED
      BY <1>1, <2>2, <3>1, <3>2, DrawMoves DEF Ended
  <2>3. ASSUME files' = [left EXCEPT !["last_frame"] = left["raw_last_frame"], !["raw_last_frame"] = Nothing], StepTo("named")
        PROVE  FinishInv'
    <3>1. /\ files' \in [Paths -> Contents] /\ files'["raw_last_frame"] = Nothing
          /\ files'["last_frame"] = <<"frame">> \o files["output"]
          /\ \A p \in {"copy", "output", "raw_output", "uncorrected_output"} : files'[p] = files[p]
      BY <1>1, <1>3, <2>1, <2>3, Made DEF Paths, Promoted
    <3>2. FinishType'
      BY <1>1, <1>6, <2>3, <3>1 DEF StepTo, FinishType, H3Steps, DrawSteps
    <3>3. DrawInv'
      BY <1>1, <1>3, <1>6, <2>3, <3>1 DEF StepTo, DrawInv, Exists, DrawSteps, Handed, Fields
    <3> QED
      BY <1>1, <2>3, <3>2, <3>3, DrawMoves DEF StepTo
  <2> QED
    BY <2>2, <2>3 DEF left
<1> QED
  BY <1>5, <1>6 DEF Correct, made_copy

LEMMA NameLastFrameKeeps ==
  ASSUME FinishInv, NameLastFrame
  PROVE  FinishInv'
<1>1. /\ pc = "named" /\ UNCHANGED <<job, files, known, delivery, main, stop, result>> /\ pc' = "measure"
      /\ runRecord' = [runRecord EXCEPT !["last_frame"] = TRUE] /\ runRecord \in [Fields -> BOOLEAN]
      /\ ~IsH3 /\ result # "succeeded" /\ (IsH3' <=> IsH3)
  BY AtDraw DEF NameLastFrame, StepTo, DrawSteps, IsH3, FinishInv, FinishType
<1>2. /\ runRecord' \in [Fields -> BOOLEAN] /\ runRecord'["last_frame"]
      /\ \A f \in Fields \ {"last_frame"} : runRecord'[f] = runRecord[f]
  BY <1>1 DEF Fields
<1>3. FinishType'
  BY <1>1, <1>2 DEF FinishInv, FinishType, H3Steps, DrawSteps
<1>4. DrawInv'
  BY <1>1, <1>2 DEF FinishInv, DrawInv, Exists, DrawSteps, Handed, Fields
<1> QED
  BY <1>1, <1>3, <1>4, DrawMoves

LEMMA MeasureKeeps ==
  ASSUME FinishInv, Measure
  PROVE  FinishInv'
<1>1. /\ pc = "measure" /\ UNCHANGED <<job, files, known, delivery, main, runRecord, stop>> /\ pc' = "done"
      /\ result' = (IF job.pipeline = "video" /\ ~Exists("last_frame") THEN "failed" ELSE "succeeded")
      /\ ~IsH3 /\ ~IsH3' /\ job.pipeline \in {"image", "video"}
  BY AtDraw DEF Measure, Ended, DrawSteps, IsH3, FinishInv, FinishType, Jobs
<1>2. FinishType'
  BY <1>1 DEF FinishInv, FinishType, H3Steps, DrawSteps
<1>3. DrawInv'
  BY <1>1 DEF FinishInv, DrawInv, Exists, DrawSteps
<1>4. ASSUME result' = "succeeded"
      PROVE  SuccessIsWhole'
  <2>1. /\ \A f \in Fields : runRecord[f] \in BOOLEAN
        /\ files["output"] # Nothing /\ files["raw_output"] = Nothing /\ files["uncorrected_output"] = Nothing
        /\ ~runRecord["raw_output"] /\ ~runRecord["uncorrected_output"]
    BY <1>1 DEF FinishInv, FinishType, DrawInv, Exists, DrawSteps
  <2>2. CASE job.pipeline = "image"
    <3>1. /\ files["copy"] = Nothing /\ files["raw_last_frame"] = Nothing /\ files["last_frame"] = Nothing
          /\ ~runRecord["last_frame"] /\ ~runRecord["corrected_output"]
      BY <1>1, <2>2 DEF FinishInv, DrawInv, Exists
    <3> QED
      BY <1>1, <2>1, <3>1 DEF SuccessIsWhole, Exists, Fields
  <2>3. CASE job.pipeline = "video"
    <3>1. /\ runRecord["last_frame"] /\ files["last_frame"] # Nothing
          /\ (runRecord["corrected_output"] <=> files["copy"] # Nothing) /\ (files["copy"] # Nothing <=> files["raw_last_frame"] # Nothing)
          /\ files["last_frame"] = <<"frame">> \o files[Handed]
      BY <1>1, <1>4, <2>3 DEF FinishInv, DrawInv, Exists
    <3> QED
      BY <1>1, <2>1, <3>1 DEF SuccessIsWhole, Exists, Fields, Handed
  <2> QED
    BY <1>1, <2>2, <2>3
<1> QED
  BY <1>1, <1>2, <1>3, <1>4, DrawMoves

------------------------------------------------------------------------------

LEMMA FinishInitInv == FinishInit => FinishInv
<1> SUFFICES ASSUME FinishInit
             PROVE  FinishInv
  OBVIOUS
<1>1. PICK j \in Jobs : (j.pipeline = "image" => ~j.corrects) /\ FinishStart(j)
  BY DEF FinishInit
<1>2. /\ job = j /\ pc = "child" /\ files \in [Paths -> Contents] /\ \A p \in Paths : files[p] = Nothing
      /\ runRecord = [f \in Fields |-> FALSE] /\ delivery = "partial" /\ main = "partial"
      /\ known = FALSE /\ stop = FALSE /\ result = "none"
  BY <1>1, Made DEF FinishStart, Fields
<1>3. FinishType
  BY <1>1, <1>2 DEF FinishType, H3Steps, DrawSteps
<1>4. H3Inv
  BY <1>2 DEF H3Inv, Exists, Unpromoted, RawKept, RawPromoted, Delivering, Output, H3Steps, Paths, Staged, Promoted, Fields
<1>5. DrawInv
  BY <1>2 DEF DrawInv, Exists, DrawSteps, Paths, Promoted, Fields
<1>6. OutputsWhole
  BY <1>2 DEF OutputsWhole, SuccessIsWhole, NothingHalfDone
<1> QED
  BY <1>3, <1>4, <1>5, <1>6 DEF FinishInv

LEMMA FinishNextInv == FinishInv /\ [FinishNext]_finishVars => FinishInv'
<1>1. FinishInv /\ FinishNext => FinishInv'
  BY StopKeeps, ChildEndsKeeps, VerifyKeeps, InterpretKeeps, CopyRawKeeps, SelectDeliveryKeeps, MeasureDriftKeeps,
     ApplyCorrectionKeeps, ExtractHandoffKeeps, CheckStopKeeps, PromoteRawKeeps, PromoteDeliveryKeeps, PromoteMainKeeps,
     PromoteHandoffKeeps, RecordKeeps, TagVideoKeeps, ExtractLastFrameKeeps, CorrectKeeps, NameLastFrameKeeps, MeasureKeeps
     DEF FinishNext, FinishStep
<1>2. FinishInv /\ UNCHANGED finishVars => FinishInv'
  BY DEF finishVars, FinishInv, FinishType, H3Inv, DrawInv, IsH3, Exists, Kept, KeepsRaw, Handed, OutputsWhole, SuccessIsWhole, NothingHalfDone
<1> QED
  BY <1>1, <1>2

\* The invariant of the finishing: what stands at each path at each step of either backend.
THEOREM FinishInvThm == FinishSpec => []FinishInv
<1> QED
  BY FinishInitInv, FinishNextInv, PTL DEF FinishSpec

\* A run that succeeded has every file it records, and an H3 run that did not
\* leaves nothing that could be taken for one.
THEOREM OutputsWholeThm == FinishSpec => []OutputsWhole
<1>1. FinishInv => OutputsWhole
  BY DEF FinishInv
<1> QED
  BY <1>1, FinishInvThm, PTL

------------------------------------------------------------------------------
(* The color correction of a run.                                             *)

Regions == {"frame", "people", "skin", "background"}
RegionNames == Regions \cup {"none"}
Measurements == [regions : SUBSET Regions, masks : BOOLEAN]
CopyFrames == [frame : Nat, whole : RegionNames, people : RegionNames, skin : RegionNames]
CopyFiles == [frames : Seq(CopyFrames), state : {"free", "foreign", "partial", "closed"}]
BeforePlan == {"input", "anchor", "first_image", "frames", "plan"}
BeforeCopy == BeforePlan \cup {"encoder", "open"}
Copying == {"second", "tag", "handoff", "check"}
Copied == {"tag", "handoff", "check"}

CorrectionType ==
  /\ wish \in [regions : BOOLEAN, held : BOOLEAN]
  /\ vision \in [finder : {"none", "works", "failed"}, had : BOOLEAN]
  /\ images \in [input : SUBSET Regions, anchor : SUBSET Regions]
  /\ firstPass \in Seq(Measurements)
  /\ regionPlan \in [frame : Seq(RegionNames), people : Seq(RegionNames), skin : Seq(RegionNames)]
  /\ begun \in SUBSET {"copy", "handoff"} /\ placed \in SUBSET {"copy", "handoff"}
  /\ made \in [copy : CopyFiles, handoff : CopyFiles]
  /\ doing \in BeforeCopy \cup Copying \cup {"done"}
  /\ outcome \in [succeeded : BOOLEAN, drift : BOOLEAN, why : {"none", "tool", "frames", "missing"}]
  /\ curve \in SUBSET Nat

\* The images were measured, the segmenter worked for as long as frames have masks, and the first pass found frames.
Measured ==
  /\ doing \notin {"input", "done"} => "frame" \in images.input
  /\ doing \notin {"input", "anchor", "done"} /\ wish.held => "frame" \in images.anchor
  /\ vision.had => vision.finder \in {"works", "failed"}
  /\ vision.finder = "works" => \A i \in Clip : firstPass[i].masks
  /\ doing \in {"plan", "encoder", "open"} \cup Copying => firstPass # <<>>

\* The plan has a transform of each kind for every frame or for none, and people apart only where every frame has masks.
Planned ==
  /\ doing \in BeforePlan => regionPlan = NoTransforms
  /\ doing \in {"encoder", "open"} \cup Copying => Len(regionPlan.frame) = Len(firstPass)
  /\ regionPlan.skin # <<>> => Len(regionPlan.skin) = Len(firstPass)
  /\ regionPlan.people # <<>> =>
       /\ Len(regionPlan.people) = Len(firstPass)
       /\ \A i \in Clip : firstPass[i].masks /\ regionPlan.people[i] # "none"

\* What the run began is its own, and what it did not begin is free or someone else's.
Own ==
  doing # "done" =>
    /\ doing \in BeforeCopy => begun = {}
    /\ doing \in {"second", "tag"} => begun = {"copy"}
    /\ doing \in {"handoff", "check"} => begun = {"copy", "handoff"}
    /\ ~outcome.succeeded
    /\ IF doing \in Copying THEN "copy" \notin placed /\ made.copy.state = (IF doing \in Copied THEN "closed" ELSE "partial")
       ELSE made.copy = (IF "copy" \in placed THEN Foreign ELSE Free)
    /\ IF doing = "check" THEN made.handoff.state = "closed" /\ made.handoff.frames = <<Written[Len(Written)]>>
       ELSE made.handoff \in {Free, Foreign}

\* The copy's frames are the clip's, in its order, and the curve has those that are due.
Due(i) == (i - 1) % SampleEvery = 0
Told ==
  /\ Len(Written) <= Len(firstPass)
  /\ \A i \in DOMAIN Written : Written[i] = Applied(i)
  /\ doing \in BeforeCopy => curve = {}
  /\ doing = "second" => curve = {i \in 1 .. Len(Written) : Due(i)}
  /\ doing \in Copied => curve = Sampled /\ Len(Written) = Len(firstPass)

CorrectionInv == CorrectionType /\ Measured /\ Planned /\ Own /\ Told /\ CorrectionWhole

------------------------------------------------------------------------------

LEMMA CopyTyped ==
  /\ Free \in CopyFiles /\ Foreign \in CopyFiles
  /\ Free.frames = <<>> /\ Foreign.frames = <<>> /\ DOMAIN <<>> = {} /\ Len(<<>>) = 0
  /\ Free.state = "free" /\ Foreign.state = "foreign" /\ Free # Foreign
  /\ NoTransforms.frame = <<>> /\ NoTransforms.people = <<>> /\ NoTransforms.skin = <<>>
  /\ NoTransforms \in [frame : Seq(RegionNames), people : Seq(RegionNames), skin : Seq(RegionNames)]
BY EmptySeq DEF Free, Foreign, CopyFiles, NoTransforms

LEMMA ClipDomain ==
  ASSUME CorrectionType
  PROVE  /\ Len(firstPass) \in Nat /\ Clip = 1 .. Len(firstPass)
         /\ Len(Written) \in Nat /\ DOMAIN Written = 1 .. Len(Written) /\ Written \in Seq(CopyFrames)
         /\ made.copy \in CopyFiles /\ made.handoff \in CopyFiles
BY DEF CorrectionType, Clip, Written, CopyFiles

\* People are corrected apart in all of the copy's frames or in none.
LEMMA NoFrameSwitches ==
  ASSUME CorrectionType, Planned, Told
  PROVE  \A i, j \in DOMAIN Written : Written[i].people = "none" <=> Written[j].people = "none"
<1>1. \A i \in DOMAIN Written : i \in Clip /\ Written[i] = Applied(i)
  BY ClipDomain DEF Told
<1>2. \A i \in Clip : Applied(i).people = "none" <=> regionPlan.people = <<>>
  BY DEF Applied, Planned
<1> QED
  BY <1>1, <1>2

LEMMA NoFrameSwitchesNext ==
  ASSUME CorrectionType', Planned', Told'
  PROVE  \A i, j \in DOMAIN Written' : Written'[i].people = "none" <=> Written'[j].people = "none"
<1>1. \A i \in DOMAIN Written' : i \in DOMAIN firstPass' /\ Written'[i] = Applied(i)'
  BY DEF Told, CorrectionType, Written, CopyFiles
<1>2. \A i \in DOMAIN firstPass' : Applied(i)'.people = "none" <=> regionPlan'.people = <<>>
  BY DEF Applied, Planned, Clip
<1> QED
  BY <1>1, <1>2

\* A step that breaks the correction removes what it began.
LEMMA FailKeeps ==
  ASSUME CorrectionInv, NEW why \in {"tool", "frames"}, Fail(why), doing # "done", UNCHANGED <<wish, placed, vision, images, firstPass, regionPlan, curve, begun, late>>
  PROVE  CorrectionInv'
<1> USE DEF CorrectionInv
<1>1. /\ doing' = "done" /\ outcome' = [outcome EXCEPT !.why = why]
      /\ made' = [f \in DOMAIN made |-> IF f \in begun THEN Free ELSE made[f]]
  BY DEF Fail
<1>2. made \in [copy : CopyFiles, handoff : CopyFiles] /\ DOMAIN made = {"copy", "handoff"}
  BY DEF CorrectionType
<1>3. /\ made' \in [copy : CopyFiles, handoff : CopyFiles]
      /\ made'.copy = (IF "copy" \in begun THEN Free ELSE made.copy)
      /\ made'.handoff = (IF "handoff" \in begun THEN Free ELSE made.handoff)
  BY <1>1, <1>2, CopyTyped
<1>4. outcome' \in [succeeded : BOOLEAN, drift : BOOLEAN, why : {"none", "tool", "frames", "missing"}] /\ ~outcome'.succeeded /\ outcome'.why = why
  BY <1>1 DEF CorrectionType, Own
<1>5. CorrectionType'
  BY <1>1, <1>3, <1>4 DEF CorrectionType
<1>6. Measured' /\ Planned' /\ Own'
  BY <1>1 DEF Measured, Planned, Own, Clip, BeforePlan, Copying
<1>7. /\ made'.copy = (IF "copy" \in placed THEN Foreign ELSE Free)
      /\ made'.handoff \in {Free, Foreign}
  BY <1>3 DEF Own, CorrectionType, Copying, Copied, BeforeCopy, BeforePlan
<1>8. Told'
  BY <1>1, <1>5, <1>7, ClipDomain, CopyTyped DEF Told, Written, BeforeCopy, BeforePlan, Copied
<1>9. Written' = <<>> \/ Written' = Written
  BY <1>3, CopyTyped DEF Written
<1>10. \A i, j \in DOMAIN Written' : Written'[i].people = "none" <=> Written'[j].people = "none"
  BY <1>9, CopyTyped, NoFrameSwitches
<1>11. NoSwitch'
  BY <1>4, <1>10 DEF NoSwitch
<1>12. WholeOrNothing'
  BY <1>1, <1>4, <1>7 DEF WholeOrNothing
<1> QED
  BY <1>5, <1>6, <1>8, <1>11, <1>12 DEF CorrectionWhole

\* A step that leaves the files alone and goes on.
LEMMA CopyFollows ==
  ASSUME CorrectionInv, doing \in BeforeCopy, doing' \in BeforeCopy, UNCHANGED <<placed, begun, made, curve>>,
         outcome'.succeeded = outcome.succeeded, outcome'.why = outcome.why,
         CorrectionType', Measured', Planned'
  PROVE  CorrectionInv'
<1> USE DEF CorrectionInv
<1>1. doing # "done" /\ doing' # "done" /\ doing \notin Copying /\ doing' \notin Copying \cup {"check", "second"} /\ doing' \notin Copied
  BY DEF BeforeCopy, BeforePlan, Copying, Copied
<1>2. Own'
  BY <1>1 DEF Own, Copied, Copying
<1>3. Written' = <<>>
  BY <1>1, CopyTyped DEF Own, Written, Copying
<1>4. Told'
  BY <1>1, <1>3, ClipDomain, CopyTyped DEF Told, Copied
<1>5. CorrectionWhole'
  BY <1>1, <1>3, CopyTyped DEF CorrectionWhole, WholeOrNothing, NoSwitch
<1> QED
  BY <1>2, <1>4, <1>5

LEMMA DeadlineKeeps ==
  ASSUME CorrectionInv, Deadline
  PROVE  CorrectionInv'
<1>1. UNCHANGED <<wish, placed, vision, images, firstPass, regionPlan, curve, begun, made, doing, outcome>>
  BY DEF Deadline
<1> QED
  BY <1>1 DEF CorrectionInv, CorrectionType, Measured, Planned, Own, Told, Due, Clip, Written, Applied, Sampled,
              CorrectionWhole, WholeOrNothing, NoSwitch

LEMMA PlaceFileKeeps ==
  ASSUME CorrectionInv, PlaceFile
  PROVE  CorrectionInv'
<1> USE DEF CorrectionInv
<1>1. /\ doing # "done"
      /\ UNCHANGED <<wish, vision, images, firstPass, regionPlan, curve, begun, late, doing, outcome>>
  BY DEF PlaceFile
<1>2. PICK f \in {"copy", "handoff"} : made[f] = Free /\ made' = [made EXCEPT ![f] = Foreign] /\ placed' = placed \cup {f}
  <2>1. DOMAIN made = {"copy", "handoff"}
    BY DEF CorrectionType
  <2> QED
    BY <2>1 DEF PlaceFile
<1>3. /\ made' \in [copy : CopyFiles, handoff : CopyFiles]
      /\ made'[f] = Foreign /\ \A g \in {"copy", "handoff"} \ {f} : made'[g] = made[g]
  BY <1>2, CopyTyped DEF CorrectionType
<1>4. CorrectionType'
  BY <1>1, <1>2, <1>3 DEF CorrectionType
<1>5. Measured' /\ Planned'
  BY <1>1 DEF Measured, Planned, Clip
<1>6. f = "copy" => doing \notin Copying
  BY <1>1, <1>2, CopyTyped DEF Own, Copied
<1>7. f = "handoff" => doing # "check"
  BY <1>1, <1>2, CopyTyped DEF Own
<1>8. Written' = Written
  BY <1>1, <1>2, <1>3, CopyTyped DEF Written
<1>9. Own'
  BY <1>1, <1>2, <1>3, <1>6, <1>7, <1>8 DEF Own, Copied, Copying
<1>10. Told'
  BY <1>1, <1>8 DEF Told, Due, Clip, Applied, Sampled
<1>11. CorrectionWhole'
  BY <1>1, <1>8 DEF CorrectionWhole, WholeOrNothing, NoSwitch
<1> QED
  BY <1>4, <1>5, <1>9, <1>10, <1>11

LEMMA FindsTyped ==
  ASSUME CorrectionType, NEW f \in Finds
  PROVE  /\ f.regions \in SUBSET Regions /\ "frame" \in f.regions /\ f.masks \in BOOLEAN
         /\ f.finder \in {"none", "works", "failed"}
         /\ f.finder = "works" => vision.finder = "works" /\ f.masks
         /\ vision.finder \in {"works", "failed"} => f.finder \in {"works", "failed"}
<1>1. \A r \in Found : r \in SUBSET Regions /\ "frame" \in r
  BY DEF Found, Regions
<1>2. CASE vision.finder # "works"
  <2>1. f = [regions |-> {"frame"}, masks |-> FALSE, finder |-> vision.finder]
    BY <1>2 DEF Finds
  <2>2. vision.finder \in {"none", "works", "failed"}
    BY DEF CorrectionType
  <2> QED
    BY <1>2, <2>1, <2>2 DEF Regions
<1>3. CASE f \in [regions : Found, masks : {TRUE}, finder : {"works"}] /\ vision.finder = "works"
  BY <1>1, <1>3
<1>4. CASE f = [regions |-> {"frame"}, masks |-> FALSE, finder |-> "failed"]
  BY <1>4 DEF Regions
<1> QED
  BY <1>2, <1>3, <1>4 DEF Finds

LEMMA MeasureImageKeeps ==
  ASSUME CorrectionInv, NEW image \in {"input", "anchor", "first_image"}, MeasureImage(image)
  PROVE  CorrectionInv'
<1> USE DEF CorrectionInv
<1>1. doing = image /\ UNCHANGED <<wish, placed, firstPass, regionPlan, curve, begun, late>>
  BY DEF MeasureImage
<1>2. doing \in BeforeCopy /\ doing # "done" /\ ImageOrder[image] \in {"anchor", "first_image", "frames"} /\ ImageOrder[image] # image
      /\ ImageOrder[image] \in BeforePlan \ {"plan"}
      /\ (image = "input" <=> ImageOrder[image] = "anchor") /\ (image = "anchor" => ImageOrder[image] = "first_image")
  BY <1>1 DEF ImageOrder, BeforeCopy, BeforePlan
<1>3. CASE Fail("tool") /\ UNCHANGED <<vision, images>>
  BY <1>1, <1>2, <1>3, FailKeeps
<1>4. CASE /\ image # "input" /\ ~(image = "anchor" /\ wish.held)
           /\ doing' = ImageOrder[image] /\ UNCHANGED <<vision, images, made, outcome>>
  <2>1. CorrectionType'
    BY <1>1, <1>2, <1>4 DEF CorrectionType, BeforeCopy
  <2>2. Measured'
    BY <1>1, <1>2, <1>4 DEF Measured, Clip, BeforePlan, Copying
  <2>3. Planned'
    BY <1>1, <1>2, <1>4 DEF Planned, Clip, BeforePlan, Copying, BeforeCopy
  <2> QED
    BY <1>1, <1>2, <1>4, <2>1, <2>2, <2>3, CopyFollows DEF BeforeCopy
<1>5. CASE /\ image = "anchor" => wish.held
           /\ \E f \in Finds : images' = [i \in DOMAIN images |-> IF i = image THEN f.regions ELSE images[i]] /\ vision' = [vision EXCEPT !.finder = f.finder]
           /\ doing' = ImageOrder[image] /\ UNCHANGED <<made, outcome>>
  <2>1. PICK f \in Finds : /\ images' = [i \in DOMAIN images |-> IF i = image THEN f.regions ELSE images[i]]
                           /\ vision' = [vision EXCEPT !.finder = f.finder]
    BY <1>5
  <2>2. /\ f.regions \in SUBSET Regions /\ "frame" \in f.regions /\ f.finder \in {"none", "works", "failed"}
        /\ f.finder = "works" => vision.finder = "works"
        /\ vision.finder \in {"works", "failed"} => f.finder \in {"works", "failed"}
    BY FindsTyped
  <2>3. DOMAIN images = {"input", "anchor"} /\ images \in [input : SUBSET Regions, anchor : SUBSET Regions]
    BY DEF CorrectionType
  <2>4. /\ images' \in [input : SUBSET Regions, anchor : SUBSET Regions]
        /\ images'.input = (IF image = "input" THEN f.regions ELSE images.input)
        /\ images'.anchor = (IF image = "anchor" THEN f.regions ELSE images.anchor)
    BY <2>1, <2>2, <2>3
  <2>5. vision' \in [finder : {"none", "works", "failed"}, had : BOOLEAN] /\ vision'.finder = f.finder /\ vision'.had = vision.had
    BY <2>1, <2>2 DEF CorrectionType
  <2>6. CorrectionType'
    BY <1>1, <1>2, <1>5, <2>4, <2>5 DEF CorrectionType, BeforeCopy
  <2>7. Measured'
    BY <1>1, <1>2, <1>5, <2>2, <2>4, <2>5 DEF Measured, Clip, BeforePlan, Copying
  <2>8. Planned'
    BY <1>1, <1>2, <1>5 DEF Planned, Clip, BeforePlan, Copying, BeforeCopy
  <2> QED
    BY <1>1, <1>2, <1>5, <2>6, <2>7, <2>8, CopyFollows DEF BeforeCopy
<1> QED
  BY <1>3, <1>4, <1>5 DEF MeasureImage

LEMMA FirstPassFrameKeeps ==
  ASSUME CorrectionInv, FirstPassFrame
  PROVE  CorrectionInv'
<1> USE DEF CorrectionInv
<1>1. doing = "frames" /\ UNCHANGED <<wish, placed, images, regionPlan, curve, begun, made, late, doing, outcome>>
  BY DEF FirstPassFrame
<1>2. PICK f \in Finds : /\ firstPass' = Append(firstPass, [regions |-> f.regions, masks |-> f.masks])
                         /\ vision' = [vision EXCEPT !.finder = f.finder]
  BY DEF FirstPassFrame
<1>3. /\ f.regions \in SUBSET Regions /\ f.masks \in BOOLEAN /\ f.finder \in {"none", "works", "failed"}
      /\ f.finder = "works" => vision.finder = "works" /\ f.masks
      /\ vision.finder \in {"works", "failed"} => f.finder \in {"works", "failed"}
  BY FindsTyped
<1>4. vision' \in [finder : {"none", "works", "failed"}, had : BOOLEAN] /\ vision'.finder = f.finder /\ vision'.had = vision.had
  BY <1>2, <1>3 DEF CorrectionType
<1> DEFINE m == [regions |-> f.regions, masks |-> f.masks]
<1>5. m \in Measurements /\ m.masks = f.masks
  BY <1>3 DEF Measurements
<1> HIDE DEF m
<1>6. /\ firstPass' \in Seq(Measurements) /\ DOMAIN firstPass' = 1 .. Len(firstPass) + 1 /\ Len(firstPass) \in Nat
      /\ DOMAIN firstPass = 1 .. Len(firstPass)
      /\ \A i \in 1 .. Len(firstPass) : firstPass'[i] = firstPass[i]
      /\ firstPass'[Len(firstPass) + 1] = m
  BY <1>2, <1>5 DEF CorrectionType, m
<1>7. CorrectionType'
  BY <1>1, <1>4, <1>6 DEF CorrectionType
<1>8. Measured'
  BY <1>1, <1>3, <1>4, <1>5, <1>6 DEF Measured, Clip, Copying
<1>9. Planned'
  BY <1>1, CopyTyped DEF Planned, BeforePlan, Copying
<1> QED
  BY <1>1, <1>7, <1>8, <1>9, CopyFollows DEF BeforeCopy, BeforePlan

LEMMA FirstPassEndsKeeps ==
  ASSUME CorrectionInv, FirstPassEnds
  PROVE  CorrectionInv'
<1> USE DEF CorrectionInv
<1>1. doing = "frames" /\ UNCHANGED <<wish, placed, vision, images, firstPass, regionPlan, curve, begun, late>>
  BY DEF FirstPassEnds
<1>2. CASE Fail("tool")
  BY <1>1, <1>2, FailKeeps
<1>3. CASE firstPass # <<>> /\ doing' = "plan" /\ outcome' = [outcome EXCEPT !.drift = TRUE] /\ UNCHANGED made
  <2>1. /\ outcome' \in [succeeded : BOOLEAN, drift : BOOLEAN, why : {"none", "tool", "frames", "missing"}]
        /\ outcome'.succeeded = outcome.succeeded /\ outcome'.why = outcome.why
    BY <1>3 DEF CorrectionType
  <2>2. CorrectionType'
    BY <1>1, <1>3, <2>1 DEF CorrectionType, BeforeCopy, BeforePlan
  <2>3. Measured'
    BY <1>1, <1>3 DEF Measured, Clip, Copying
  <2>4. Planned'
    BY <1>1, <1>3 DEF Planned, Clip, BeforePlan, Copying
  <2> QED
    BY <1>1, <1>3, <2>1, <2>2, <2>3, <2>4, CopyFollows DEF BeforeCopy, BeforePlan
<1> QED
  BY <1>2, <1>3 DEF FirstPassEnds

\* What is planned was measured wherever the plan reads it, so the plan never misses a region.
LEMMA PlanKeeps ==
  ASSUME CorrectionInv, Plan
  PROVE  CorrectionInv'
<1> USE DEF CorrectionInv
<1>1. doing = "plan" /\ UNCHANGED <<wish, placed, vision, images, firstPass, curve, begun, late>> /\ regionPlan' = _plan
  BY DEF Plan
<1>2. /\ Len(firstPass) \in Nat /\ Clip = 1 .. Len(firstPass) /\ firstPass # <<>> /\ firstPass \in Seq(Measurements)
      /\ "frame" \in images.input /\ (wish.held => "frame" \in images.anchor)
  BY <1>1, ClipDomain DEF Measured, CorrectionType
<1>3. \A region \in Regions : /\ FitRun(region) \in Seq(RegionNames) /\ Len(FitRun(region)) = Len(firstPass)
                              /\ \A i \in Clip : FitRun(region)[i] \in {region, "frame"}
                              /\ DOMAIN FitRun(region) = Clip
  BY <1>2 DEF FitRun, RegionNames, Regions
<1>4. Fits("frame") /\ \A region : _counts(region) => Fits(region)
  BY <1>2 DEF Fits, _counts
<1> DEFINE skins == [i \in Clip |-> IF "skin" \in firstPass[i].regions THEN "skin" ELSE "none"]
<1>5. skins \in Seq(RegionNames) /\ Len(skins) = Len(firstPass) /\ DOMAIN skins = Clip /\ \A i \in Clip : skins[i] \in {"skin", "none"}
  BY <1>2 DEF RegionNames, Regions
<1> HIDE DEF skins
<1>6. /\ _plan.frame \in {FitRun("background"), FitRun("frame")} /\ (_plan.frame # FitRun("frame") => _counts("background"))
      /\ _plan.people \in {FitRun("people"), <<>>} /\ (_plan.people # <<>> => Apart)
      /\ _plan.skin \in {skins, <<>>} /\ (_plan.skin # <<>> => _counts("skin"))
      /\ _plan = [frame |-> _plan.frame, people |-> _plan.people, skin |-> _plan.skin]
  BY DEF _plan, skins
<1>7. "frame" \in Regions /\ "people" \in Regions /\ "background" \in Regions
  BY DEF Regions
<1> HIDE DEF _plan
<1>8. /\ _plan \in [frame : Seq(RegionNames), people : Seq(RegionNames), skin : Seq(RegionNames)]
      /\ Len(_plan.frame) = Len(firstPass)
  <2>1. _plan.frame \in Seq(RegionNames) /\ Len(_plan.frame) = Len(firstPass)
    BY <1>3, <1>6, <1>7
  <2>2. _plan.people \in Seq(RegionNames)
    BY <1>3, <1>6, <1>7, EmptySeq
  <2>3. _plan.skin \in Seq(RegionNames)
    BY <1>5, <1>6, EmptySeq
  <2>4. \A p \in Seq(RegionNames), q \in Seq(RegionNames), r \in Seq(RegionNames) :
          [frame |-> p, people |-> q, skin |-> r] \in [frame : Seq(RegionNames), people : Seq(RegionNames), skin : Seq(RegionNames)]
    OBVIOUS
  <2> QED
    BY <1>6, <2>1, <2>2, <2>3, <2>4
<1>9. \A r \in UsedRegions(_plan) : Fits(r)
  <2>1. \A i \in DOMAIN _plan.frame : Fits(_plan.frame[i])
    BY <1>3, <1>4, <1>6, <1>7
  <2>2. \A i \in DOMAIN _plan.people : Fits(_plan.people[i])
    <3>1. CASE _plan.people = <<>>
      BY <3>1, CopyTyped
    <3>2. CASE _plan.people # <<>>
      BY <1>3, <1>4, <1>6, <1>7, <3>2 DEF Apart
    <3> QED
      BY <3>1, <3>2
  <2>3. \A i \in DOMAIN _plan.skin : _plan.skin[i] # "none" => Fits(_plan.skin[i])
    <3>1. CASE _plan.skin = <<>>
      BY <3>1, CopyTyped
    <3>2. CASE _plan.skin # <<>>
      BY <1>4, <1>5, <1>6, <3>2
    <3> QED
      BY <3>1, <3>2
  <2> QED
    BY <1>4, <2>1, <2>2, <2>3 DEF UsedRegions
<1>10. doing' = "encoder" /\ UNCHANGED <<made, outcome>>
  BY <1>9 DEF Plan
<1>11. CorrectionType'
  BY <1>1, <1>8, <1>10 DEF CorrectionType, BeforeCopy
<1>12. Measured'
  BY <1>1, <1>2, <1>10 DEF Measured, Clip, Copying
<1>13. Planned'
  <2>1. _plan.people # <<>> => /\ Len(_plan.people) = Len(firstPass)
                               /\ \A i \in Clip : firstPass[i].masks /\ _plan.people[i] # "none"
    <3> SUFFICES ASSUME _plan.people # <<>>
                 PROVE  /\ Len(_plan.people) = Len(firstPass)
                        /\ \A i \in Clip : firstPass[i].masks /\ _plan.people[i] # "none"
      OBVIOUS
    <3>1. _plan.people = FitRun("people") /\ Apart
      BY <1>6
    <3>2. vision.finder = "works"
      BY <3>1 DEF Apart, Measured
    <3> QED
      BY <1>3, <1>7, <3>1, <3>2 DEF Measured
  <2>2. _plan.skin # <<>> => Len(_plan.skin) = Len(firstPass)
    BY <1>5, <1>6
  <2> QED
    BY <1>1, <1>8, <1>10, <2>1, <2>2 DEF Planned, Clip, BeforePlan
<1> QED
  BY <1>1, <1>10, <1>11, <1>12, <1>13, CopyFollows DEF BeforeCopy, BeforePlan

LEMMA ChooseEncoderKeeps ==
  ASSUME CorrectionInv, ChooseEncoder
  PROVE  CorrectionInv'
<1> USE DEF CorrectionInv
<1>1. doing = "encoder" /\ UNCHANGED <<wish, placed, vision, images, firstPass, regionPlan, curve, begun, late>>
  BY DEF ChooseEncoder
<1>2. CASE Fail("tool")
  BY <1>1, <1>2, FailKeeps
<1>3. CASE doing' = "open" /\ UNCHANGED <<made, outcome>>
  <2>1. CorrectionType'
    BY <1>1, <1>3 DEF CorrectionType, BeforeCopy
  <2>2. Measured'
    BY <1>1, <1>3 DEF Measured, Clip
  <2>3. Planned'
    BY <1>1, <1>3 DEF Planned, Clip, BeforePlan
  <2> QED
    BY <1>1, <1>3, <2>1, <2>2, <2>3, CopyFollows DEF BeforeCopy
<1> QED
  BY <1>2, <1>3 DEF ChooseEncoder

\* A step of the copying that goes on with the files it has.
LEMMA GoesOn ==
  ASSUME CorrectionInv, doing \in {"open"} \cup Copying, doing' \in Copying,
         UNCHANGED <<wish, placed, vision, images, firstPass, regionPlan, outcome>>
  PROVE  Measured' /\ Planned'
<1>1. Measured'
  BY DEF CorrectionInv, Measured, Clip, Copying
<1>2. Planned'
  BY DEF CorrectionInv, Planned, Clip, Copying, BeforePlan
<1> QED
  BY <1>1, <1>2

LEMMA OpenEncoderKeeps ==
  ASSUME CorrectionInv, OpenEncoder
  PROVE  CorrectionInv'
<1> USE DEF CorrectionInv
<1>1. doing = "open" /\ UNCHANGED <<wish, placed, vision, images, firstPass, regionPlan, curve, late>>
  BY DEF OpenEncoder
<1>2. CASE Fail("tool") /\ UNCHANGED begun
  BY <1>1, <1>2, FailKeeps
<1>3. CASE /\ made.copy = Free
           /\ made' = [made EXCEPT !.copy.state = "partial"] /\ begun' = {"copy"} /\ doing' = "second" /\ UNCHANGED outcome
  <2>1. made'.copy = [frames |-> <<>>, state |-> "partial"] /\ made'.handoff = made.handoff
        /\ made' \in [copy : CopyFiles, handoff : CopyFiles]
    <3>1. [made.copy EXCEPT !.state = "partial"] = [frames |-> <<>>, state |-> "partial"]
      BY <1>3 DEF Free
    <3>2. [frames |-> <<>>, state |-> "partial"] \in CopyFiles
      BY EmptySeq DEF CopyFiles
    <3>3. made' = [made EXCEPT !.copy = [frames |-> <<>>, state |-> "partial"]]
      BY <1>3, <3>1
    <3> QED
      BY <3>2, <3>3 DEF CorrectionType
  <2>2. CorrectionType'
    BY <1>1, <1>3, <2>1 DEF CorrectionType, Copying
  <2>3. Measured' /\ Planned'
    BY <1>1, <1>3, GoesOn DEF Copying
  <2>4. "copy" \notin placed
    BY <1>1, <1>3, CopyTyped DEF Own, Copying
  <2>5. Own'
    BY <1>1, <1>3, <2>1, <2>4 DEF Own, Copying, Copied, BeforeCopy, BeforePlan
  <2>6. Written' = <<>>
    BY <2>1 DEF Written
  <2>7. curve = {}
    BY <1>1 DEF Told, BeforeCopy
  <2>8. Told'
    BY <1>1, <1>3, <2>6, <2>7, CopyTyped, ClipDomain DEF Told, BeforeCopy, BeforePlan, Copied
  <2>9. CorrectionWhole'
    BY <1>3, <2>6, CopyTyped DEF CorrectionWhole, WholeOrNothing, NoSwitch
  <2> QED
    BY <2>2, <2>3, <2>5, <2>8, <2>9
<1> QED
  BY <1>2, <1>3 DEF OpenEncoder

\* The copy's frame has its number and one of the plan's transforms of each kind.
LEMMA AppliedTyped ==
  ASSUME CorrectionType, Planned, doing = "second", NEW i \in Clip
  PROVE  Applied(i) \in CopyFrames
<1>1. i \in Nat /\ i \in 1 .. Len(firstPass) /\ Len(firstPass) \in Nat
  BY ClipDomain
<1>2. regionPlan.frame \in Seq(RegionNames) /\ Len(regionPlan.frame) = Len(firstPass)
  BY DEF CorrectionType, Planned, Copying
<1>3. regionPlan.frame[i] \in RegionNames
  BY <1>1, <1>2
<1>4. regionPlan.people # <<>> => regionPlan.people[i] \in RegionNames
  BY <1>1 DEF CorrectionType, Planned
<1>5. regionPlan.skin # <<>> => regionPlan.skin[i] \in RegionNames
  BY <1>1 DEF CorrectionType, Planned
<1>6. "none" \in RegionNames
  BY DEF RegionNames
<1> QED
  BY <1>1, <1>3, <1>4, <1>5, <1>6 DEF Applied, CopyFrames

LEMMA SecondPassFrameKeeps ==
  ASSUME CorrectionInv, SecondPassFrame
  PROVE  CorrectionInv'
<1> USE DEF CorrectionInv
<1>1. doing = "second" /\ UNCHANGED <<wish, placed, vision, images, firstPass, regionPlan, begun, late>>
  BY DEF SecondPassFrame
<1> DEFINE n == Len(Written) + 1
<1>2. CASE (Fail("tool") \/ Fail("frames")) /\ UNCHANGED curve
  BY <1>1, <1>2, FailKeeps
<1>3. CASE /\ n <= Len(firstPass)
           /\ made' = [made EXCEPT !.copy.frames = Append(@, Applied(n))]
           /\ curve' = IF (n - 1) % SampleEvery = 0 THEN curve \cup {n} ELSE curve
           /\ UNCHANGED <<doing, outcome>>
  <2>1. n \in Clip /\ n \in Nat /\ Len(Written) \in Nat /\ Len(firstPass) \in Nat /\ Written \in Seq(CopyFrames)
        /\ DOMAIN Written = 1 .. Len(Written) /\ Clip = 1 .. Len(firstPass)
    BY <1>3, ClipDomain
  <2>2. Applied(n) \in CopyFrames
    BY <1>1, <2>1, AppliedTyped
  <2>3. /\ made' \in [copy : CopyFiles, handoff : CopyFiles] /\ made'.handoff = made.handoff
        /\ made'.copy.state = made.copy.state /\ Written' = Append(Written, Applied(n))
    <3> DEFINE c == [made.copy EXCEPT !.frames = Append(made.copy.frames, Applied(n))]
    <3>1. Append(Written, Applied(n)) \in Seq(CopyFrames)
      BY <2>1, <2>2
    <3>2. made.copy \in CopyFiles
      BY ClipDomain
    <3>3. c \in CopyFiles /\ c.state = made.copy.state /\ c.frames = Append(Written, Applied(n))
      BY <3>1, <3>2 DEF CopyFiles, Written
    <3>4. made' = [made EXCEPT !.copy = c]
      BY <1>3
    <3> HIDE DEF c
    <3>5. made'.copy = c /\ made'.handoff = made.handoff /\ made' \in [copy : CopyFiles, handoff : CopyFiles]
      BY <3>3, <3>4 DEF CorrectionType
    <3> QED
      BY <3>3, <3>5 DEF Written
  <2>4. /\ Len(Written') = n /\ DOMAIN Written' = 1 .. n /\ Written'[n] = Applied(n)
        /\ \A i \in 1 .. Len(Written) : Written'[i] = Written[i]
    BY <2>1, <2>2, <2>3
  <2>5. CorrectionType'
    BY <1>1, <1>3, <2>1, <2>3 DEF CorrectionType
  <2>6. Measured' /\ Planned'
    BY <1>1, <1>3, GoesOn DEF Copying
  <2>7. Own'
    BY <1>1, <1>3, <2>3 DEF Own, Copying, Copied, BeforeCopy, BeforePlan
  <2>8. \A i \in Clip : Applied(i)' = Applied(i)
    BY <1>1 DEF Applied
  <2>9. \A i \in 1 .. n : Written'[i] = Applied(i)
    BY <2>1, <2>4 DEF Told
  <2>10. curve' = {i \in 1 .. n : Due(i)}
    <3>1. curve = {i \in 1 .. Len(Written) : Due(i)}
      BY <1>1 DEF Told
    <3>2. 1 .. n = (1 .. Len(Written)) \cup {n}
      BY <2>1
    <3>3. curve' = IF Due(n) THEN curve \cup {n} ELSE curve
      BY <1>3 DEF Due
    <3> HIDE DEF n
    <3> QED
      BY <3>1, <3>2, <3>3
  <2>11. Told'
    <3>1. \A i \in 1 .. n : i \in Clip
      BY <1>3, <2>1
    <3>2. \A i \in DOMAIN Written' : Written'[i] = Applied(i)'
      BY <2>4, <2>8, <2>9, <3>1
    <3>3. curve' = {i \in 1 .. Len(Written') : Due(i)'}
      BY <2>4, <2>10 DEF Due
    <3>4. Len(Written') <= Len(firstPass')
      BY <1>1, <1>3, <2>4
    <3> QED
      BY <1>1, <1>3, <3>2, <3>3, <3>4 DEF Told, BeforeCopy, BeforePlan, Copied
  <2>12. NoSwitch'
    BY <1>1, <1>3, <2>5, <2>6, <2>11, NoFrameSwitchesNext DEF CorrectionWhole, NoSwitch
  <2>13. WholeOrNothing'
    BY <1>1, <1>3 DEF WholeOrNothing
  <2> QED
    BY <2>5, <2>6, <2>7, <2>11, <2>12, <2>13 DEF CorrectionWhole
<1> QED
  BY <1>2, <1>3 DEF SecondPassFrame

LEMMA SecondPassEndsKeeps ==
  ASSUME CorrectionInv, SecondPassEnds
  PROVE  CorrectionInv'
<1> USE DEF CorrectionInv
<1>1. doing = "second" /\ UNCHANGED <<wish, placed, vision, images, firstPass, regionPlan, begun, late>>
  BY DEF SecondPassEnds
<1>2. CASE (Fail("tool") \/ Fail("frames")) /\ UNCHANGED curve
  BY <1>1, <1>2, FailKeeps
<1>3. CASE /\ Len(Written) = Len(firstPass)
           /\ made' = [made EXCEPT !.copy.state = "closed"] /\ curve' = curve \cup {Len(Written)} /\ doing' = "tag" /\ UNCHANGED outcome
  <2>1. /\ made' \in [copy : CopyFiles, handoff : CopyFiles] /\ made'.handoff = made.handoff
        /\ made'.copy.state = "closed" /\ Written' = Written
    BY <1>3 DEF CorrectionType, CopyFiles, Written
  <2>2. /\ Len(firstPass) \in Nat \ {0} /\ Clip = 1 .. Len(firstPass)
    BY <1>1, ClipDomain, EmptySeq DEF Measured, Copying, CorrectionType
  <2>3. CorrectionType'
    BY <1>1, <1>3, <2>1, <2>2 DEF CorrectionType, Copying
  <2>4. Measured' /\ Planned'
    BY <1>1, <1>3, GoesOn DEF Copying
  <2>5. Own'
    BY <1>1, <1>3, <2>1 DEF Own, Copying, Copied, BeforeCopy, BeforePlan
  <2>6. curve' = Sampled
    BY <1>1, <1>3, <2>2 DEF Told, Due, Sampled
  <2>7. Told'
    BY <1>1, <1>3, <2>1, <2>6 DEF Told, Applied, Sampled, Clip, BeforeCopy, BeforePlan, Copied
  <2>8. CorrectionWhole'
    BY <1>1, <1>3, <2>1 DEF CorrectionWhole, WholeOrNothing, NoSwitch
  <2> QED
    BY <2>3, <2>4, <2>5, <2>7, <2>8
<1> QED
  BY <1>2, <1>3 DEF SecondPassEnds

LEMMA TagCopyKeeps ==
  ASSUME CorrectionInv, TagCopy
  PROVE  CorrectionInv'
<1> USE DEF CorrectionInv
<1>1. doing = "tag" /\ UNCHANGED <<wish, placed, vision, images, firstPass, regionPlan, curve, late>>
  BY DEF TagCopy
<1>2. CASE Fail("tool") /\ UNCHANGED begun
  BY <1>1, <1>2, FailKeeps
<1>3. CASE begun' = begun \cup {"handoff"} /\ doing' = "handoff" /\ UNCHANGED <<made, outcome>>
  <2>1. CorrectionType'
    BY <1>1, <1>3 DEF CorrectionType, Copying
  <2>2. Measured' /\ Planned'
    BY <1>1, <1>3, GoesOn DEF Copying
  <2>3. Own'
    BY <1>1, <1>3 DEF Own, Written, Copying, Copied, BeforeCopy, BeforePlan
  <2>4. Told'
    BY <1>1, <1>3 DEF Told, Written, Applied, Sampled, Clip, BeforeCopy, BeforePlan, Copied
  <2>5. CorrectionWhole'
    BY <1>1, <1>3 DEF CorrectionWhole, WholeOrNothing, NoSwitch, Written
  <2> QED
    BY <2>1, <2>2, <2>3, <2>4, <2>5
<1> QED
  BY <1>2, <1>3 DEF TagCopy

LEMMA WriteHandoffKeeps ==
  ASSUME CorrectionInv, WriteHandoff
  PROVE  CorrectionInv'
<1> USE DEF CorrectionInv
<1>1. doing = "handoff" /\ UNCHANGED <<wish, placed, vision, images, firstPass, regionPlan, curve, begun, late>>
  BY DEF WriteHandoff
<1>2. CASE Fail("tool")
  BY <1>1, <1>2, FailKeeps
<1>3. CASE /\ made.handoff = Free
           /\ made' = [made EXCEPT !.handoff = [frames |-> <<Written[Len(Written)]>>, state |-> "closed"]]
           /\ doing' = "check" /\ UNCHANGED outcome
  <2>1. /\ Len(firstPass) \in Nat \ {0} /\ Len(Written) = Len(firstPass) /\ Written \in Seq(CopyFrames)
    BY <1>1, ClipDomain, EmptySeq DEF Measured, Copying, CorrectionType, Told, Copied
  <2>2. Written[Len(Written)] \in CopyFrames
    BY <2>1
  <2>3. [frames |-> <<Written[Len(Written)]>>, state |-> "closed"] \in CopyFiles
    BY <2>2 DEF CopyFiles
  <2>4. /\ made' \in [copy : CopyFiles, handoff : CopyFiles] /\ made'.copy = made.copy
        /\ made'.handoff = [frames |-> <<Written[Len(Written)]>>, state |-> "closed"] /\ Written' = Written
    BY <1>3, <2>3 DEF CorrectionType, Written
  <2>5. CorrectionType'
    BY <1>1, <1>3, <2>4 DEF CorrectionType, Copying
  <2>6. Measured' /\ Planned'
    BY <1>1, <1>3, GoesOn DEF Copying
  <2>7. Own'
    BY <1>1, <1>3, <2>4 DEF Own, Copying, Copied, BeforeCopy, BeforePlan
  <2>8. Told'
    BY <1>1, <1>3, <2>4 DEF Told, Applied, Sampled, Clip, BeforeCopy, BeforePlan, Copied
  <2>9. CorrectionWhole'
    BY <1>1, <1>3, <2>4 DEF CorrectionWhole, WholeOrNothing, NoSwitch
  <2> QED
    BY <2>5, <2>6, <2>7, <2>8, <2>9
<1> QED
  BY <1>2, <1>3 DEF WriteHandoff

LEMMA CheckCopyKeeps ==
  ASSUME CorrectionInv, CheckCopy
  PROVE  CorrectionInv'
<1> USE DEF CorrectionInv
<1>1. doing = "check" /\ UNCHANGED <<wish, placed, vision, images, firstPass, regionPlan, curve, begun, late>>
  BY DEF CheckCopy
<1>2. CASE Fail("tool")
  BY <1>1, <1>2, FailKeeps
<1>3. CASE doing' = "done" /\ outcome' = [outcome EXCEPT !.succeeded = TRUE] /\ UNCHANGED made
  <2>1. /\ outcome' \in [succeeded : BOOLEAN, drift : BOOLEAN, why : {"none", "tool", "frames", "missing"}]
        /\ outcome'.succeeded /\ outcome'.why = outcome.why
    BY <1>3 DEF CorrectionType
  <2>2. CorrectionType'
    BY <1>1, <1>3, <2>1 DEF CorrectionType
  <2>3. Measured' /\ Planned' /\ Own'
    BY <1>1, <1>3 DEF Measured, Planned, Own, Clip, BeforePlan, Copying
  <2>4. Written' = Written /\ Clip' = Clip /\ Sampled' = Sampled /\ \A i : Applied(i)' = Applied(i)
    BY <1>1, <1>3 DEF Written, Clip, Sampled, Applied
  <2>5. Told'
    BY <1>1, <1>3, <2>4 DEF Told, BeforeCopy, BeforePlan, Copied
  <2>6. NoSwitch'
    BY <2>1, <2>4 DEF CorrectionWhole, NoSwitch
  <2>7. made.copy.state = "closed" /\ made.handoff.frames = <<Written[Len(firstPass)]>> /\ curve = Sampled /\ Len(Written) = Len(firstPass)
    BY <1>1 DEF Own, Told, Copying, Copied
  <2>8. [i \in DOMAIN Written |-> Written[i].frame] = [i \in Clip |-> i]
    BY <2>7, ClipDomain DEF Told, Applied
  <2>9. WholeOrNothing'
    BY <1>1, <1>3, <2>1, <2>4, <2>7, <2>8 DEF WholeOrNothing
  <2> QED
    BY <2>2, <2>3, <2>5, <2>6, <2>9 DEF CorrectionWhole
<1> QED
  BY <1>2, <1>3 DEF CheckCopy

------------------------------------------------------------------------------

\* The correction's invariant: what was measured and planned before the copy is begun, whose the files are at every step,
\* and that the copy's frames and the measured ones are the clip's so far.
THEOREM CorrectionInvThm == CorrectionSpec => []CorrectionInv
<1>1. CorrectionInit => CorrectionInv
  <2> SUFFICES ASSUME CorrectionInit PROVE CorrectionInv
    OBVIOUS
  <2>1. PICK regions \in BOOLEAN, held \in BOOLEAN, segmenter \in {"none", "works"} : CorrectionStart(regions, held, segmenter)
    BY DEF CorrectionInit
  <2>2. made.copy = Free /\ made.handoff = Free /\ Written = <<>>
    BY <2>1, CopyTyped DEF CorrectionStart, Written
  <2>3. CorrectionType
    <3>1. firstPass \in Seq(Measurements) /\ regionPlan \in [frame : Seq(RegionNames), people : Seq(RegionNames), skin : Seq(RegionNames)]
      BY <2>1, CopyTyped, EmptySeq DEF CorrectionStart
    <3>2. made \in [copy : CopyFiles, handoff : CopyFiles]
      BY <2>1, CopyTyped DEF CorrectionStart
    <3> QED
      BY <2>1, <3>1, <3>2 DEF CorrectionStart, CorrectionType, BeforeCopy, BeforePlan
  <2>4. Measured
    BY <2>1, CopyTyped DEF CorrectionStart, Measured, Clip, Copying
  <2>5. Planned
    BY <2>1, CopyTyped DEF CorrectionStart, Planned, Copying
  <2>6. Own
    BY <2>1, <2>2 DEF CorrectionStart, Own, Copying
  <2>7. Told
    BY <2>1, <2>2, <2>3, CopyTyped, ClipDomain DEF CorrectionStart, Told, Copied
  <2>8. CorrectionWhole
    BY <2>1, <2>2, CopyTyped DEF CorrectionStart, CorrectionWhole, WholeOrNothing, NoSwitch
  <2> QED
    BY <2>3, <2>4, <2>5, <2>6, <2>7, <2>8 DEF CorrectionInv
<1>2. CorrectionInv /\ [CorrectionNext]_correctionVars => CorrectionInv'
  <2> SUFFICES ASSUME CorrectionInv, [CorrectionNext]_correctionVars PROVE CorrectionInv'
    OBVIOUS
  <2>1. CASE CorrectionNext
    <3>1. DOMAIN ImageOrder = {"input", "anchor", "first_image"}
      BY DEF ImageOrder
    <3> QED
      BY <2>1, <3>1, DeadlineKeeps, PlaceFileKeeps, MeasureImageKeeps, FirstPassFrameKeeps, FirstPassEndsKeeps, PlanKeeps,
         ChooseEncoderKeeps, OpenEncoderKeeps, SecondPassFrameKeeps, SecondPassEndsKeeps, TagCopyKeeps, WriteHandoffKeeps,
         CheckCopyKeeps DEF CorrectionNext
  <2>2. CASE UNCHANGED correctionVars
    BY <2>2 DEF correctionVars, CorrectionInv, CorrectionType, Measured, Planned, Own, Told, Due, Clip, Written, Applied, Sampled,
                CorrectionWhole, WholeOrNothing, NoSwitch
  <2> QED
    BY <2>1, <2>2
<1> QED
  BY <1>1, <1>2, PTL DEF CorrectionSpec

\* A correction that succeeded has a copy of every frame in order, the last of them as its handoff, and the measures its
\* drift was taken from; one that failed at any step leaves nothing of its own; people are corrected apart in all of a clip's
\* frames or in none (color_run._correct, regions.RegionFinder, color_run._remove).
THEOREM CorrectionWholeThm == CorrectionSpec => []CorrectionWhole
BY CorrectionInvThm, PTL DEF CorrectionInv
------------------------------------------------------------------------------
(* The anchor of a chain: what each run is held to, over resumes.             *)

Images == {None, Temporary, FirstImage} \cup {Handoff(n) : n \in ChainRuns}
ChainStates == [first_image : Images, anchor : Images, segmented : BOOLEAN, segment_first_image : Images]
ChainRecords == [succeeded : BOOLEAN, input : Images, anchor : Images, first_image : Images]

ColorTypeOK ==
  /\ plan \in Plans
  /\ phase \in {"open", "run", "running", "ended"}
  /\ number \in ChainRuns /\ start \in 1 .. number /\ resumes \in Nat /\ lost \in Nat
  /\ chain \in ChainStates /\ named \in {None, FirstImage} /\ disk \subseteq Images \ {None}
  /\ record \in [ChainRuns -> ChainRecords]
  /\ Resumed <=> start > 1
  /\ phase = "open" => number = start

\* The runs end in order: those before the run it is at succeeded, and no later one.
RunsInOrder ==
  /\ \A m \in ChainRuns : m < number => record[m].succeeded
  /\ \A m \in ChainRuns : m > number => ~record[m].succeeded
  /\ phase # "ended" => ~record[number].succeeded
  /\ ~Resumed /\ phase = "open" => \A m \in ChainRuns : record[m] = NoRecord

\* While an execution goes on, what its chain holds is there.
HeldImages ==
  /\ number > 1 \/ phase = "ended" => Temporary \notin disk
  /\ phase \in {"open", "run", "running"} /\ number > 1 => Handoff(number - 1) \in disk
  /\ phase \in {"run", "running"} /\ named = FirstImage =>
       /\ IsVideo(1)
       /\ {chain.first_image, chain.anchor, chain.segment_first_image} \subseteq (disk \cup {None}) \ {Temporary}

\* Before the first resume's end: where the first image is.
FirstImageKept ==
  /\ named = FirstImage /\ phase \in {"run", "running"} /\ number = 1 =>
       /\ ~chain.segmented
       /\ run_needs_visual_input(1) => chain.first_image = FirstImage
  /\ phase = "run" /\ number = 1 => chain.anchor = None
  /\ plan[1].kind = "t2v" /\ named = FirstImage /\ record[1].succeeded /\ lost = 0 => FirstImage \in disk
  /\ ~Resumed /\ phase = "open" => named = None

\* The runs up to n are those the code carries an anchor through.
Carried(n) ==
  /\ IsVideo(1) /\ lost = 0 /\ named = FirstImage
  /\ plan[1].kind = "r2av" => \A m \in 1 .. n : plan[m].kind \in H3Pipelines
  /\ \A m \in 1 .. n : run_needs_visual_input(m) => LooksForAnchor(m)

\* Run n's anchor is the documented one, or none when it takes no image.
RunAnchor(n, image) ==
  IF run_needs_visual_input(n) THEN image # None /\ Picture(image) = Picture(PlannedAnchor(n)) ELSE image = None

\* Behind a run that takes no image, what the next run is measured against is still to come.
Stands(n) ==
  run_needs_visual_input(n) \/
    IF n = 1 THEN ~chain.segmented /\ (plan[1].kind = "t2v" => chain.first_image = FirstImage)
    ELSE chain.segmented /\ chain.segment_first_image = None

Done(m) == record[m].input # None \/ record[m].succeeded \/ (phase = "running" /\ m = number)

AnchorInv ==
  /\ \A m \in ChainRuns : Done(m) /\ Carried(m) => RunAnchor(m, record[m].anchor)
  /\ \A m \in ChainRuns : record[m].succeeded /\ Carried(m) => record[m].anchor \in disk \cup {None}
  /\ phase = "run" /\ number > 1 /\ Carried(number - 1) => RunAnchor(number - 1, chain.anchor) /\ Stands(number - 1)
  /\ phase = "running" /\ Carried(number) =>
       /\ chain.anchor = record[number].anchor
       /\ run_needs_visual_input(number) \/ (IF number = 1 THEN ~chain.segmented ELSE chain.segmented /\ chain.segment_first_image = None)

ColorInv == ColorTypeOK /\ RunsInOrder /\ HeldImages /\ FirstImageKept /\ AnchorInv

\* The images are told apart by their names.
LEMMA ImagesDiffer ==
  /\ None # Temporary /\ None # FirstImage /\ Temporary # FirstImage
  /\ \A n : Handoff(n) \notin {None, Temporary, FirstImage}
  /\ \A m, n : Handoff(m) = Handoff(n) => m = n
<1>1. None[1] = "none" /\ Temporary[1] = "temporary" /\ FirstImage[1] = "first_image"
  BY DEF None, Temporary, FirstImage
<1>2. \A n : Handoff(n)[1] = "handoff" /\ Handoff(n)[2] = n
  BY DEF Handoff
<1> QED
  BY <1>1, <1>2

\* What a job may be.
LEMMA PlanShape ==
  ASSUME ColorTypeOK
  PROVE  /\ Len(plan) \in Nat \ {0} /\ ChainRuns \subseteq Nat \ {0} /\ 1 \in ChainRuns
         /\ \A n \in ChainRuns : \A m \in 1 .. n : m \in ChainRuns
         /\ \A n \in ChainRuns : plan[n].kind \in {"i2i", "i2v", "t2v", "i2av", "r2av"}
         /\ \A n \in ChainRuns : plan[n].holds \in BOOLEAN /\ plan[n].reanchor \in BOOLEAN
  BY ChainAssumption DEF ColorTypeOK, ChainRuns

\* A greatest element is the maximum, a least one the minimum.
LEMMA GreatestIsMax ==
  ASSUME NEW S \in SUBSET Nat, NEW n \in S, \A m \in S : m <= n
  PROVE  Max(S) = n
<1>1. \E x \in S : \A y \in S : x >= y
  OBVIOUS
<1>2. Max(S) \in S /\ \A y \in S : Max(S) >= y
  BY <1>1 DEF Max
<1>3. n \in Nat /\ Max(S) \in Nat
  BY <1>2
<1>4. Max(S) <= n /\ n <= Max(S)
  BY <1>2, <1>3
<1> QED
  BY <1>3, <1>4

LEMMA LeastIsMin ==
  ASSUME NEW S \in SUBSET Nat, NEW n \in S, \A m \in S : n <= m
  PROVE  Min(S) = n
<1>1. \E x \in S : \A y \in S : x =< y
  OBVIOUS
<1>2. Min(S) \in S /\ \A y \in S : Min(S) =< y
  BY <1>1 DEF Min
<1>3. n \in Nat /\ Min(S) \in Nat
  BY <1>2
<1>4. Min(S) <= n /\ n <= Min(S)
  BY <1>2, <1>3
<1> QED
  BY <1>3, <1>4

\* Every nonempty set of numbers has a least one.
LEMMA LeastOfNat ==
  ASSUME NEW S \in SUBSET Nat, S # {}
  PROVE  \E n \in S : \A m \in S : n <= m
<1> DEFINE R == OpToRel(<, Nat)
<1>1. IsWellFoundedOn(R, Nat)
  BY NatLessThanWellFounded
<1>2. \A x, y \in S : x < y => <<x, y>> \in R
  BY DEF OpToRel
<1> HIDE DEF R
<1>3. PICK x \in S : \A y \in S : <<y, x>> \notin R
  BY <1>1, WFMin
<1>4. \A y \in S : ~(y < x)
  BY <1>2, <1>3
<1> QED
  BY <1>4

\* A run that looks for an anchor takes an image, and breaks no segment.
LEMMA LookersLook ==
  ASSUME ColorTypeOK, NEW n \in ChainRuns
  PROVE  /\ LooksForAnchor(n) => run_needs_visual_input(n)
         /\ run_needs_visual_input(n) => ~Breaks(n)
         /\ ~run_needs_visual_input(n) => plan[n].kind \in {"t2v", "r2av"}
         /\ run_needs_visual_input(n) /\ IsVideo(n) => plan[n].kind \in {"i2v", "i2av"}
         /\ ~run_needs_visual_input(n) /\ n > 1 => Breaks(n)
  BY PlanShape DEF LooksForAnchor, run_needs_visual_input, Breaks, Holds, H3Pipelines, Conditioned, IsVideo

\* The documented anchor of the first run.
LEMMA PlannedFirst ==
  ASSUME ColorTypeOK, run_needs_visual_input(1)
  PROVE  PlannedAnchor(1) = FirstImage
<1>1. {m \in 1 .. 1 : Moves(m, 1)} = {}
  BY DEF Moves
<1>2. ~\E b \in 1 .. 1 : Breaks(b)
  BY LookersLook, PlanShape
<1> QED
  BY <1>1, <1>2 DEF PlannedAnchor

\* A run that moves the anchor, or follows one without an input, has its own input as the documented anchor.
LEMMA PlannedHere ==
  ASSUME ColorTypeOK, NEW n \in ChainRuns, n > 1, run_needs_visual_input(n),
         Moves(n, n) \/ ~run_needs_visual_input(n - 1)
  PROVE  Picture(PlannedAnchor(n)) = Handoff(n - 1)
<1> DEFINE moved == {m \in 1 .. n : Moves(m, n)}
<1>0. n \in Nat /\ n - 1 \in ChainRuns /\ moved \in SUBSET Nat
  BY PlanShape DEF ChainRuns
<1>1. CASE Moves(n, n)
  <2>1. n \in moved /\ \A m \in moved : m <= n
    BY <1>0, <1>1
  <2>2. Max(moved) = n
    BY <1>0, <2>1, GreatestIsMax
  <2> QED
    BY <2>1, <2>2, ImagesDiffer DEF PlannedAnchor, Picture
<1>2. CASE ~Moves(n, n) /\ ~run_needs_visual_input(n - 1)
  <2>1. ~Breaks(n)
    BY LookersLook
  <2>2. \A m \in moved : m < n
    BY <1>0, <1>2
  <2>3. CASE Breaks(n - 1)
    <3>1. SegmentOf(n) = {n}
      <4>1a. \A m \in 1 .. n : m # n => m < n - 1 \/ ~run_needs_visual_input(m)
        BY <1>0, <1>2
      <4>2. ~\E b \in (n + 1) .. n : Breaks(b)
        BY <1>0
      <4>3. \A m \in SegmentOf(n) : m = n
        BY <1>0, <1>2, <2>3, <4>1a DEF SegmentOf
      <4> QED
        BY <1>0, <4>2, <4>3 DEF SegmentOf
    <3>2. moved = {}
      BY <1>2, <3>1 DEF Moves
    <3>3. Min({n}) = n
      BY <1>0, LeastIsMin
    <3>4. \E b \in 1 .. n : Breaks(b)
      BY <1>0, <2>3, PlanShape
    <3>5. PlannedAnchor(n) = Handoff(Min(SegmentOf(n)) - 1)
      BY <3>2, <3>4 DEF PlannedAnchor
    <3> QED
      BY <3>1, <3>3, <3>5, ImagesDiffer DEF Picture
  <2>4. CASE ~Breaks(n - 1)
    <3>1. n = 2 /\ plan[1].kind = "t2v"
      BY <1>0, <1>2, <2>4, LookersLook, PlanShape DEF Breaks
    <3>2. moved = {}
      <4>1. \A m \in moved : m > 1
        BY DEF Moves
      <4> QED BY <1>0, <2>2, <3>1, <4>1
    <3>3. ~\E b \in 1 .. n : Breaks(b)
      BY <2>1, <2>4, <3>1
    <3>4. PlannedAnchor(n) = FirstImage
      BY <3>2, <3>3 DEF PlannedAnchor
    <3> QED
      BY <3>1, <3>4 DEF Picture
  <2> QED BY <2>3, <2>4
<1> QED
  BY <1>1, <1>2

\* Any other run has the one of the run before it.
LEMMA PlannedBefore ==
  ASSUME ColorTypeOK, NEW n \in ChainRuns, n > 1, run_needs_visual_input(n),
         ~Moves(n, n), run_needs_visual_input(n - 1)
  PROVE  PlannedAnchor(n) = PlannedAnchor(n - 1)
<1> DEFINE k == n - 1
<1> DEFINE moved(i) == {m \in 1 .. i : Moves(m, i)}
<1>0. n \in Nat /\ k \in Nat /\ k \in ChainRuns /\ n = k + 1 /\ k >= 1
  BY PlanShape DEF ChainRuns
<1>1. ~Breaks(n) /\ ~Breaks(k)
  BY <1>0, LookersLook
<1>2. SegmentOf(n) = SegmentOf(k) \cup {n}
  <2>1. ASSUME NEW m \in 1 .. k
        PROVE  (\E b \in (m + 1) .. n : Breaks(b)) <=> (\E b \in (m + 1) .. k : Breaks(b))
    BY <1>0, <1>1
  <2>2. ~\E b \in (n + 1) .. n : Breaks(b)
    BY <1>0
  <2> QED
    BY <1>0, <2>1, <2>2 DEF SegmentOf
<1>3. moved(n) = moved(k)
  BY <1>0, <1>2 DEF Moves, SegmentOf
<1>4. (\E b \in 1 .. n : Breaks(b)) <=> (\E b \in 1 .. k : Breaks(b))
  BY <1>0, <1>1
<1>5. Min(SegmentOf(n)) = Min(SegmentOf(k))
  <2>1. k \in SegmentOf(k) /\ SegmentOf(k) \in SUBSET Nat /\ \A m \in SegmentOf(k) : m < n
    BY <1>0 DEF SegmentOf
  <2>2. PICK m \in SegmentOf(k) : \A i \in SegmentOf(k) : m <= i
    BY <2>1, LeastOfNat
  <2>3. Min(SegmentOf(k)) = m
    BY <2>1, <2>2, LeastIsMin
  <2>4. SegmentOf(n) \in SUBSET Nat /\ m \in SegmentOf(n) /\ \A i \in SegmentOf(n) : m <= i
    BY <1>0, <1>2, <2>1, <2>2
  <2> HIDE DEF k
  <2>5. Min(SegmentOf(n)) = m
    BY <2>4, LeastIsMin
  <2> QED BY <2>3, <2>5
<1> HIDE DEF k
<1>6. PlannedAnchor(n) = PlannedAnchor(k)
  BY <1>3, <1>4, <1>5 DEF PlannedAnchor
<1> QED
  BY <1>6 DEF k

\* Nothing of the job changes.
LEMMA PlanStays ==
  ASSUME plan' = plan
  PROVE  /\ ChainRuns' = ChainRuns
         /\ \A n : (run_needs_visual_input(n)' <=> run_needs_visual_input(n)) /\ (IsVideo(n)' <=> IsVideo(n))
         /\ \A n : (LooksForAnchor(n)' <=> LooksForAnchor(n))
         /\ \A i : Picture(i)' = Picture(i)
         /\ \A n : PlannedAnchor(n)' = PlannedAnchor(n)
<1>1. ChainRuns' = ChainRuns /\ \A n : (run_needs_visual_input(n)' <=> run_needs_visual_input(n)) /\ (IsVideo(n)' <=> IsVideo(n))
  BY DEF ChainRuns, run_needs_visual_input, IsVideo
<1>2. \A n : (Holds(n)' <=> Holds(n)) /\ (ChangedPair(n)' <=> ChangedPair(n)) /\ (Breaks(n)' <=> Breaks(n))
  BY <1>1 DEF Holds, ChangedPair, Breaks
<1>3. \A n : LooksForAnchor(n)' <=> LooksForAnchor(n)
  BY <1>2 DEF LooksForAnchor
<1>4. \A n : SegmentOf(n)' = SegmentOf(n)
  BY <1>1, <1>2 DEF SegmentOf
<1>5. \A m, n : Moves(m, n)' <=> Moves(m, n)
  BY <1>2, <1>3, <1>4 DEF Moves
<1>6. \A n : PlannedAnchor(n)' = PlannedAnchor(n)
  <2> SUFFICES ASSUME NEW n PROVE PlannedAnchor(n)' = PlannedAnchor(n)
    OBVIOUS
  <2>1. {m \in 1 .. n : Moves(m, n)}' = {m \in 1 .. n : Moves(m, n)}
    BY <1>5
  <2>2. (\E b \in 1 .. n : Breaks(b))' <=> (\E b \in 1 .. n : Breaks(b))
    BY <1>2
  <2> QED
    BY <1>4, <2>1, <2>2 DEF PlannedAnchor
<1> QED
  BY <1>1, <1>3, <1>6 DEF Picture

\* What is said of the anchors, of the same job: it changes with the images it names, and with what was lost.
LEMMA AnchorsStay ==
  ASSUME plan' = plan
  PROVE  /\ (lost' = lost /\ named' = named) => \A n : Carried(n)' <=> Carried(n)
         /\ \A n, i : RunAnchor(n, i)' <=> RunAnchor(n, i)
  BY PlanStays DEF Carried, RunAnchor

\* The chain as a run finds it.
LEMMA SegmentedFields ==
  ASSUME ColorTypeOK
  PROVE  LET c == Segmented(number)
             starts == number > 1 /\ ~run_needs_visual_input(number)
         IN  /\ c \in ChainStates
             /\ c.first_image = chain.first_image
             /\ c.anchor = (IF starts THEN None ELSE chain.anchor)
             /\ c.segmented <=> (chain.segmented \/ starts)
             /\ c.segment_first_image =
                  IF starts THEN None
                  ELSE IF chain.segmented /\ chain.segment_first_image = None /\ run_needs_visual_input(number)
                  THEN DurableInput(number) ELSE chain.segment_first_image
<1>1. DurableInput(number) \in Images /\ None \in Images
  BY PlanShape DEF DurableInput, Images, ColorTypeOK, ChainRuns
<1> QED
  BY <1>1 DEF Segmented, ColorTypeOK, ChainStates

\* A run's image is there, and so is what it is measured against.
LEMMA MeasuredHeld ==
  ASSUME ColorInv, phase = "run", named = FirstImage
  PROVE  LET c == Segmented(number)
         IN  /\ number > 1 => DurableInput(number) \in (disk \cup {None}) \ {Temporary}
             /\ MeasuredAgainst(c) \in (disk \cup {None}) \ {Temporary}
             /\ {c.first_image, c.anchor, c.segment_first_image} \subseteq (disk \cup {None}) \ {Temporary}
             /\ number = 1 /\ run_needs_visual_input(1) => MeasuredAgainst(c) = FirstImage
<1>1. number > 1 => DurableInput(number) \in (disk \cup {None}) \ {Temporary}
  BY ImagesDiffer DEF ColorInv, HeldImages, DurableInput
<1>2. number = 1 => ~chain.segmented
  BY DEF ColorInv, FirstImageKept
<1>3. number \in Nat \ {0}
  BY PlanShape DEF ColorInv, ColorTypeOK
<1> DEFINE c == Segmented(number)
<1>4. ColorTypeOK /\ {chain.first_image, chain.anchor, chain.segment_first_image} \subseteq (disk \cup {None}) \ {Temporary}
  BY DEF ColorInv, HeldImages
<1>5. {c.first_image, c.anchor, c.segment_first_image} \subseteq (disk \cup {None}) \ {Temporary}
  BY <1>1, <1>2, <1>3, <1>4, ImagesDiffer, SegmentedFields
<1>6. number = 1 => ~c.segmented /\ c.first_image = chain.first_image
  BY <1>2, <1>4, SegmentedFields
<1>7. number = 1 /\ run_needs_visual_input(1) => chain.first_image = FirstImage
  BY DEF ColorInv, FirstImageKept
<1> HIDE DEF c
<1> QED
  BY <1>1, <1>5, <1>6, <1>7 DEF MeasuredAgainst, c

\* A run is prepared with images that are there.
LEMMA PreparedHeld ==
  ASSUME ColorInv, phase = "run", named = FirstImage
  PROVE  LET p == prepare_run(number, Segmented(number))
         IN  p.chain_anchor \in (disk \cup {None}) \ {Temporary} /\ p.record_anchor \in (disk \cup {None}) \ {Temporary}
<1> DEFINE c == Segmented(number)
           There == (disk \cup {None}) \ {Temporary}
<1>1. None \in There
  BY ImagesDiffer
<1>2. c.anchor \in There /\ MeasuredAgainst(c) \in There /\ (number > 1 => DurableInput(number) \in There)
  BY MeasuredHeld
<1>3. number = 1 /\ run_needs_visual_input(1) => MeasuredAgainst(c) = FirstImage
  BY MeasuredHeld
<1>4. number \in ChainRuns /\ number \in Nat \ {0} /\ FirstImage # None
  BY PlanShape, ImagesDiffer DEF ColorInv, ColorTypeOK
<1> HIDE DEF c, There
<1>5. H3Anchor(number, c) \in There
  <2>1. CASE number = 1 /\ ~run_needs_visual_input(1)
    BY <1>1, <1>2, <2>1 DEF H3Anchor, DurableInput, ChangedPair
  <2>2. CASE number = 1 /\ run_needs_visual_input(1)
    BY <1>1, <1>2, <1>3, <1>4, <2>2 DEF H3Anchor, ChangedPair
  <2>3. CASE number > 1
    BY <1>1, <1>2, <2>3 DEF H3Anchor
  <2> QED BY <1>4, <2>1, <2>2, <2>3
<1>6. DrawAnchor(number, c) \in There
  BY <1>1, <1>2, <1>4 DEF DrawAnchor, ChangedPair
<1> QED
  BY <1>1, <1>5, <1>6 DEF prepare_run, c, There

\* Whatever a run is prepared with is an image, or none.
LEMMA PreparedShape ==
  ASSUME ColorTypeOK
  PROVE  LET c == Segmented(number)
             p == prepare_run(number, c)
         IN  p.chain_anchor \in Images /\ p.record_anchor \in Images /\ DurableInput(number) \in Images /\ MeasuredAgainst(c) \in Images
<1> DEFINE c == Segmented(number)
<1>1. DurableInput(number) \in Images /\ None \in Images
  BY PlanShape DEF DurableInput, Images, ColorTypeOK, ChainRuns
<1>2. c.anchor \in Images /\ MeasuredAgainst(c) \in Images
  BY SegmentedFields DEF ChainStates, MeasuredAgainst
<1> HIDE DEF c
<1> QED
  BY <1>1, <1>2 DEF prepare_run, H3Anchor, DrawAnchor, c

\* A run whose chain the code carries is prepared with the documented anchor.
LEMMA PreparedAsPlanned ==
  ASSUME ColorInv, phase = "run", Carried(number)
  PROVE  LET p == prepare_run(number, Segmented(number))
         IN  RunAnchor(number, p.record_anchor) /\ p.chain_anchor = p.record_anchor
<1> DEFINE n == number
           c == Segmented(n)
           p == prepare_run(n, c)
<1>0. n \in ChainRuns /\ n \in Nat \ {0} /\ (n > 1 => n - 1 \in ChainRuns) /\ ColorTypeOK
  BY PlanShape DEF ColorInv, ColorTypeOK, ChainRuns
<1>1. CASE ~run_needs_visual_input(n)
  <2>1. plan[n].kind \in {"t2v", "r2av"} /\ ~Holds(n)
    BY <1>0, <1>1, LookersLook DEF Holds
  <2>2. c.anchor = None
    BY <1>0, <1>1, SegmentedFields DEF ColorInv, FirstImageKept
  <2> HIDE DEF c, n
  <2>3. p.record_anchor = None /\ p.chain_anchor = None
    BY <2>1, <2>2 DEF prepare_run, H3Anchor, DrawAnchor, H3Pipelines
  <2> QED
    BY <1>1, <2>3 DEF RunAnchor, n, c
<1>2. CASE run_needs_visual_input(n)
  <2>1. LooksForAnchor(n) /\ plan[n].kind \in {"i2v", "i2av"} /\ (plan[n].kind = "i2v" => Holds(n))
    BY <1>0, <1>2 DEF Carried, LooksForAnchor, H3Pipelines, Holds, run_needs_visual_input, Conditioned, IsVideo
  <2>2. DurableInput(n) = IF n = 1 THEN Temporary ELSE Handoff(n - 1)
    BY <1>2 DEF DurableInput
  <2>3. p.chain_anchor = p.record_anchor /\
        p.record_anchor = IF plan[n].kind = "i2av" THEN H3Anchor(n, c) ELSE DrawAnchor(n, c)
    BY <2>1 DEF prepare_run, H3Pipelines
  <2>4. n > 1 => (Moves(n, n) <=> (ChangedPair(n) /\ plan[n].reanchor))
    <3>1. ~\E b \in (n + 1) .. n : Breaks(b)
      BY <1>0
    <3> QED
      BY <1>0, <1>2, <2>1, <3>1 DEF Moves, SegmentOf
  <2>5. CASE n = 1
    <3>1. MeasuredAgainst(c) = FirstImage /\ FirstImage # None
      BY <1>2, <2>5, MeasuredHeld, ImagesDiffer DEF Carried
    <3>2. c.anchor = None /\ ~ChangedPair(n)
      BY <2>5, SegmentedFields DEF ColorInv, FirstImageKept, ChangedPair
    <3>3. PlannedAnchor(1) = FirstImage
      BY <1>0, <1>2, <2>5, PlannedFirst
    <3> HIDE DEF c, n
    <3>4. p.record_anchor = FirstImage
      BY <2>1, <2>3, <2>5, <3>1, <3>2 DEF H3Anchor, DrawAnchor
    <3> HIDE DEF p
    <3>5. RunAnchor(n, p.record_anchor)
      BY <1>2, <2>5, <3>1, <3>3, <3>4 DEF RunAnchor
    <3> QED
      BY <2>3, <3>5 DEF n, c, p
  <2>6. CASE n > 1 /\ run_needs_visual_input(n - 1)
    <3>1. RunAnchor(n - 1, chain.anchor)
      BY <1>0, <2>6 DEF ColorInv, AnchorInv, Carried
    <3>2. c.anchor = chain.anchor /\ c.anchor # None
      BY <1>2, <1>0, <2>6, <3>1, SegmentedFields DEF RunAnchor
    <3>3. Handoff(n - 1) # None
      BY ImagesDiffer
    <3>4. CASE Moves(n, n)
      <4>1. Picture(PlannedAnchor(n)) = Handoff(n - 1)
        BY <1>0, <1>2, <2>6, <3>4, PlannedHere
      <4>2. Picture(Handoff(n - 1)) = Handoff(n - 1)
        BY ImagesDiffer DEF Picture
      <4>3. ChangedPair(n) /\ plan[n].reanchor
        BY <2>4, <2>6, <3>4
      <4> HIDE DEF c, n
      <4>4. p.record_anchor = Handoff(n - 1)
        BY <2>1, <2>2, <2>3, <2>6, <3>2, <4>3 DEF H3Anchor, DrawAnchor
      <4> HIDE DEF p
      <4>5. RunAnchor(n, p.record_anchor)
        BY <1>2, <3>3, <4>1, <4>2, <4>4 DEF RunAnchor
      <4> QED
        BY <2>3, <4>5 DEF n, c, p
    <3>5. CASE ~Moves(n, n)
      <4>1. PlannedAnchor(n) = PlannedAnchor(n - 1)
        BY <1>0, <1>2, <2>6, <3>5, PlannedBefore
      <4>3. ~(ChangedPair(n) /\ plan[n].reanchor)
        BY <2>4, <2>6, <3>5
      <4>3a. chain.anchor # None /\ Picture(chain.anchor) = Picture(PlannedAnchor(n - 1))
        BY <2>6, <3>1 DEF RunAnchor
      <4> HIDE DEF c, n
      <4>4. p.record_anchor = chain.anchor
        BY <2>1, <2>2, <2>3, <2>6, <3>2, <4>3 DEF H3Anchor, DrawAnchor
      <4> HIDE DEF p
      <4>5. RunAnchor(n, p.record_anchor)
        BY <1>2, <4>1, <4>3a, <4>4 DEF RunAnchor
      <4> QED
        BY <2>3, <4>5 DEF n, c, p
    <3> QED BY <3>4, <3>5
  <2>7. CASE n > 1 /\ ~run_needs_visual_input(n - 1)
    <3>1. RunAnchor(n - 1, chain.anchor) /\ Stands(n - 1) /\ IsVideo(1)
      BY <1>0, <2>7 DEF ColorInv, AnchorInv, Carried
    <3>2. c.anchor = None
      BY <1>0, <1>2, <2>7, <3>1, SegmentedFields DEF RunAnchor
    <3>3. Picture(PlannedAnchor(n)) = Handoff(n - 1) /\ Handoff(n - 1) # None /\ FirstImage # None
      BY <1>0, <1>2, <2>7, PlannedHere, ImagesDiffer
    <3>4. plan[n].kind = "i2v" => MeasuredAgainst(c) \in {FirstImage, Handoff(n - 1)} /\ (MeasuredAgainst(c) = FirstImage => n = 2 /\ plan[1].kind = "t2v")
      <4> SUFFICES ASSUME plan[n].kind = "i2v"
                   PROVE  MeasuredAgainst(c) \in {FirstImage, Handoff(n - 1)} /\ (MeasuredAgainst(c) = FirstImage => n = 2 /\ plan[1].kind = "t2v")
        OBVIOUS
      <4>1. plan[1].kind # "r2av"
        <5>1. n \in 1 .. n
          BY <1>0
        <5> QED BY <5>1 DEF Carried, H3Pipelines
      <4>2. CASE n = 2
        <5>1. plan[1].kind = "t2v"
          BY <1>0, <2>7, <4>1, <4>2, LookersLook, PlanShape
        <5>2. ~chain.segmented /\ chain.first_image = FirstImage
          BY <2>7, <3>1, <4>2, <5>1 DEF Stands
        <5> QED
          BY <1>2, <1>0, <4>2, <5>1, <5>2, SegmentedFields DEF MeasuredAgainst
      <4>3. CASE n # 2
        <5>1. chain.segmented /\ chain.segment_first_image = None
          BY <1>0, <2>7, <3>1, <4>3 DEF Stands
        <5>2. MeasuredAgainst(c) = DurableInput(n)
          BY <1>2, <1>0, <5>1, SegmentedFields DEF MeasuredAgainst
        <5> QED BY <2>2, <2>7, <5>2, ImagesDiffer
      <4> QED BY <4>2, <4>3
    <3> HIDE DEF c, n
    <3>5. p.record_anchor \in {FirstImage, Handoff(n - 1)} /\ (p.record_anchor = FirstImage => n = 2 /\ plan[1].kind = "t2v")
      BY <2>1, <2>2, <2>3, <2>7, <3>2, <3>4, ImagesDiffer DEF H3Anchor, DrawAnchor
    <3> HIDE DEF p
    <3>6. Picture(p.record_anchor) = Handoff(n - 1)
      BY <3>5, ImagesDiffer DEF Picture
    <3>7. RunAnchor(n, p.record_anchor)
      BY <1>2, <3>3, <3>5, <3>6 DEF RunAnchor
    <3> QED
      BY <2>3, <3>7 DEF n, c, p
  <2> QED BY <1>0, <2>5, <2>6, <2>7
<1> QED
  BY <1>1, <1>2

LEMMA ColorInvInit ==
  ASSUME ChainInit
  PROVE  ColorInv
<1>1. PICK p \in Plans : ChainStart(p)
  BY DEF ChainInit
<1>2. plan \in Plans /\ Len(plan) \in Nat \ {0} /\ 1 \in ChainRuns /\ plan = p
  BY <1>1, ChainAssumption DEF ChainStart, ChainRuns
<1>3. ColorTypeOK
  BY <1>1, <1>2, ImagesDiffer DEF ChainStart, ColorTypeOK, ChainStates, ChainRecords, Images, NoRecord, ChainRuns, Resumed
<1>4. RunsInOrder /\ HeldImages /\ FirstImageKept /\ AnchorInv
  BY <1>1, <1>2, <1>3, PlanShape, ImagesDiffer
     DEF ChainStart, RunsInOrder, HeldImages, FirstImageKept, AnchorInv, NoRecord, Resumed, Done
<1> QED
  BY <1>3, <1>4 DEF ColorInv

LEMMA StartRunKeeps ==
  ASSUME ColorInv, StartRun
  PROVE  ColorInv' /\ HeldToFile
<1> DEFINE n == number
           c == Segmented(number)
           p == prepare_run(number, c)
           run == [succeeded |-> FALSE, input |-> DurableInput(number), anchor |-> p.record_anchor, first_image |-> MeasuredAgainst(c)]
<1>0. /\ phase = "run" /\ phase' = "running" /\ chain' = [c EXCEPT !.anchor = p.chain_anchor]
      /\ record' = [record EXCEPT ![number] = run]
      /\ UNCHANGED <<plan, start, number, named, disk, resumes, lost>>
  BY DEF StartRun
<1>1. ColorTypeOK /\ number \in ChainRuns /\ number \in Nat \ {0} /\ ChainRuns \subseteq Nat
  BY PlanShape DEF ColorInv, ColorTypeOK
<1>2. p.chain_anchor \in Images /\ run \in ChainRecords /\ c \in ChainStates
  BY <1>1, PreparedShape, SegmentedFields DEF ChainRecords
<1>3. /\ named = FirstImage => p.chain_anchor \in (disk \cup {None}) \ {Temporary} /\ run.anchor \in (disk \cup {None}) \ {Temporary}
                               /\ run.first_image \in (disk \cup {None}) \ {Temporary}
  BY <1>0, PreparedHeld, MeasuredHeld
<1>4. Carried(n) => RunAnchor(n, run.anchor) /\ p.chain_anchor = run.anchor
  BY <1>0, PreparedAsPlanned
<1>5. /\ named = FirstImage => {c.first_image, c.segment_first_image} \subseteq (disk \cup {None}) \ {Temporary}
      /\ c.first_image = chain.first_image
      /\ c.segmented <=> (chain.segmented \/ (n > 1 /\ ~run_needs_visual_input(n)))
      /\ n > 1 /\ ~run_needs_visual_input(n) => c.segment_first_image = None
  BY <1>0, <1>1, MeasuredHeld, SegmentedFields
<1>6. /\ chain'.first_image = c.first_image /\ chain'.segmented = c.segmented
      /\ chain'.segment_first_image = c.segment_first_image /\ chain'.anchor = p.chain_anchor /\ chain' \in ChainStates
  BY <1>0, <1>2 DEF ChainStates
<1>7. /\ record'[n] = run /\ \A m \in ChainRuns : m # n => record'[m] = record[m]
      /\ record' \in [ChainRuns -> ChainRecords]
  BY <1>0, <1>1, <1>2 DEF ColorTypeOK
<1> HIDE DEF c, p, run
<1>8. run.succeeded = FALSE
  BY DEF run
<1>9. /\ ChainRuns' = ChainRuns /\ Images' = Images /\ ChainStates' = ChainStates /\ ChainRecords' = ChainRecords
      /\ \A m : (run_needs_visual_input(m)' <=> run_needs_visual_input(m)) /\ (IsVideo(m)' <=> IsVideo(m))
      /\ \A m : Carried(m)' <=> Carried(m)
      /\ \A m, i : RunAnchor(m, i)' <=> RunAnchor(m, i)
  BY <1>0, PlanStays, AnchorsStay DEF Images, ChainStates, ChainRecords
<1>10. ColorTypeOK'
  BY <1>0, <1>1, <1>6, <1>7, <1>9 DEF ColorTypeOK, Resumed
<1>11. RunsInOrder'
  BY <1>0, <1>1, <1>7, <1>8, <1>9 DEF ColorInv, RunsInOrder, Resumed
<1>12. HeldImages'
  BY <1>0, <1>1, <1>3, <1>5, <1>6, <1>9 DEF ColorInv, HeldImages
<1>13. FirstImageKept'
  BY <1>0, <1>1, <1>5, <1>6, <1>7, <1>8, <1>9 DEF ColorInv, FirstImageKept, Resumed
<1>14. AnchorInv'
  <2>1. ASSUME NEW m \in ChainRuns, Done(m)', Carried(m)
        PROVE  RunAnchor(m, record'[m].anchor)
    <3>1. CASE m = n
      BY <1>4, <1>7, <2>1, <3>1
    <3>2. CASE m # n
      BY <1>0, <1>7, <2>1, <3>2 DEF Done, ColorInv, AnchorInv
    <3> QED BY <3>1, <3>2
  <2>2. ASSUME NEW m \in ChainRuns, record'[m].succeeded, Carried(m)
        PROVE  record'[m].anchor \in disk \cup {None}
    BY <1>7, <1>8, <2>2 DEF ColorInv, AnchorInv
  <2>3. ASSUME Carried(n)
        PROVE  /\ chain'.anchor = record'[n].anchor
               /\ run_needs_visual_input(n) \/ (IF n = 1 THEN ~chain'.segmented ELSE chain'.segmented /\ chain'.segment_first_image = None)
    <3>1. n = 1 => ~chain.segmented
      BY <1>0, <2>3 DEF Carried, ColorInv, FirstImageKept
    <3> QED
      BY <1>1, <1>4, <1>5, <1>6, <1>7, <2>3, <3>1
  <2> QED
    BY <1>0, <1>9, <2>1, <2>2, <2>3 DEF AnchorInv
<1>15. HeldToFile
  BY <1>0, <1>3, <1>7 DEF HeldToFile, run
<1> QED
  BY <1>10, <1>11, <1>12, <1>13, <1>14, <1>15 DEF ColorInv

LEMMA FinishRunKeeps ==
  ASSUME ColorInv, FinishRun
  PROVE  ColorInv'
<1>n. PICK n : n = number
  OBVIOUS
<1>0. PICK ok \in BOOLEAN, kept \in BOOLEAN :
        LET handoff == IF ok THEN {Handoff(number)} ELSE {}
            firstImage == IF FreshT2v /\ ok /\ kept THEN {FirstImage} ELSE {} IN
        /\ record' = [record EXCEPT ![number].succeeded = ok]
        /\ disk' = (disk \cup handoff \cup firstImage) \ (IF number = 1 THEN {Temporary} ELSE {})
        /\ named' = IF FreshT2v /\ firstImage = {} THEN None ELSE named
        /\ chain' = IF firstImage # {} THEN [chain EXCEPT !.first_image = FirstImage] ELSE chain
        /\ \/ ok /\ number < Len(plan) /\ phase' = "run" /\ number' = number + 1
           \/ phase' = "ended" /\ UNCHANGED number
  BY DEF FinishRun
<1>1. phase = "running" /\ UNCHANGED <<plan, start, resumes, lost>>
  BY DEF FinishRun
<1>2. ColorTypeOK /\ n \in ChainRuns /\ n \in Nat \ {0} /\ ChainRuns = 1 .. Len(plan) /\ Len(plan) \in Nat
  BY <1>n, PlanShape DEF ColorInv, ColorTypeOK, ChainRuns
<1>3. /\ record'[n].succeeded = ok /\ record'[n].anchor = record[n].anchor /\ record'[n].input = record[n].input
      /\ \A m \in ChainRuns : m # n => record'[m] = record[m]
      /\ record' \in [ChainRuns -> ChainRecords]
  BY <1>n, <1>0, <1>2 DEF ColorTypeOK, ChainRecords
<1>4. /\ disk' \subseteq Images \ {None} /\ \A i \in disk \ {Temporary} : i \in disk'
      /\ n > 1 => disk \subseteq disk'
      /\ ok => Handoff(n) \in disk'
  BY <1>n, <1>0, <1>2, ImagesDiffer DEF ColorTypeOK, Images
<1>5. /\ named' \in {None, named} /\ (named' = FirstImage /\ FreshT2v => ok /\ kept)
      /\ chain' = IF FreshT2v /\ ok /\ kept THEN [chain EXCEPT !.first_image = FirstImage] ELSE chain
      /\ FreshT2v /\ ok /\ kept => FirstImage \in disk'
  BY <1>n, <1>0, ImagesDiffer
<1>6. /\ chain'.anchor = chain.anchor /\ chain'.segmented = chain.segmented /\ chain'.segment_first_image = chain.segment_first_image
      /\ chain'.first_image = (IF FreshT2v /\ ok /\ kept THEN FirstImage ELSE chain.first_image)
      /\ chain' \in ChainStates
  BY <1>2, <1>5 DEF ColorTypeOK, ChainStates, Images
<1>7. (ok /\ phase' = "run" /\ number' = n + 1 /\ n < Len(plan)) \/ (phase' = "ended" /\ number' = n)
  BY <1>n, <1>0
<1>8. /\ ChainRuns' = ChainRuns /\ Images' = Images /\ ChainStates' = ChainStates /\ ChainRecords' = ChainRecords
      /\ \A m : (run_needs_visual_input(m)' <=> run_needs_visual_input(m)) /\ (IsVideo(m)' <=> IsVideo(m))
      /\ \A m, i : RunAnchor(m, i)' <=> RunAnchor(m, i)
  BY <1>1, PlanStays, AnchorsStay DEF Images, ChainStates, ChainRecords
<1>9. \A m : Carried(m)' => Carried(m)
  <2>1. \A m : Carried(m)' => named = FirstImage
    BY <1>5, ImagesDiffer DEF Carried
  <2> QED
    BY <1>1, <2>1, PlanStays DEF Carried
<1>10. ColorTypeOK'
  BY <1>n, <1>1, <1>2, <1>3, <1>4, <1>5, <1>6, <1>7, <1>8 DEF ColorTypeOK, Resumed
<1>11. RunsInOrder'
  BY <1>n, <1>1, <1>2, <1>3, <1>7, <1>8 DEF ColorInv, RunsInOrder, Resumed
<1>12. HeldImages'
  <2>0. Temporary \notin disk'
    <3>1. CASE n = 1
      BY <1>n, <1>0, <3>1
    <3>2. CASE n > 1
      BY <1>n, <1>0, <3>2, ImagesDiffer DEF ColorInv, HeldImages
    <3> QED BY <1>2, <3>1, <3>2
  <2>1. phase' = "run" => Handoff(number' - 1) \in disk'
    BY <1>n, <1>2, <1>4, <1>7
  <2>2. named' = FirstImage => named = FirstImage /\ IsVideo(1)
    BY <1>1, <1>5, ImagesDiffer DEF ColorInv, HeldImages
  <2>3. named' = FirstImage => {chain'.first_image, chain'.anchor, chain'.segment_first_image} \subseteq (disk' \cup {None}) \ {Temporary}
    <3>1. named' = FirstImage => {chain.first_image, chain.anchor, chain.segment_first_image} \subseteq (disk' \cup {None}) \ {Temporary}
      BY <1>1, <1>4, <2>2 DEF ColorInv, HeldImages
    <3> QED
      BY <1>5, <1>6, <3>1, ImagesDiffer
  <2> QED
    BY <1>7, <1>8, <2>0, <2>1, <2>2, <2>3 DEF HeldImages
<1>12a. plan[1].kind = "t2v" /\ n = 1 => (FreshT2v <=> ~Resumed)
  BY <1>n DEF FreshT2v
<1>12b. n = 1 => ~Resumed
  BY <1>n, <1>2 DEF ColorTypeOK
<1>13. FirstImageKept'
  <2>1. plan[1].kind = "t2v" /\ named' = FirstImage /\ record'[1].succeeded /\ lost = 0 => FirstImage \in disk'
    <3>1. CASE n = 1
      BY <1>n, <1>5, <1>12a, <1>12b, <3>1
    <3>2. CASE n # 1
      BY <1>n, <1>1, <1>2, <1>3, <1>4, <1>5, <3>2, PlanShape, ImagesDiffer DEF ColorInv, FirstImageKept
    <3> QED BY <3>1, <3>2
  <2>2. phase' \notin {"open", "running"} /\ (phase' = "run" => number' # 1)
    BY <1>2, <1>7
  <2> QED
    BY <1>1, <2>1, <2>2 DEF FirstImageKept
<1>14. AnchorInv'
  <2>1. ASSUME NEW m \in ChainRuns, Done(m)', Carried(m)'
        PROVE  RunAnchor(m, record'[m].anchor)
    <3>1. Done(m) /\ Carried(m) /\ record'[m].anchor = record[m].anchor
      BY <1>n, <1>1, <1>3, <1>7, <1>9, <2>1 DEF Done
    <3> QED BY <3>1 DEF ColorInv, AnchorInv
  <2>2. ASSUME NEW m \in ChainRuns, record'[m].succeeded, Carried(m)'
        PROVE  record'[m].anchor \in disk' \cup {None}
    <3>1. CASE m = n
      <4>1. Carried(n) /\ named = FirstImage
        BY <1>9, <2>2, <3>1 DEF Carried
      <4>2. record'[m].anchor = chain.anchor
        BY <1>n, <1>1, <1>3, <3>1, <4>1 DEF ColorInv, AnchorInv
      <4> QED
        BY <1>1, <1>4, <4>1, <4>2 DEF ColorInv, HeldImages
    <3>2. CASE m # n
      <4>1. record'[m] = record[m] /\ Carried(m) /\ record[m].anchor \in disk \cup {None}
        BY <1>3, <1>9, <2>2, <3>2 DEF ColorInv, AnchorInv
      <4>2. CASE n > 1
        BY <1>4, <4>1, <4>2
      <4>3. CASE n = 1
        BY <1>n, <1>1, <1>2, <1>3, <2>2, <3>2, <4>1, <4>3 DEF ColorInv, RunsInOrder
      <4> QED BY <1>2, <4>2, <4>3
    <3> QED BY <3>1, <3>2
  <2>3. ASSUME phase' = "run", Carried(n)'
        PROVE  RunAnchor(n, chain'.anchor) /\ Stands(n)'
    <3>0. Carried(n) /\ named = FirstImage /\ named' = FirstImage
      BY <1>9, <2>3 DEF Carried
    <3>1. RunAnchor(n, record[n].anchor) /\ chain.anchor = record[n].anchor
      BY <1>n, <1>1, <1>2, <3>0 DEF ColorInv, AnchorInv, Done
    <3>2. n = 1 /\ plan[1].kind = "t2v" => chain'.first_image = FirstImage
      BY <1>5, <1>6, <1>12a, <1>12b, <3>0
    <3>3. Stands(n)'
      BY <1>n, <1>1, <1>6, <1>8, <3>0, <3>2 DEF Stands, ColorInv, AnchorInv
    <3> QED
      BY <1>6, <3>1, <3>3
  <2>4. phase' # "running" /\ (phase' = "run" => number' - 1 = n)
    BY <1>2, <1>7
  <2> QED
    BY <1>8, <2>1, <2>2, <2>3, <2>4 DEF AnchorInv
<1> QED
  BY <1>10, <1>11, <1>12, <1>13, <1>14 DEF ColorInv

LEMMA KeepFirstImageKeeps ==
  ASSUME ColorInv, KeepFirstImage
  PROVE  ColorInv'
<1>0. phase = "open" /\ phase' = "run" /\ UNCHANGED <<plan, start, number, record, resumes, lost>>
  BY DEF KeepFirstImage
<1>1. ColorTypeOK /\ number \in ChainRuns /\ number \in Nat \ {0} /\ number = start /\ (Resumed <=> start > 1) /\ 1 \in ChainRuns
  BY <1>0, PlanShape DEF ColorInv, ColorTypeOK
<1>2. /\ ChainRuns' = ChainRuns /\ Images' = Images /\ ChainStates' = ChainStates /\ ChainRecords' = ChainRecords
      /\ \A m : (run_needs_visual_input(m)' <=> run_needs_visual_input(m)) /\ (IsVideo(m)' <=> IsVideo(m))
      /\ \A m, i : RunAnchor(m, i)' <=> RunAnchor(m, i)
  BY <1>0, PlanStays, AnchorsStay DEF Images, ChainStates, ChainRecords
<1>3. {None, Temporary, FirstImage} \subseteq Images
  BY DEF Images
<1>4. disk \subseteq disk' /\ disk' \subseteq disk \cup {Temporary, FirstImage}
  BY DEF KeepFirstImage
<1>5. \A i : OnDisk(i) \in (disk \cup {None}) /\ (OnDisk(i) = None \/ OnDisk(i) = i) /\ (i \in disk => OnDisk(i) = i)
  BY DEF OnDisk
<1>6. AfterBreak \in BOOLEAN /\ (number > 1 /\ ~run_needs_visual_input(number - 1) /\ number - 1 > 1 => AfterBreak)
      /\ (number <= 2 => ~AfterBreak)
  <2>1. number > 1 /\ number - 1 > 1 => number - 1 \in 2 .. (start - 1)
    BY <1>1
  <2>2. number <= 2 => 2 .. (start - 1) = {}
    BY <1>1
  <2> QED
    BY <2>1, <2>2 DEF AfterBreak
<1>7. chain' \in ChainStates /\ named' \in {None, FirstImage}
  <2>1. \A i \in {None, FirstImage}, b \in BOOLEAN :
          FreshChain(i) \in ChainStates /\ [FreshChain(i) EXCEPT !.segmented = b] \in ChainStates
    BY <1>3 DEF FreshChain, ChainStates
  <2>2. OnDisk(named) \in {None, FirstImage}
    BY <1>1, <1>5 DEF ColorTypeOK
  <2>3. ASSUME Resumed
        PROVE  ResumedChain \in ChainStates
    <3>1. start - 1 \in ChainRuns
      BY <1>1, <2>3, PlanShape
    <3>2. record[start - 1].anchor \in Images
      BY <1>1, <3>1 DEF ColorTypeOK, ChainRecords
    <3>3. OnDisk(record[start - 1].anchor) \in Images
      BY <1>3, <1>5, <3>2
    <3> QED
      BY <1>3, <1>6, <2>2, <3>3 DEF ResumedChain, ChainStates
  <2>4. CASE ~IsVideo(1)
    BY <1>6, <2>1, <2>4 DEF KeepFirstImage
  <2>5. CASE IsVideo(1) /\ Resumed
    BY <2>2, <2>3, <2>5 DEF KeepFirstImage
  <2>6. CASE IsVideo(1) /\ ~Resumed
    BY <2>1, <2>6 DEF KeepFirstImage
  <2> QED BY <2>4, <2>5, <2>6
<1>8. ColorTypeOK'
  BY <1>0, <1>1, <1>2, <1>3, <1>4, <1>7, ImagesDiffer DEF ColorTypeOK, Resumed
<1>9. RunsInOrder'
  BY <1>0, <1>2 DEF ColorInv, RunsInOrder, Resumed
<1>10. \* a resumed execution that still names its first image
      ASSUME number > 1, named' = FirstImage
      PROVE  /\ IsVideo(1) /\ named = FirstImage /\ FirstImage \in disk /\ disk' = disk
             /\ chain' = ResumedChain
  BY <1>0, <1>1, <1>5, <1>10, ImagesDiffer DEF KeepFirstImage
<1>11. \* a fresh one
      ASSUME number = 1, named' = FirstImage
      PROVE  /\ IsVideo(1) /\ chain'.anchor = None /\ ~chain'.segmented /\ chain'.segment_first_image = None
             /\ chain'.first_image = (IF run_needs_visual_input(1) THEN FirstImage ELSE None)
             /\ run_needs_visual_input(1) => FirstImage \in disk'
  BY <1>0, <1>1, <1>6, <1>11, ImagesDiffer DEF KeepFirstImage, FreshChain
<1>12. HeldImages'
  <2>1. number > 1 => Handoff(number - 1) \in disk'
    BY <1>0, <1>4 DEF ColorInv, HeldImages
  <2>2. named' = FirstImage =>
          IsVideo(1) /\ {chain'.first_image, chain'.anchor, chain'.segment_first_image} \subseteq (disk' \cup {None}) \ {Temporary}
    <3>1. CASE number = 1
      BY <1>11, <3>1, ImagesDiffer
    <3>2. ASSUME number > 1, named' = FirstImage
          PROVE  {chain'.first_image, chain'.anchor, chain'.segment_first_image} \subseteq (disk' \cup {None}) \ {Temporary}
      <4>1. chain' = ResumedChain /\ disk' = disk /\ named = FirstImage /\ FirstImage \in disk
        BY <1>10, <3>2
      <4>2. record[start - 1].anchor # Temporary \/ Temporary \notin disk
        BY <3>2 DEF ColorInv, HeldImages
      <4>3. OnDisk(record[start - 1].anchor) \in (disk \cup {None}) \ {Temporary}
        BY <1>5, <4>2, ImagesDiffer
      <4> QED
        BY <4>1, <4>3, <1>5, ImagesDiffer DEF ResumedChain
    <3> QED BY <1>1, <1>10, <3>1, <3>2
  <2>3. number > 1 => Temporary \notin disk'
    <3>1. number > 1 => Temporary \notin disk /\ start # 1 /\ Resumed
      BY <1>1 DEF ColorInv, HeldImages
    <3> QED
      BY <3>1, ImagesDiffer DEF KeepFirstImage
  <2> QED
    BY <1>0, <1>2, <2>1, <2>2, <2>3 DEF HeldImages
<1>13. FirstImageKept'
  <2>1. named' = FirstImage /\ number = 1 => ~chain'.segmented /\ (run_needs_visual_input(1) => chain'.first_image = FirstImage)
    BY <1>11
  <2>2. number = 1 => chain'.anchor = None
    BY <1>1 DEF KeepFirstImage, FreshChain
  <2>3. plan[1].kind = "t2v" /\ named' = FirstImage /\ record[1].succeeded /\ lost = 0 => FirstImage \in disk'
    <3>1. CASE number = 1
      BY <1>0, <1>1, <3>1 DEF ColorInv, RunsInOrder
    <3>2. CASE number > 1
      BY <1>10, <3>2
    <3> QED BY <1>1, <3>1, <3>2
  <2> QED
    BY <1>0, <1>2, <2>1, <2>2, <2>3 DEF FirstImageKept
<1>14. number > 1 => \A m : Carried(m)' => Carried(m)
  BY <1>0, <1>2, <1>10, PlanStays DEF Carried
<1>15. AnchorInv'
  <2>1. CASE number = 1
    <3>1. \A m \in ChainRuns : record[m] = NoRecord
      BY <1>0, <1>1, <2>1 DEF ColorInv, RunsInOrder
    <3>2. \A m \in ChainRuns : ~Done(m)' /\ ~record'[m].succeeded
      BY <1>0, <3>1 DEF Done, NoRecord
    <3> QED
      BY <1>0, <1>2, <2>1, <3>2 DEF AnchorInv
  <2>2. CASE number > 1
    <3>0. PICK k : k = number - 1
      OBVIOUS
    <3>1. k \in ChainRuns /\ k \in Nat \ {0} /\ k < number /\ k = start - 1 /\ k + 1 = number
      BY <1>1, <2>2, <3>0, PlanShape
    <3>2. ASSUME Carried(k)'
          PROVE  RunAnchor(k, chain'.anchor) /\ Stands(k)'
      <4>1. Carried(k) /\ named' = FirstImage
        BY <1>14, <2>2, <3>2 DEF Carried
      <4>2. chain' = ResumedChain /\ FirstImage \in disk
        BY <1>10, <2>2, <4>1
      <4>3. record[k].succeeded
        BY <3>1 DEF ColorInv, RunsInOrder
      <4>4. RunAnchor(k, record[k].anchor) /\ record[k].anchor \in disk \cup {None}
        BY <3>1, <4>1, <4>3 DEF ColorInv, AnchorInv, Done
      <4>5. chain'.anchor = record[k].anchor
        BY <1>5, <3>1, <4>2, <4>4 DEF ResumedChain
      <4>6. chain'.segmented = AfterBreak /\ chain'.segment_first_image = None /\ chain'.first_image = FirstImage
        BY <1>5, <1>10, <2>2, <4>1, <4>2 DEF ResumedChain
      <4>7. Stands(k)'
        <5>1. run_needs_visual_input(k)' <=> run_needs_visual_input(k)
          BY <1>2
        <5>2. CASE run_needs_visual_input(k)
          BY <5>1, <5>2 DEF Stands
        <5>3. CASE ~run_needs_visual_input(k) /\ k = 1
          <6>1. ~AfterBreak
            BY <1>6, <3>1, <5>3
          <6>2. ~chain'.segmented /\ chain'.first_image = FirstImage
            BY <4>6, <6>1
          <6> QED
            BY <5>3, <6>2 DEF Stands
        <5>4. CASE ~run_needs_visual_input(k) /\ k # 1
          <6>1. AfterBreak
            BY <1>6, <3>0, <3>1, <5>4
          <6>2. chain'.segmented /\ chain'.segment_first_image = None
            BY <4>6, <6>1
          <6> QED
            BY <5>4, <6>2 DEF Stands
        <5> QED BY <5>2, <5>3, <5>4
      <4> QED BY <4>4, <4>5, <4>7
    <3>3. \A m \in ChainRuns : Done(m)' => Done(m)
      BY <1>0 DEF Done
    <3>4. \A m \in ChainRuns : record[m].succeeded /\ Carried(m)' => record[m].anchor \in disk' \cup {None}
      BY <1>4, <1>14, <2>2 DEF ColorInv, AnchorInv
    <3> QED
      BY <1>0, <1>2, <1>14, <2>2, <3>0, <3>2, <3>3, <3>4 DEF AnchorInv, ColorInv
  <2> QED BY <1>1, <2>1, <2>2
<1> QED
  BY <1>8, <1>9, <1>12, <1>13, <1>15 DEF ColorInv

LEMMA RemoveKeeps ==
  ASSUME ColorInv, Remove
  PROVE  ColorInv'
<1>1. phase = "ended" /\ UNCHANGED <<plan, phase, start, number, chain, named, record, resumes>> /\ lost' = lost + 1 /\ disk' \subseteq disk
  BY DEF Remove
<1>2. lost' # 0 /\ lost' \in Nat
  BY <1>1 DEF ColorInv, ColorTypeOK
<1>3. \A m : ~Carried(m)'
  BY <1>2 DEF Carried
<1>4. /\ ChainRuns' = ChainRuns /\ Images' = Images /\ ChainStates' = ChainStates /\ ChainRecords' = ChainRecords
  BY <1>1, PlanStays DEF Images, ChainStates, ChainRecords
<1>5. ColorTypeOK'
  BY <1>1, <1>2, <1>4 DEF ColorInv, ColorTypeOK, Resumed
<1>6. RunsInOrder' /\ HeldImages' /\ FirstImageKept'
  BY <1>1, <1>2, <1>4 DEF ColorInv, RunsInOrder, HeldImages, FirstImageKept, Resumed
<1>7. AnchorInv'
  BY <1>1, <1>3 DEF AnchorInv
<1> QED
  BY <1>5, <1>6, <1>7 DEF ColorInv

LEMMA ResumeKeeps ==
  ASSUME ColorInv, Resume
  PROVE  ColorInv'
<1>1. /\ phase = "ended" /\ phase' = "open" /\ UNCHANGED <<plan, chain, named, disk, record, lost>>
      /\ start' = Max(Succeeded) + 1 /\ number' = start' /\ resumes' = resumes + 1
      /\ Succeeded # {} /\ Max(Succeeded) < Len(plan) /\ Handoff(Max(Succeeded)) \in disk
  BY DEF Resume
<1>2. ColorTypeOK /\ ChainRuns = 1 .. Len(plan) /\ Len(plan) \in Nat \ {0} /\ number \in ChainRuns
  BY PlanShape DEF ColorInv, ColorTypeOK, ChainRuns
<1>3. PICK k \in Nat : /\ k = Max(Succeeded) /\ k \in ChainRuns
                      /\ \A m \in ChainRuns : record[m].succeeded <=> m <= k
  <2>1. CASE record[number].succeeded
    <3>1. number \in Succeeded /\ Succeeded \in SUBSET Nat /\ \A m \in Succeeded : m <= number
      BY <1>2, <2>1 DEF Succeeded, ColorInv, RunsInOrder
    <3>2. Max(Succeeded) = number
      BY <3>1, GreatestIsMax
    <3> QED
      BY <1>2, <2>1, <3>2 DEF ColorInv, RunsInOrder
  <2>2. CASE ~record[number].succeeded
    <3>1. number > 1
      BY <1>1, <1>2, <2>2 DEF Succeeded, ColorInv, RunsInOrder
    <3>2. number - 1 \in Succeeded /\ Succeeded \in SUBSET Nat /\ \A m \in Succeeded : m <= number - 1
      BY <1>2, <2>2, <3>1 DEF Succeeded, ColorInv, RunsInOrder
    <3>3. Max(Succeeded) = number - 1
      BY <3>2, GreatestIsMax
    <3> QED
      BY <1>2, <2>2, <3>1, <3>3 DEF ColorInv, RunsInOrder
  <2> QED BY <2>1, <2>2
<1>4. number' = k + 1 /\ start' = k + 1 /\ k + 1 \in ChainRuns /\ Handoff(k) \in disk /\ k >= 1
  BY <1>1, <1>2, <1>3
<1>5. /\ ChainRuns' = ChainRuns /\ Images' = Images /\ ChainStates' = ChainStates /\ ChainRecords' = ChainRecords
      /\ \A m : (run_needs_visual_input(m)' <=> run_needs_visual_input(m)) /\ (IsVideo(m)' <=> IsVideo(m))
      /\ \A m : Carried(m)' <=> Carried(m)
      /\ \A m, i : RunAnchor(m, i)' <=> RunAnchor(m, i)
  BY <1>1, PlanStays, AnchorsStay DEF Images, ChainStates, ChainRecords
<1>6. resumes' \in Nat \ {0}
  BY <1>1, <1>2 DEF ColorTypeOK
<1>7. ColorTypeOK'
  BY <1>1, <1>2, <1>3, <1>4, <1>5, <1>6 DEF ColorTypeOK, Resumed
<1>8. RunsInOrder'
  BY <1>1, <1>2, <1>3, <1>4, <1>5, <1>6 DEF RunsInOrder, Resumed
<1>9. HeldImages' /\ FirstImageKept'
  BY <1>1, <1>3, <1>4, <1>5, <1>6 DEF ColorInv, HeldImages, FirstImageKept, Resumed
<1>10. AnchorInv'
  <2>1. \A m \in ChainRuns : Done(m)' => Done(m)
    BY <1>1 DEF Done
  <2> QED
    BY <1>1, <1>5, <2>1 DEF ColorInv, AnchorInv
<1> QED
  BY <1>7, <1>8, <1>9, <1>10 DEF ColorInv

LEMMA ColorInvNext ==
  ASSUME ColorInv, [ChainNext]_colorVars
  PROVE  ColorInv' /\ HeldToFile
<1>1. ASSUME phase' # "running" \/ phase # "run" PROVE HeldToFile
  BY <1>1 DEF HeldToFile
<1>2. CASE KeepFirstImage
  BY <1>1, <1>2, KeepFirstImageKeeps DEF KeepFirstImage
<1>3. CASE StartRun
  BY <1>3, StartRunKeeps
<1>4. CASE FinishRun
  BY <1>1, <1>4, FinishRunKeeps DEF FinishRun
<1>5. CASE Remove
  BY <1>1, <1>5, RemoveKeeps DEF Remove
<1>6. CASE Resume
  BY <1>1, <1>6, ResumeKeeps DEF Resume
<1>7. CASE UNCHANGED colorVars
  <2>1. /\ ChainRuns' = ChainRuns /\ Images' = Images /\ ChainStates' = ChainStates /\ ChainRecords' = ChainRecords
        /\ \A m : (run_needs_visual_input(m)' <=> run_needs_visual_input(m)) /\ (IsVideo(m)' <=> IsVideo(m))
        /\ \A m : Carried(m)' <=> Carried(m)
        /\ \A m, i : RunAnchor(m, i)' <=> RunAnchor(m, i)
    BY <1>7, PlanStays, AnchorsStay DEF colorVars, Images, ChainStates, ChainRecords
  <2>2. ColorTypeOK'
    BY <1>7, <2>1 DEF colorVars, ColorInv, ColorTypeOK, Resumed
  <2>3. RunsInOrder' /\ HeldImages' /\ FirstImageKept'
    BY <1>7, <2>1 DEF colorVars, ColorInv, RunsInOrder, HeldImages, FirstImageKept, Resumed
  <2>4. AnchorInv'
    <3>1. (\A m : Done(m)' <=> Done(m)) /\ (\A m : Stands(m)' <=> Stands(m))
      BY <1>7, <2>1 DEF colorVars, Done, Stands
    <3> QED
      BY <1>7, <2>1, <3>1 DEF colorVars, ColorInv, AnchorInv
  <2>5. HeldToFile
    BY <1>1, <1>7 DEF colorVars
  <2> QED
    BY <2>2, <2>3, <2>4, <2>5 DEF ColorInv
<1> QED
  BY <1>2, <1>3, <1>4, <1>5, <1>6, <1>7 DEF ChainNext

\* The documented anchor follows from what is kept of the chain.
LEMMA AnchorsPlanned ==
  ASSUME ColorInv
  PROVE  AnchorAsPlanned
<1> SUFFICES ASSUME NEW n \in ChainRuns, record[n].input # None, LooksForAnchor(n), IsVideo(1), lost = 0, named = FirstImage,
                    plan[1].kind = "r2av" => \A m \in 1..n : plan[m].kind \in H3Pipelines,
                    \A m \in 1..(n - 1) : run_needs_visual_input(m) => LooksForAnchor(m)
             PROVE  Picture(record[n].anchor) = Picture(PlannedAnchor(n))
  BY DEF AnchorAsPlanned
<1>1. n \in Nat /\ ColorTypeOK
  BY PlanShape DEF ColorInv
<1>2. run_needs_visual_input(n)
  BY <1>1, LookersLook
<1>3. \A m \in 1 .. n : m = n \/ m \in 1 .. (n - 1)
  BY <1>1
<1>4. Carried(n)
  BY <1>3 DEF Carried
<1>5. RunAnchor(n, record[n].anchor)
  BY <1>4 DEF ColorInv, AnchorInv, Done
<1> QED
  BY <1>2, <1>5 DEF RunAnchor

(* In every job, however often it is resumed, the images a chain keeps are  *)
(* there and its anchors are the documented ones: the inductive invariant.  *)
THEOREM ColorInvThm == ChainSpec => []ColorInv
<1>1. ChainInit => ColorInv
  BY ColorInvInit
<1>2. ColorInv /\ [ChainNext]_colorVars => ColorInv'
  BY ColorInvNext
<1> QED
  BY <1>1, <1>2, PTL DEF ChainSpec

(* Every run that looks for an anchor is held to the documented one over    *)
(* all resumes, and no run starts with an image that is gone.               *)
THEOREM AnchorKeptThm == ChainSpec => AnchorKept
<1>1. ColorInv => AnchorAsPlanned
  BY AnchorsPlanned
<1>2. ColorInv /\ [ChainNext]_colorVars => HeldToFile
  BY ColorInvNext
<1> QED
  BY <1>1, <1>2, ColorInvThm, PTL DEF ChainSpec, AnchorKept
------------------------------------------------------------------------------
(* The tag of a video.                                                        *)

\* What the tag may change: a readable file with a moov and a video track without a colr box.
Taggable(v) == HasBox(v, "moov") /\ VideoTracks(v) # {} /\ ~v.tracks[Min(VideoTracks(v))].colr

\* The file under the name is the one written, or that one patched.
TagInv ==
    /\ original \in Videos
    /\ tagging \in {"reading", "copying", "swapping", "changed", "kept", "refused", "crashed"}
    /\ video = (IF tagging = "changed" THEN _patch_moov(original) ELSE original)
    /\ tagging \in {"copying", "swapping", "changed"} => patched = _patch_moov(original) /\ Taggable(original)
    /\ swap # "none" => tagging \in {"copying", "swapping", "crashed"}

\* The first n sums of b.
Sums(b, g, n) == \A k \in 0 .. n : g[k] = IF k = 0 THEN 0 ELSE g[k - 1] + b[k]

\* The sums exist as far as one likes,
LEMMA SumsReach ==
  ASSUME NEW b, NEW n \in Nat
  PROVE  \E g : Sums(b, g, n)
<1> DEFINE Bad == {k \in Nat : ~\E g : Sums(b, g, k)}
<1> SUFFICES ASSUME Bad # {} PROVE FALSE
  OBVIOUS
<1>1. PICK k \in Bad : \A m \in Bad : k <= m
  BY LeastOfNat
<1>2. CASE k = 0
  <2>1. Sums(b, [m \in {0} |-> 0], k)
    BY <1>2 DEF Sums
  <2> QED BY <1>1, <2>1
<1>3. CASE k > 0
  <2>1. k \in Nat /\ k - 1 \in Nat /\ k - 1 \notin Bad
    BY <1>1, <1>3
  <2>2. PICK g : Sums(b, g, k - 1)
    BY <2>1
  <2> DEFINE h == [m \in 0 .. k |-> IF m = k THEN g[k - 1] + b[k] ELSE g[m]]
  <2>3. ASSUME NEW m \in 0 .. k
        PROVE  h[m] = IF m = 0 THEN 0 ELSE h[m - 1] + b[m]
    <3>1. CASE m = k
      BY <1>3, <2>1, <3>1
    <3>2. CASE m < k
      <4>1. h[m] = g[m] /\ (m > 0 => h[m - 1] = g[m - 1])
        BY <2>1, <3>2
      <4>2. m \in 0 .. (k - 1)
        BY <2>1, <3>2
      <4>3. g[m] = IF m = 0 THEN 0 ELSE g[m - 1] + b[m]
        BY <2>2, <4>2 DEF Sums
      <4> QED BY <4>1, <4>3
    <3> QED BY <2>1, <3>1, <3>2
  <2>4. Sums(b, h, k)
    BY <2>3 DEF Sums
  <2> QED BY <1>1, <2>4
<1> QED BY <1>1, <1>2, <1>3

\* and are the same however far one goes.
LEMMA SumsAgree ==
  ASSUME NEW b, NEW g, NEW h, NEW n \in Nat, Sums(b, g, n), Sums(b, h, n)
  PROVE  g[n] = h[n]
<1> DEFINE Bad == {k \in Nat : k <= n /\ g[k] # h[k]}
<1> SUFFICES ASSUME Bad # {} PROVE FALSE
  OBVIOUS
<1>1. PICK k \in Bad : \A m \in Bad : k <= m
  BY LeastOfNat
<1>2. k \in 0 .. n /\ k \in Nat
  BY <1>1
<1>3. /\ g[k] = IF k = 0 THEN 0 ELSE g[k - 1] + b[k]
      /\ h[k] = IF k = 0 THEN 0 ELSE h[k - 1] + b[k]
  BY <1>2 DEF Sums
<1>4. CASE k = 0
  BY <1>1, <1>3, <1>4
<1>5. CASE k > 0
  <2>1. k - 1 \in Nat /\ k - 1 <= n /\ k - 1 \notin Bad
    BY <1>1, <1>2, <1>5
  <2> QED
    BY <1>1, <1>3, <1>5, <2>1
<1> QED BY <1>2, <1>4, <1>5

\* So they are one function.
LEMMA SumsExist ==
  ASSUME NEW b
  PROVE  \E f : f = [n \in Nat |-> IF n = 0 THEN 0 ELSE f[n - 1] + b[n]]
<1> DEFINE G(n) == CHOOSE g : Sums(b, g, n)
           f == [n \in Nat |-> G(n)[n]]
<1>1. ASSUME NEW n \in Nat
      PROVE  Sums(b, G(n), n)
  BY SumsReach
<1> HIDE DEF G
<1>2. ASSUME NEW n \in Nat
      PROVE  f[n] = IF n = 0 THEN 0 ELSE f[n - 1] + b[n]
  <2>1. G(n)[n] = IF n = 0 THEN 0 ELSE G(n)[n - 1] + b[n]
    BY <1>1 DEF Sums
  <2>2. CASE n > 0
    <3>1. n - 1 \in Nat /\ Sums(b, G(n), n - 1) /\ Sums(b, G(n - 1), n - 1)
      BY <1>1, <2>2 DEF Sums
    <3>2. G(n)[n - 1] = G(n - 1)[n - 1]
      BY <3>1, SumsAgree
    <3> QED
      BY <2>1, <2>2, <3>1, <3>2
  <2>3. CASE n = 0
    BY <2>1, <2>3
  <2> QED BY <2>2, <2>3
<1>3. f = [n \in Nat |-> IF n = 0 THEN 0 ELSE f[n - 1] + b[n]]
  BY <1>2
<1> QED BY <1>3

\* Each box starts where the one before it ends.
LEMMA StartSteps ==
  ASSUME NEW v
  PROVE  StartOf(v, 1) = 0 /\ \A n \in Nat \ {0} : StartOf(v, n + 1) = StartOf(v, n) + v.top[n].bytes
<1> DEFINE b == [n \in Nat |-> v.top[n].bytes]
           before == CHOOSE before : before = [n \in Nat |-> IF n = 0 THEN 0 ELSE before[n - 1] + v.top[n].bytes]
<1>1. PICK f : f = [n \in Nat |-> IF n = 0 THEN 0 ELSE f[n - 1] + b[n]]
  BY SumsExist
<1>2. f = [n \in Nat |-> IF n = 0 THEN 0 ELSE f[n - 1] + v.top[n].bytes]
  BY <1>1
<1>3. before = [n \in Nat |-> IF n = 0 THEN 0 ELSE before[n - 1] + v.top[n].bytes]
  BY <1>2
<1>4. \A i : StartOf(v, i) = before[i - 1]
  BY DEF StartOf
<1> HIDE DEF before
<1>5. StartOf(v, 1) = before[0]
  BY <1>4
<1>6. ASSUME NEW n \in Nat \ {0}
      PROVE  StartOf(v, n + 1) = before[n] /\ before[n] = before[n - 1] + v.top[n].bytes
  <2>1. n + 1 - 1 = n
    OBVIOUS
  <2>2. before[n] = before[n - 1] + v.top[n].bytes
    BY <1>3
  <2> QED
    BY <1>4, <2>1, <2>2
<1> QED
  BY <1>3, <1>4, <1>5, <1>6

Positions(v) == 1 .. Len(v.top) + 1

\* A readable file: its boxes are a sequence.
Readable(v) == v.top \in Seq(TopBoxes)

\* A box starts in the file, no earlier than the boxes before it.
LEMMA StartsGrow ==
  ASSUME NEW v, Readable(v)
  PROVE  /\ \A n \in Positions(v) : StartOf(v, n) \in Nat
         /\ \A n, k \in Positions(v) : n <= k => StartOf(v, n) <= StartOf(v, k)
<1>0. Len(v.top) \in Nat /\ DOMAIN v.top = 1 .. Len(v.top) /\ \A n \in 1 .. Len(v.top) : v.top[n].bytes \in Nat
  <2>1. Len(v.top) \in Nat /\ DOMAIN v.top = 1 .. Len(v.top) /\ \A n \in 1 .. Len(v.top) : v.top[n] \in TopBoxes
    BY DEF Readable
  <2>2. \A box \in TopBoxes : box.bytes \in Nat
    BY DEF TopBoxes
  <2> QED BY <2>1, <2>2
<1>1. ASSUME NEW n \in Nat, n > 0, n + 1 \in Positions(v), StartOf(v, n) \in Nat
      PROVE  StartOf(v, n + 1) \in Nat /\ StartOf(v, n) <= StartOf(v, n + 1)
  <2>1. v.top[n].bytes \in Nat
    BY <1>0, <1>1 DEF Positions
  <2>2. StartOf(v, n + 1) = StartOf(v, n) + v.top[n].bytes
    BY <1>1, StartSteps
  <2> QED BY <1>1, <2>1, <2>2
<1>2. \A n \in Positions(v) : StartOf(v, n) \in Nat
  <2> DEFINE Bad == {n \in Nat : n \in Positions(v) /\ StartOf(v, n) \notin Nat}
  <2> SUFFICES ASSUME Bad # {} PROVE FALSE
    BY <1>0 DEF Positions
  <2>1. PICK n \in Bad : \A m \in Bad : n <= m
    BY LeastOfNat
  <2>2. n # 1
    BY <2>1, StartSteps
  <2>3. PICK m \in Nat : m = n - 1 /\ m > 0
    BY <1>0, <2>1, <2>2 DEF Positions
  <2>4. m \in Positions(v) /\ m + 1 = n /\ m \notin Bad
    BY <1>0, <2>1, <2>3 DEF Positions
  <2> QED
    BY <1>1, <2>1, <2>3, <2>4
<1>3. ASSUME NEW n \in Positions(v), NEW k \in Positions(v), n <= k
      PROVE  StartOf(v, n) <= StartOf(v, k)
  <2> DEFINE Bad == {i \in Nat : i \in Positions(v) /\ n <= i /\ ~(StartOf(v, n) <= StartOf(v, i))}
  <2> SUFFICES ASSUME Bad # {} PROVE FALSE
    BY <1>0, <1>3 DEF Positions
  <2>1. PICK i \in Bad : \A m \in Bad : i <= m
    BY LeastOfNat
  <2>2. i # n
    BY <1>2, <1>3, <2>1
  <2>3. PICK m \in Nat : m = i - 1 /\ m > 0 /\ n <= m
    BY <1>0, <1>3, <2>1, <2>2 DEF Positions
  <2>4. m \in Positions(v) /\ m + 1 = i /\ m \notin Bad
    BY <1>0, <2>1, <2>3 DEF Positions
  <2>5. StartOf(v, n) <= StartOf(v, m) /\ StartOf(v, m) <= StartOf(v, i)
    BY <1>1, <1>2, <2>1, <2>3, <2>4
  <2> QED
    BY <1>2, <1>3, <2>1, <2>4, <2>5
<1> QED BY <1>2, <1>3

\* What lies in a box is found there.
LEMMA PlaceInBox ==
  ASSUME NEW v, Readable(v), NEW p \in Nat, NEW i \in DOMAIN v.top, Lies(v, p, i)
  PROVE  PlaceOf(v, p) = <<i, p - StartOf(v, i)>>
<1> DEFINE Behind == {n \in DOMAIN v.top : p < StartOf(v, n + 1)}
<1>1. DOMAIN v.top = 1 .. Len(v.top) /\ Len(v.top) \in Nat
  BY DEF Readable
<1>2. Behind \in SUBSET Nat /\ i \in Behind
  BY <1>1 DEF Lies
<1>3. ASSUME NEW n \in Behind
      PROVE  i <= n
  <2> SUFFICES ASSUME n < i PROVE FALSE
    BY <1>1
  <2>1. n + 1 \in Positions(v) /\ i \in Positions(v) /\ n + 1 <= i
    BY <1>1 DEF Positions
  <2>2. StartOf(v, n + 1) <= StartOf(v, i) /\ StartOf(v, n + 1) \in Nat /\ StartOf(v, i) \in Nat
    BY <2>1, StartsGrow
  <2> QED
    BY <1>3, <2>2 DEF Lies
<1>4. Min(Behind) = i
  BY <1>2, <1>3, LeastIsMin
<1> QED
  BY <1>4 DEF PlaceOf

\* The first moov of a file, and the track the tag goes into.
LEMMA MoovFound ==
  ASSUME NEW v, Readable(v), HasBox(v, "moov")
  PROVE  IndexOf(v, "moov") \in DOMAIN v.top /\ v.top[IndexOf(v, "moov")].kind = "moov"
<1> DEFINE All == {i \in DOMAIN v.top : v.top[i].kind = "moov"}
<1>1. All \in SUBSET Nat /\ All # {}
  BY DEF Readable, HasBox
<1>2. PICK i \in All : \A m \in All : i <= m
  BY <1>1, LeastOfNat
<1>3. IndexOf(v, "moov") = i
  BY <1>1, <1>2, LeastIsMin DEF IndexOf
<1> QED BY <1>2, <1>3

\* The patch moves the boxes behind the moov by the box it adds, and no other.
LEMMA PatchedStarts ==
  ASSUME NEW v, Readable(v), HasBox(v, "moov")
  PROVE  /\ Readable(_patch_moov(v)) /\ DOMAIN _patch_moov(v).top = DOMAIN v.top
         /\ \A n \in Positions(v) :
              StartOf(_patch_moov(v), n) = IF n <= IndexOf(v, "moov") THEN StartOf(v, n) ELSE StartOf(v, n) + ColrSize
<1> DEFINE w == _patch_moov(v)
           moov == IndexOf(v, "moov")
<1>1. /\ Len(v.top) \in Nat /\ DOMAIN v.top = 1 .. Len(v.top) /\ ColrSize \in Nat /\ moov \in DOMAIN v.top
      /\ \A n \in 1 .. Len(v.top) : v.top[n] \in TopBoxes
  BY MoovFound, VideosAssumption DEF Readable
<1>2. w.top = [v.top EXCEPT ![moov] = _grow(@)]
  BY DEF _patch_moov
<1> HIDE DEF w, moov
<1>3. _grow(v.top[moov]) \in TopBoxes /\ _grow(v.top[moov]).bytes = v.top[moov].bytes + ColrSize
  <2>1. \A box \in TopBoxes : box.bytes \in Nat /\ box.size \in Nat /\ _grow(box) \in TopBoxes /\ _grow(box).bytes = box.bytes + ColrSize
    <3> SUFFICES ASSUME NEW box \in TopBoxes
                 PROVE  box.bytes \in Nat /\ box.size \in Nat /\ _grow(box) \in TopBoxes /\ _grow(box).bytes = box.bytes + ColrSize
      OBVIOUS
    <3>1. box.size \in Nat /\ box.bytes \in Nat
      BY DEF TopBoxes
    <3>2. box.size + ColrSize \in Nat /\ box.bytes + ColrSize \in Nat
      BY <1>1, <3>1
    <3> QED
      BY <1>1, <3>1, <3>2 DEF _grow, TopBoxes
  <2> QED BY <1>1, <2>1
<1>4. DOMAIN w.top = DOMAIN v.top /\ Readable(w)
  BY <1>1, <1>2, <1>3 DEF Readable
<1>5. \A n \in 1 .. Len(v.top) : w.top[n].bytes = IF n = moov THEN v.top[n].bytes + ColrSize ELSE v.top[n].bytes
  BY <1>1, <1>2, <1>3
<1>6. \A n \in 1 .. Len(v.top) : v.top[n].bytes \in Nat
  BY <1>1 DEF TopBoxes
<1>7. ASSUME NEW n \in Positions(v)
      PROVE  StartOf(w, n) = IF n <= moov THEN StartOf(v, n) ELSE StartOf(v, n) + ColrSize
  <2> DEFINE Bad == {i \in Nat : /\ i \in Positions(v)
                                 /\ StartOf(w, i) # IF i <= moov THEN StartOf(v, i) ELSE StartOf(v, i) + ColrSize}
  <2> SUFFICES ASSUME Bad # {} PROVE FALSE
    BY <1>1, <1>7 DEF Positions
  <2>1. PICK i \in Bad : \A m \in Bad : i <= m
    BY LeastOfNat
  <2>2. i # 1
    BY <1>1, <2>1, StartSteps
  <2>3. PICK m \in Nat : m = i - 1 /\ m > 0
    BY <1>1, <2>1, <2>2 DEF Positions
  <2>4. m \in Positions(v) /\ m \in 1 .. Len(v.top) /\ m + 1 = i /\ m \notin Bad
    <3>1. m + 1 = i /\ m < i /\ i <= Len(v.top) + 1
      BY <1>1, <2>1, <2>3 DEF Positions
    <3>2. m \in 1 .. Len(v.top) /\ m \in Positions(v)
      BY <1>1, <2>3, <3>1 DEF Positions
    <3> QED
      BY <2>1, <3>1, <3>2
  <2>5. StartOf(w, m) = IF m <= moov THEN StartOf(v, m) ELSE StartOf(v, m) + ColrSize
    BY <2>3, <2>4
  <2>6. StartOf(w, i) = StartOf(w, m) + w.top[m].bytes /\ StartOf(v, i) = StartOf(v, m) + v.top[m].bytes
    <3>1. m \in Nat \ {0}
      BY <2>3
    <3>2. StartOf(w, m + 1) = StartOf(w, m) + w.top[m].bytes
      BY <3>1, StartSteps
    <3>3. StartOf(v, m + 1) = StartOf(v, m) + v.top[m].bytes
      BY <3>1, StartSteps
    <3> QED BY <2>4, <3>2, <3>3
  <2>7. StartOf(v, m) \in Nat /\ v.top[m].bytes \in Nat /\ i \in Nat /\ moov \in Nat
    BY <1>1, <1>6, <2>1, <2>4, StartsGrow
  <2>8. w.top[m].bytes = IF m = moov THEN v.top[m].bytes + ColrSize ELSE v.top[m].bytes
    BY <1>5, <2>4
  <2>9. StartOf(w, i) = IF i <= moov THEN StartOf(v, i) ELSE StartOf(v, i) + ColrSize
    BY <1>1, <2>3, <2>4, <2>5, <2>6, <2>7, <2>8
  <2> QED
    BY <2>1, <2>9
<1> QED
  BY <1>4, <1>7 DEF w, moov

\* In the patched file an offset finds the media it found.
LEMMA ShiftedKept ==
  ASSUME NEW v, Readable(v), HasBox(v, "moov"), NEW p \in Nat,
         NEW i \in DOMAIN v.top, v.top[i].kind = "mdat", Lies(v, p, i)
  PROVE  Shifted(v, p) \in Nat /\ PlaceOf(_patch_moov(v), Shifted(v, p)) = PlaceOf(v, p)
<1> DEFINE w == _patch_moov(v)
           moov == IndexOf(v, "moov")
<1>1. /\ Len(v.top) \in Nat /\ DOMAIN v.top = 1 .. Len(v.top) /\ ColrSize \in Nat
      /\ moov \in DOMAIN v.top /\ i # moov
  BY MoovFound, VideosAssumption DEF Readable
<1>2. /\ Readable(w) /\ DOMAIN w.top = DOMAIN v.top
      /\ \A n \in Positions(v) : StartOf(w, n) = IF n <= moov THEN StartOf(v, n) ELSE StartOf(v, n) + ColrSize
  BY PatchedStarts
<1>3. i \in Positions(v) /\ i + 1 \in Positions(v) /\ moov + 1 \in Positions(v) /\ moov \in Positions(v)
  BY <1>1 DEF Positions
<1>4. StartOf(v, i) \in Nat /\ StartOf(v, i + 1) \in Nat /\ StartOf(v, moov) \in Nat /\ StartOf(v, moov + 1) \in Nat
  BY <1>3, StartsGrow
<1>5. PlaceOf(v, p) = <<i, p - StartOf(v, i)>>
  BY PlaceInBox
<1>6. CASE i > moov
  <2>1. media_after_moov(v)
    BY <1>6 DEF media_after_moov
  <2>2. StartOf(v, moov + 1) <= StartOf(v, i)
    BY <1>1, <1>3, <1>6, StartsGrow
  <2>3. Shifted(v, p) = p + ColrSize
    BY <1>4, <2>1, <2>2 DEF Shifted, MoovEnd, Lies
  <2>4. StartOf(w, i) = StartOf(v, i) + ColrSize /\ StartOf(w, i + 1) = StartOf(v, i + 1) + ColrSize
    BY <1>1, <1>2, <1>3, <1>6
  <2>5. Lies(w, p + ColrSize, i) /\ p + ColrSize \in Nat
    BY <1>1, <1>4, <2>4 DEF Lies
  <2>6. PlaceOf(w, p + ColrSize) = <<i, (p + ColrSize) - StartOf(w, i)>>
    BY <1>2, <2>5, PlaceInBox
  <2>7. (p + ColrSize) - StartOf(w, i) = p - StartOf(v, i)
    BY <1>1, <1>4, <2>4
  <2> QED BY <1>5, <2>3, <2>5, <2>6, <2>7
<1>7. CASE i < moov
  <2>1. StartOf(v, i + 1) <= StartOf(v, moov) /\ StartOf(v, moov) <= StartOf(v, moov + 1)
    BY <1>1, <1>3, <1>7, StartsGrow
  <2>2. Shifted(v, p) = p
    BY <1>4, <2>1 DEF Shifted, MoovEnd, Lies
  <2>3. StartOf(w, i) = StartOf(v, i) /\ StartOf(w, i + 1) = StartOf(v, i + 1)
    BY <1>1, <1>2, <1>3, <1>7
  <2>4. Lies(w, p, i)
    BY <2>3 DEF Lies
  <2> QED BY <1>2, <1>5, <2>2, <2>3, <2>4, PlaceInBox
<1> QED BY <1>1, <1>6, <1>7

\* The numbers of a list have a least one, its first.
LEMMA TrackFound ==
  ASSUME NEW v, v.tracks \in Seq(Tracks), VideoTracks(v) # {}
  PROVE  Min(VideoTracks(v)) \in DOMAIN v.tracks
<1>1. VideoTracks(v) \in SUBSET Nat
  BY DEF VideoTracks
<1>2. PICK t \in VideoTracks(v) : \A m \in VideoTracks(v) : t <= m
  BY <1>1, LeastOfNat
<1>3. Min(VideoTracks(v)) = t
  BY <1>1, <1>2, LeastIsMin
<1> QED
  BY <1>2, <1>3 DEF VideoTracks

\* A patched track: its boxes are as long as they say, and each of its offsets is shifted.
LEMMA PatchedTracks ==
  ASSUME NEW v \in Videos, Taggable(v), NEW t \in DOMAIN v.tracks
  PROVE  LET w == _patch_moov(v)
         IN  /\ DOMAIN w.tracks = DOMAIN v.tracks
             /\ DOMAIN w.tracks[t].chunks = DOMAIN v.tracks[t].chunks
             /\ \A c \in DOMAIN v.tracks[t].chunks : w.tracks[t].chunks[c] = Shifted(v, v.tracks[t].chunks[c])
             /\ w.tracks[t].box.size = w.tracks[t].box.bytes /\ w.tracks[t].entry.size = w.tracks[t].entry.bytes
             /\ t = Min(VideoTracks(v)) => w.tracks[t].colr
<1> DEFINE w == _patch_moov(v)
           mine == Min(VideoTracks(v))
           shifted == _shift_chunk_offsets(v)
<1>1. /\ v.tracks \in Seq(Tracks) /\ v.tracks[t] \in Tracks /\ mine \in DOMAIN v.tracks
      /\ v.tracks[t].box.size = v.tracks[t].box.bytes /\ v.tracks[t].entry.size = v.tracks[t].entry.bytes
  BY TrackFound, VideosAssumption DEF Taggable
<1>2. w.tracks = [shifted EXCEPT ![mine].colr = TRUE, ![mine].box = _grow(@), ![mine].entry = _grow(@)]
  BY DEF _patch_moov
<1>3. /\ DOMAIN shifted = DOMAIN v.tracks
      /\ shifted[t] = [v.tracks[t] EXCEPT !.chunks = [c \in DOMAIN @ |-> Shifted(v, @[c])]]
  BY DEF _shift_chunk_offsets
<1>4. /\ shifted[t].chunks = [c \in DOMAIN v.tracks[t].chunks |-> Shifted(v, v.tracks[t].chunks[c])]
      /\ shifted[t].box = v.tracks[t].box /\ shifted[t].entry = v.tracks[t].entry
  BY <1>1, <1>3 DEF Tracks
<1>4a. DOMAIN shifted[t] = {"kind", "box", "entry", "colr", "wide", "chunks"}
  <2>1. DOMAIN v.tracks[t] = {"kind", "box", "entry", "colr", "wide", "chunks"}
    BY <1>1 DEF Tracks
  <2> QED BY <1>3, <2>1
<1> HIDE DEF w, mine, shifted
<1>5. DOMAIN w.tracks = DOMAIN v.tracks
  BY <1>1, <1>2, <1>3
<1>5a. w.tracks[t].chunks = shifted[t].chunks
  BY <1>1, <1>2, <1>3, <1>4a
<1>6. t # mine => w.tracks[t] = shifted[t]
  BY <1>1, <1>2, <1>3
<1>7. t = mine => w.tracks[t].box = _grow(shifted[t].box) /\ w.tracks[t].entry = _grow(shifted[t].entry) /\ w.tracks[t].colr
  BY <1>1, <1>2, <1>3, <1>4a
<1>8. \A box \in Measures : box.size = box.bytes => _grow(box).size = _grow(box).bytes
  BY DEF _grow, Measures
<1>9. v.tracks[t].box \in Measures /\ v.tracks[t].entry \in Measures
  BY <1>1 DEF Tracks
<1>10. w.tracks[t].box.size = w.tracks[t].box.bytes /\ w.tracks[t].entry.size = w.tracks[t].entry.bytes
  BY <1>1, <1>4, <1>6, <1>7, <1>8, <1>9
<1> QED
  BY <1>4, <1>5, <1>5a, <1>7, <1>10 DEF w, mine

\* The patched file is whole, and is another than the one written.
LEMMA PatchedKept ==
  ASSUME NEW v \in Videos, Taggable(v)
  PROVE  LET w == _patch_moov(v)
         IN  /\ \A t \in DOMAIN w.tracks : \A c \in DOMAIN w.tracks[t].chunks :
                   PlaceOf(w, w.tracks[t].chunks[c]) = PlaceOf(v, v.tracks[t].chunks[c])
             /\ \A box \in Boxes(w) : box.size = box.bytes
             /\ w # v
<1> DEFINE w == _patch_moov(v)
           moov == IndexOf(v, "moov")
           mine == Min(VideoTracks(v))
<1>1. Readable(v) /\ HasBox(v, "moov") /\ v.tracks \in Seq(Tracks) /\ mine \in DOMAIN v.tracks /\ ~v.tracks[mine].colr
  BY TrackFound, VideosAssumption DEF Readable, Taggable
<1>2. DOMAIN w.tracks = DOMAIN v.tracks
  BY <1>1, PatchedTracks
<1>3. ASSUME NEW t \in DOMAIN w.tracks, NEW c \in DOMAIN w.tracks[t].chunks
      PROVE  PlaceOf(w, w.tracks[t].chunks[c]) = PlaceOf(v, v.tracks[t].chunks[c])
  <2>1. t \in DOMAIN v.tracks /\ c \in DOMAIN v.tracks[t].chunks /\ w.tracks[t].chunks[c] = Shifted(v, v.tracks[t].chunks[c])
    BY <1>2, <1>3, PatchedTracks
  <2>2. v.tracks[t].chunks \in Seq(Nat)
    <3>1. v.tracks[t] \in Tracks
      BY <1>1, <2>1
    <3> QED BY <3>1 DEF Tracks
  <2>3. PICK p \in Nat : p = v.tracks[t].chunks[c]
    BY <2>1, <2>2
  <2>4. PICK i \in DOMAIN v.top : v.top[i].kind = "mdat" /\ Lies(v, p, i)
    BY <2>1, <2>3, VideosAssumption
  <2> QED
    BY <1>1, <2>1, <2>3, <2>4, ShiftedKept
<1>4. ASSUME NEW box \in Boxes(w)
      PROVE  box.size = box.bytes
  <2>1. CASE \E i \in DOMAIN w.top : box = w.top[i]
    <3>1. PICK i \in DOMAIN w.top : box = w.top[i]
      BY <2>1
    <3>2. w.top = [v.top EXCEPT ![moov] = _grow(@)]
      BY DEF _patch_moov
    <3>3. i \in DOMAIN v.top /\ v.top[i] \in TopBoxes /\ v.top[i].size = v.top[i].bytes
      BY <1>1, <3>1, <3>2, VideosAssumption DEF Readable
    <3>4. _grow(v.top[i]).size = _grow(v.top[i]).bytes
      BY <3>3 DEF _grow, TopBoxes
    <3> QED
      BY <3>1, <3>2, <3>3, <3>4
  <2>2. CASE \E t \in DOMAIN w.tracks : box = w.tracks[t].box \/ box = w.tracks[t].entry
    BY <1>2, <2>2, PatchedTracks
  <2> QED
    BY <1>4, <2>1, <2>2 DEF Boxes
<1>5. w # v
  BY <1>1, PatchedTracks
<1> QED
  BY <1>3, <1>4, <1>5

\* A file as it was written is whole.
LEMMA WrittenWhole ==
  ASSUME NEW v \in Videos
  PROVE  \A box \in Boxes(v) : box.size = box.bytes
BY VideosAssumption DEF Boxes

(* The file under a video's name is the written one or the patched one.      *)
THEOREM TagInvThm == TagSpec => []TagInv
<1>1. TagInit => TagInv
  BY DEF TagInit, TagStart, TagInv
<1>2. TagInv /\ [TagNext]_tagVars => TagInv'
  <2> SUFFICES ASSUME TagInv, [TagNext]_tagVars PROVE TagInv'
    OBVIOUS
  <2>1. CASE ReadMoov
    <3>1. tagging = "reading" /\ video = original /\ video' = original /\ original' = original
      BY <2>1 DEF ReadMoov, TagInv
    <3>2. tagging' = "copying" => patched' = _patch_moov(original) /\ Taggable(original)
      BY <2>1, <3>1 DEF ReadMoov, Taggable
    <3>3. tagging' \in {"copying", "kept", "refused"} /\ (swap' = swap \/ tagging' = "copying")
      BY <2>1 DEF ReadMoov
    <3>4. swap = "none"
      BY <3>1 DEF TagInv
    <3> QED
      BY <3>1, <3>2, <3>3, <3>4 DEF TagInv
  <2>2. CASE CopyFile
    BY <2>2 DEF CopyFile, TagInv
  <2>3. CASE SwapIn
    BY <2>3 DEF SwapIn, TagInv
  <2>4. CASE TagCrash
    BY <2>4 DEF TagCrash, TagInv
  <2>5. CASE UNCHANGED tagVars
    BY <2>5 DEF tagVars, TagInv
  <2> QED BY <2>1, <2>2, <2>3, <2>4, <2>5 DEF TagNext
<1> QED
  BY <1>1, <1>2, PTL DEF TagSpec

(* Whatever is tagged, refused or interrupted, the file under the video's    *)
(* name is whole, and every chunk offset of it finds the media it found.     *)
THEOREM MediaKeptThm == TagSpec => []MediaKept
<1>1. TagInv => MediaKept
  <2> SUFFICES ASSUME TagInv PROVE MediaKept
    OBVIOUS
  <2>1. CASE tagging = "changed"
    BY <2>1, PatchedKept DEF TagInv, MediaKept
  <2>2. CASE tagging # "changed"
    BY <2>2, WrittenWhole DEF TagInv, MediaKept
  <2> QED BY <2>1, <2>2
<1> QED
  BY <1>1, TagInvThm, PTL

(* What a finishing, a correction and a tag leave on disk is whole.           *)
THEOREM FilesWholeThm == FinishSpec /\ CorrectionSpec /\ TagSpec => []FilesWhole
<1>1. OutputsWhole /\ CorrectionWhole /\ MediaKept => FilesWhole
  BY DEF FilesWhole
<1> QED
  BY <1>1, OutputsWholeThm, CorrectionWholeThm, MediaKeptThm, PTL
==============================================================================
