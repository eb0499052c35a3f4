----------------------------- MODULE Pipelines -----------------------------
(***************************************************************************)
(* A run of the edge-AI application: PipelineManager reads a description,  *)
(* rejects what it cannot run and hands over to one of the four pipelines, *)
(* which are the modules SpeechPipeline, RoundTrip and Classification and  *)
(* the few steps of run_tvm_pipeline below.  The pipelines share the       *)
(* variables of the one thread that runs them.                             *)
(***************************************************************************)
EXTENDS SpeechChunks, Sequences

\* Those of the modules above, which say what they are; HopSize, TotalFrames
\* and OverlapFrames are those of SpeechChunks.
CONSTANTS
  BatchN, IstftBatchN, StreamFrame, Room, MaxViews, Lengths, Layouts, Frames,
  BatchSize, Sizes, MaxOverruns

ASSUME PipelinesAssumption ==
  /\ {BatchN, IstftBatchN, StreamFrame, Room, Frames, BatchSize} \subseteq Nat \ {0}
  /\ {MaxViews, MaxOverruns} \subseteq Nat /\ Lengths \subseteq Nat /\ Sizes \subseteq Nat
  /\ Layouts \subseteq [total : Nat \ {0}, stft : Nat \ {0}, istft : Nat \ {0}]

VARIABLES
  step,        \* where the run is, or how it ended
  how,         \* the entry point: a file, standard input or a device
  doc,         \* pipeline_config as far as it decides what runs
  configured,  \* tvm_artifacts_configured
  pipeline,    \* the pipeline that runs
  pc, n, chunk, batch, out,
  tvm, A, B, chunkOut, pos, dir,
  layout, dma, left, taken,
  window, done, eof, source, overruns, mel, got,
  viewer, wire, sent, views

manager == <<step, how, configured, pipeline>>
loop == <<pc, n, chunk, batch, out>>
speech == <<tvm, A, B, chunkOut, pos, dir>>
trip == <<layout, dma, left, taken>>
listener == <<window, done, eof, source, overruns, mel, got>>
stream == <<viewer, wire, sent, views>>
vars == <<manager, doc, loop, speech, trip, listener, stream>>

S == INSTANCE SpeechPipeline
R == INSTANCE RoundTrip
C == INSTANCE Classification WITH mode <- how, Hop <- HopSize

Types == {"speech_enhancement", "stft_istft", "audio_classification", "tvm_only",
          "other"}

\* artifacts and input say whether the path is given and what is found there;
\* tvm whether a stage has the service "tvm", the message TVM_INFERENCE or
\* both; stages whether the other stages the pipeline needs are there.
Docs == [type : Types, artifacts : {"none", "missing", "there"},
         input : {"none", "missing", "wav", "bin", "odd"},
         tvm : {"none", "service", "message", "both"}, stages : BOOLEAN]

NoDoc == [type |-> "other", artifacts |-> "none", input |-> "none",
          tvm |-> "none", stages |-> FALSE]

Init ==
  /\ step = "open"
  /\ doc = NoDoc /\ configured = FALSE /\ pipeline = "none"
  /\ S!SpeechInit /\ R!RoundTripInit /\ C!ClassificationInit /\ S!StreamInit

----------------------------------------------------------------------------
(* PipelineManager *)

Idle == UNCHANGED <<loop, speech, trip, listener, stream>>

\* loadPipelineFromJson(); the file may be missing or not a description.
Open ==
  /\ step = "open"
  /\ \/ /\ doc' \in Docs
        /\ step' = IF how = "file" \/ doc'.type = "audio_classification"
                   THEN "artifacts" ELSE "rejected"
     \/ doc' = doc /\ step' = "rejected"
  /\ UNCHANGED <<how, configured, pipeline>> /\ Idle

\* The artifacts of the description, whose model is switched to at once.
Artifacts ==
  /\ step = "artifacts"
  /\ configured' = (doc.artifacts = "there")
  /\ step' = IF doc.artifacts = "missing" THEN "rejected" ELSE "checks"
  /\ UNCHANGED <<how, doc, pipeline>> /\ Idle

\* Mutant of Validated: the artifacts are left to the pipelines.
ValidatedLater == doc.stages \in BOOLEAN

\* validateConfiguration()
Validated == doc.tvm \in {"service", "both"} => configured

\* The kind of input each pipeline takes.
InputFits ==
  CASE doc.type = "tvm_only" -> doc.input = "bin"
    [] doc.type = "other" -> FALSE
    [] OTHER -> doc.input = "wav"

Dispatch ==
  /\ step = "checks"
  /\ Validated /\ (how = "file" => InputFits)
  /\ step' = "run" /\ pipeline' = doc.type /\ pc' = "start"
  /\ UNCHANGED <<how, doc, configured, n, chunk, batch, out, speech, trip, listener, stream>>

Rejected ==
  /\ step = "checks"
  /\ ~(Validated /\ (how = "file" => InputFits))
  /\ step' = "rejected"
  /\ UNCHANGED <<how, doc, configured, pipeline>> /\ Idle

\* The pipeline returns.
Return ==
  /\ step = "run" /\ pc \in {"saved", "passed", "failed"}
  /\ step' = IF pc = "failed" THEN "error" ELSE "success"
  /\ UNCHANGED <<how, doc, configured, pipeline>> /\ Idle

Manage == Open \/ Artifacts \/ Dispatch \/ Rejected \/ Return

----------------------------------------------------------------------------
(* The pipelines.  Once its stages are found, the description is not read. *)

Runs(p) == step = "run" /\ pipeline = p

SpeechStart ==
  /\ Runs("speech_enhancement") /\ doc.stages
  /\ S!Start(doc.tvm \in {"message", "both"} /\ configured)
  /\ doc' = NoDoc
  /\ UNCHANGED <<manager, trip, listener>>

SpeechStep ==
  /\ Runs("speech_enhancement") /\ S!Step
  /\ UNCHANGED <<manager, doc, trip, listener>>

SpeechFails ==
  /\ Runs("speech_enhancement") /\ S!StageFails
  /\ doc' = NoDoc
  /\ UNCHANGED <<manager, trip, listener>>

TripStart ==
  /\ Runs("stft_istft") /\ doc.stages /\ R!Start
  /\ doc' = NoDoc
  /\ UNCHANGED <<manager, speech, listener>>

TripStep ==
  /\ Runs("stft_istft") /\ R!Step
  /\ UNCHANGED <<manager, doc, speech, listener>>

TripFails ==
  /\ Runs("stft_istft") /\ R!StageFails
  /\ doc' = NoDoc
  /\ UNCHANGED <<manager, speech, listener>>

ClassifyStart ==
  /\ Runs("audio_classification") /\ doc.stages
  /\ doc.tvm \in {"message", "both"} /\ configured
  /\ C!Start
  /\ doc' = NoDoc
  /\ UNCHANGED <<step, configured, pipeline, speech, trip, stream>>

ClassifyStep ==
  /\ Runs("audio_classification") /\ C!Step
  /\ UNCHANGED <<manager, doc, speech, trip, stream>>

\* Faults of the stages and of the device.
ClassifyFault ==
  /\ Runs("audio_classification")
  /\ \/ C!StageFails /\ doc' = NoDoc
     \/ C!Overrun /\ doc' = doc
     \/ C!Interrupted /\ doc' = doc
  /\ UNCHANGED <<manager, speech, trip, stream>>

\* run_tvm_pipeline: initialize(), then the tensor, which must have the size
\* of the shape, the inference, and the output file.
TvmStage(from, to) ==
  /\ Runs("tvm_only") /\ pc = from
  /\ pc' = to
  /\ UNCHANGED <<manager, n, chunk, batch, out, speech, trip, listener, stream>>

TvmStep ==
  \/ doc.stages /\ doc.tvm \in {"service", "both"} /\ TvmStage("start", "tensor")
     /\ doc' = NoDoc
  \/ TvmStage("tensor", "infer") /\ doc' = doc
  \/ TvmStage("infer", "save") /\ doc' = doc
  \/ TvmStage("save", "saved") /\ doc' = doc

TvmFails ==
  /\ \E from \in {"start", "tensor", "infer", "save"} : TvmStage(from, "failed")
  /\ doc' = NoDoc

\* AudioStream exists while one of two pipelines runs.
Streams == pipeline \in {"speech_enhancement", "stft_istft"}
           /\ pc \notin {"start", "saved", "failed"}

ViewerConnects ==
  Streams /\ S!ViewerConnects /\ UNCHANGED <<manager, doc, loop, speech, trip, listener>>
ViewerReads ==
  S!ViewerReads /\ UNCHANGED <<manager, doc, loop, speech, trip, listener>>
ViewerLeaves ==
  S!ViewerLeaves /\ UNCHANGED <<manager, doc, loop, speech, trip, listener>>

Ended == step \in {"rejected", "success", "error"} \/ pc = "killed"

Done == Ended /\ UNCHANGED vars

Next ==
  \/ Manage
  \/ SpeechStart \/ SpeechStep \/ SpeechFails
  \/ TripStart \/ TripStep \/ TripFails
  \/ ClassifyStart \/ ClassifyStep \/ ClassifyFault
  \/ TvmStep \/ TvmFails
  \/ ViewerConnects \/ ViewerReads \/ ViewerLeaves
  \/ Done

Spec == Init /\ [][Next]_vars

\* The DSP and the daemon answer, or the stage fails; standard input ends; a
\* viewer that stays connected reads.
FairSpec ==
  /\ Spec
  /\ WF_vars(Manage)
  /\ WF_vars(SpeechStart \/ SpeechStep \/ SpeechFails)
  /\ WF_vars(SpeechStep)
  /\ WF_vars(TripStart \/ TripStep \/ TripFails)
  /\ WF_vars(TripStep)
  /\ WF_vars(ClassifyStart \/ ClassifyStep \/ ClassifyFault)
  /\ WF_vars(ClassifyStep)
  /\ WF_vars(TvmStep \/ TvmFails)
  /\ WF_vars(ViewerReads)

----------------------------------------------------------------------------
TypeOK ==
  /\ step \in {"open", "artifacts", "checks", "run", "rejected", "success", "error"}
  /\ doc \in Docs /\ configured \in BOOLEAN
  /\ pipeline \in (Types \ {"other"}) \cup {"none"}
  /\ Runs("speech_enhancement") => S!SpeechType
  /\ Runs("stft_istft") => R!RoundTripType
  /\ Runs("audio_classification") => C!ClassificationType
  /\ Runs("tvm_only") => pc \in {"start", "tensor", "infer", "save", "saved", "failed"}
  /\ viewer \in {"away", "waiting", "accepted", "left"}
  /\ wire \in 0..Room /\ views \in 0..MaxViews

Timeline == Runs("speech_enhancement") => S!Timeline

Restored == Runs("stft_istft") => R!Restored

EachSampleOnce == Runs("audio_classification") => C!EachSampleOnce

HeardInOrder ==
  /\ Runs("speech_enhancement") => S!HeardInOrder
  /\ Runs("stft_istft") => R!HeardInOrder

\* tvm_artifacts_paths[0] is read only when there is one, and a stage that is
\* both a "tvm" service and TVM_INFERENCE is never bypassed silently: the
\* check is in the manager, by service, and the use in the pipelines, by
\* message type.
ArtifactsBeforeUse ==
  /\ Runs("tvm_only") /\ pc = "start" /\ doc.stages
       /\ doc.tvm \in {"service", "both"} => configured
  /\ Runs("speech_enhancement") /\ pc = "start" /\ doc.tvm = "both" => configured
  /\ Runs("audio_classification") /\ pc \notin {"start", "failed"} => configured
  /\ tvm => configured

\* Every run ends with an exit code, whatever viewers do that stay and read,
\* except one that listens to a device.
Finishes == <>(Ended \/ how = "device")

=============================================================================
