--------------------------- MODULE SpeechPipeline ---------------------------
(***************************************************************************)
(* run_speech_enhancement_pipeline: the loop over chunks, its DSP and TVM  *)
(* stages over two DMA buffers that every stage reuses, the samples it     *)
(* keeps and publishes.                                                    *)
(***************************************************************************)
EXTENDS SpeechChunks, StftFrames, AudioStream

CONSTANTS
  BatchN,       \* frames of one STFT message
  IstftBatchN,  \* frames of one ISTFT message
  StreamFrame,  \* samples of one message to the viewer (1024)
  Lengths       \* samples of the input files

VARIABLES
  n,         \* original_sample_count
  tvm,       \* tvm_client.is_initialized()
  pc,        \* the stage the loop is in
  chunk,     \* chunk_idx
  batch,     \* batch_idx
  A,         \* dma_work_a
  B,         \* dma_work_b
  chunkOut,  \* chunk_output
  out,       \* processed_audio_data
  pos,       \* offset of the next samples to publish
  dir        \* 0 for the input, 1 for the output

loop == <<n, tvm, pc, chunk, batch, A, B, chunkOut, out, pos, dir>>

FramesOf(b, size) == Smaller(size, TotalFrames - b * size)

\* A holds the largest of what is put into it, B all spectra of a chunk.
ASize == CHOOSE m \in {TotalFrames, BatchN, IstftBatchN} :
           \A k \in {TotalFrames, BatchN, IstftBatchN} : k <= m

SpeechInit ==
  /\ n = 0 /\ tvm = FALSE /\ pc = "idle" /\ chunk = 0 /\ batch = 0
  /\ A = Blank(0) /\ B = Blank(0)
  /\ chunkOut = <<>> /\ out = <<>> /\ pos = 0 /\ dir = 0

\* What the run needs is there: the stages, the file, the DSP, the buffers,
\* and the model when there is a stage for it and artifacts.
Start(hasModel) ==
  /\ pc = "start"
  /\ n' \in Lengths
  /\ tvm' = hasModel
  /\ A' = Blank(ASize) /\ B' = Blank(TotalFrames)
  /\ pc' = "stft"
  /\ UNCHANGED <<chunk, batch, chunkOut, out, pos, dir, stream>>

----------------------------------------------------------------------------
(* The stages of one chunk.  process() returns when the DSP has answered.  *)

\* A with the PCM of this batch, and zeros behind it.
Batch ==
  [f \in 0..(ASize - 1) |->
     IF f < FramesOf(batch, BatchN)
     THEN [at |-> Offset(chunk) + (batch * BatchN + f) * HopSize, by |-> "pcm"]
     ELSE NoFrame]

\* One batch: A is cleared and filled with PCM, its spectra go to their place
\* in B.
Stft ==
  /\ pc = "stft"
  /\ A' = Batch
  /\ B' = Made(B, batch * BatchN, Batch, 0, FramesOf(batch, BatchN), "pcm", "stft")
  /\ IF batch + 1 < Batches(TotalFrames, BatchN)
     THEN batch' = batch + 1 /\ pc' = pc
     ELSE batch' = 0 /\ pc' = "deinterleave"
  /\ UNCHANGED <<n, tvm, chunk, chunkOut, out, pos, dir, stream>>

Deinterleave ==
  /\ pc = "deinterleave"
  /\ A' = Made(A, 0, B, 0, TotalFrames, "stft", "planar")
  /\ pc' = "infer"
  /\ UNCHANGED <<n, tvm, chunk, batch, B, chunkOut, out, pos, dir, stream>>

\* The model reads A and writes its result over it; without a model A already
\* holds what goes on.
Infer ==
  /\ pc = "infer"
  /\ A' = IF tvm THEN Made(A, 0, A, 0, TotalFrames, "planar", "model") ELSE A
  /\ pc' = "interleave"
  /\ UNCHANGED <<n, tvm, chunk, batch, B, chunkOut, out, pos, dir, stream>>

Interleave ==
  /\ pc = "interleave"
  /\ B' = Made(B, 0, A, 0, TotalFrames, IF tvm THEN "model" ELSE "planar", "mixed")
  /\ pc' = "istft"
  /\ UNCHANGED <<n, tvm, chunk, batch, A, chunkOut, out, pos, dir, stream>>

Istft ==
  /\ pc = "istft"
  /\ LET count == FramesOf(batch, IstftBatchN)
     IN /\ A' = Made(A, 0, B, batch * IstftBatchN, count, "mixed", "clean")
        /\ chunkOut' = chunkOut \o Samples(A', count, HopSize)
  /\ IF batch + 1 < Batches(TotalFrames, IstftBatchN)
     THEN batch' = batch + 1 /\ pc' = pc
     ELSE batch' = 0 /\ pc' = "keep"
  /\ UNCHANGED <<n, tvm, chunk, B, out, pos, dir, stream>>

\* Any message to the DSP, any DMA synchronisation and the inference can fail:
\* the run ends without output, and the destructor closes the stream.
StageFails ==
  /\ pc \in {"start", "stft", "deinterleave", "infer", "interleave", "istft"}
  /\ pc' = "failed"
  /\ CloseStream
  /\ UNCHANGED <<n, tvm, chunk, batch, A, B, chunkOut, out, pos, dir>>

KeepEnd ==
  Smaller(End(chunk, Chunks(n), n), Len(chunkOut))

\* Trim-reconstruct.
Keep ==
  /\ pc = "keep"
  /\ IF Begin(chunk) < KeepEnd
     THEN /\ out' = out \o SubSeq(chunkOut, Begin(chunk) + 1, KeepEnd)
          /\ pos' = Begin(chunk)
          /\ pc' = "publish"
     ELSE /\ pc' = "next"
          /\ UNCHANGED <<out, pos>>
  /\ UNCHANGED <<n, tvm, chunk, batch, A, B, chunkOut, dir, stream>>

Input(from, count) ==
  [s \in 1..count |-> [at |-> Offset(chunk) + from + s - 1, by |-> "pcm"]]

\* The samples of this frame in its direction.
Pcm ==
  LET count == Smaller(StreamFrame, KeepEnd - pos)
  IN IF dir = 0 THEN Input(pos, count) ELSE SubSeq(chunkOut, pos + 1, pos + count)

\* The input, then the output, of the same offset.
Advance ==
  LET last == pos + StreamFrame >= KeepEnd
  IN /\ dir' = 1 - dir
     /\ pos' = IF dir = 0 THEN pos ELSE pos + StreamFrame
     /\ pc' = IF dir = 1 /\ last THEN "next" ELSE "publish"

Publish ==
  /\ pc = "publish"
  /\ SendFrame(dir, Pcm)
  /\ Advance
  /\ UNCHANGED <<n, tvm, chunk, batch, A, B, chunkOut, out>>

\* Mutant of NextChunk: one chunk too many.
NextChunkPast ==
  /\ pc = "next" /\ chunk + 1 <= Chunks(n)
  /\ chunk' = chunk + 1
  /\ chunkOut' = <<>>
  /\ pc' = "stft"
  /\ UNCHANGED <<n, tvm, batch, A, B, out, pos, dir, stream>>

NextChunk ==
  /\ pc = "next" /\ chunk + 1 < Chunks(n)
  /\ chunk' = chunk + 1
  /\ chunkOut' = <<>>
  /\ pc' = "stft"
  /\ UNCHANGED <<n, tvm, batch, A, B, out, pos, dir, stream>>

\* saveAudioFile() refuses an empty file, and may fail otherwise.
Save ==
  /\ pc = "next" /\ chunk + 1 = Chunks(n)
  /\ out' = SubSeq(out, 1, Smaller(Len(out), n))
  /\ \/ out' # <<>> /\ pc' = "saved"
     \/ pc' = "failed"
  /\ CloseStream
  /\ UNCHANGED <<n, tvm, chunk, batch, A, B, chunkOut, pos, dir>>

Step == Stft \/ Deinterleave \/ Infer \/ Interleave \/ Istft \/ Keep \/ Publish
        \/ NextChunk \/ Save

----------------------------------------------------------------------------
SpeechType ==
  /\ n \in Lengths \cup {0} /\ tvm \in BOOLEAN
  /\ pc \in {"idle", "start", "stft", "deinterleave", "infer", "interleave",
             "istft", "keep", "publish", "next", "saved", "failed"}
  /\ chunk \in 0..(Chunks(n) - 1)
  /\ {batch, pos} \subseteq Nat /\ dir \in {0, 1}
  /\ \A f \in DOMAIN A : A[f] \in Frame
  /\ \A f \in DOMAIN B : B[f] \in Frame

\* The processed audio is the input's timeline without a gap, a repetition or
\* a value of another stage or chunk, although each chunk passes through the
\* same two buffers in batches and neighbours overlap ("adjacent chunks meet
\* at one boundary, including odd overlap frame counts"); and what is saved is
\* as long as what was loaded.
Timeline ==
  /\ \A s \in DOMAIN out : out[s] = [at |-> s - 1, by |-> "clean"]
  /\ pc = "saved" => Len(out) = n

\* "Publish only finalized samples, identical to the saved WAV": what a viewer
\* hears is one piece of the processed audio and one of the input, without a
\* gap, although a viewer may come between any two messages of any chunk.
HeardInOrder ==
  /\ PartOf(sent[1], out)
  /\ PartOf(sent[0], [s \in 1..n |-> [at |-> s - 1, by |-> "pcm"]])

=============================================================================
