----------------------------- MODULE RoundTrip -----------------------------
(***************************************************************************)
(* run_stft_istft_pipeline: analysis and synthesis without a model, chunk  *)
(* after chunk without overlap, over six DMA buffers.  The last batch of a *)
(* chunk has PAD_FRAMES = TOTAL_FRAMES % BATCH_N frames, which is none     *)
(* when the batches divide the chunk.                                      *)
(***************************************************************************)
EXTENDS StftFrames, AudioStream

CONSTANTS
  HopSize,  \* samples of an STFT frame
  Layouts,  \* [total, stft, istft]: frames of a chunk and of the two batches
  Lengths   \* samples of the input files

VARIABLES
  layout,  \* the parameters of the stages
  n,       \* original_sample_count
  pc,      \* the stage the loop is in
  chunk,   \* chunk_idx
  batch,   \* batch_idx
  dma,     \* the six DMA buffers
  left,    \* real_samples_remaining
  taken,   \* samples_to_collect of the batch
  out      \* processed_audio_data

loop == <<layout, n, pc, chunk, batch, dma, left, taken, out>>

NoDma == [audio |-> Blank(0), spectrum |-> Blank(0), planar |-> Blank(0),
          mixin |-> Blank(0), mixed |-> Blank(0), clean |-> Blank(0)]

NoLayout == [total |-> 1, stft |-> 1, istft |-> 1]

SizeOf(b, l) ==
  CASE b = "audio" -> l.stft
    [] b = "clean" -> l.istft
    [] OTHER -> l.total

RoundTripInit ==
  /\ layout = NoLayout
  /\ n = 0 /\ pc = "idle" /\ chunk = 0 /\ batch = 0
  /\ dma = NoDma /\ left = 0 /\ taken = 0 /\ out = <<>>

\* The frames of the file, and its chunks, the last of which may be partial.
FileFrames == Batches(n, HopSize)
FileChunks == Batches(FileFrames, layout.total)
RealFrames == Smaller(layout.total, FileFrames - chunk * layout.total)

\* The frames of this batch.
FramesOf(size) ==
  IF batch < Batches(layout.total, size) - 1 THEN size ELSE layout.total % size

\* What the run needs is there: the stages, the file, the DSP and the six buffers.
Start ==
  /\ pc = "start"
  /\ layout' \in Layouts
  /\ n' \in Lengths
  /\ dma' = [b \in DOMAIN NoDma |-> Blank(SizeOf(b, layout'))]
  /\ pc' = IF n' = 0 THEN "save" ELSE "fill"
  /\ UNCHANGED <<chunk, batch, left, taken, out, stream>>

\* The audio buffer with the PCM of this batch; what lies beyond the file is
\* zero, and so is the rest of the buffer.
Filled ==
  LET first == chunk * layout.total + batch * layout.stft
  IN [f \in DOMAIN dma.audio |->
        IF f < FramesOf(layout.stft) /\ first + f < FileFrames
        THEN [at |-> (first + f) * HopSize, by |-> "pcm"] ELSE NoFrame]

Fill ==
  /\ pc = "fill"
  /\ dma' = [dma EXCEPT !.audio = Filled]
  /\ SendFrame(0, Samples(Filled, FramesOf(layout.stft), HopSize))
  /\ pc' = "stft"
  /\ UNCHANGED <<layout, n, chunk, batch, left, taken, out>>

\* The next batch of the phase, or the next phase.
Onward(size, again, after) ==
  IF batch + 1 < Batches(layout.total, size)
  THEN batch' = batch + 1 /\ pc' = again
  ELSE batch' = 0 /\ pc' = after

Stft ==
  /\ pc = "stft"
  /\ dma' = [dma EXCEPT !.spectrum =
       Made(@, batch * layout.stft, dma.audio, 0, FramesOf(layout.stft), "pcm", "stft")]
  /\ Onward(layout.stft, "fill", "deinterleave")
  /\ UNCHANGED <<layout, n, chunk, left, taken, out, stream>>

Deinterleave ==
  /\ pc = "deinterleave"
  /\ dma' = [dma EXCEPT !.planar =
       Made(@, 0, dma.spectrum, 0, layout.total, "stft", "planar")]
  /\ pc' = "interleave"
  /\ UNCHANGED <<layout, n, chunk, batch, left, taken, out, stream>>

\* The planar spectra are copied through the host, and interleaved.
Interleave ==
  /\ pc = "interleave"
  /\ dma' = [dma EXCEPT !.mixin = dma.planar,
       !.mixed = Made(@, 0, dma.planar, 0, layout.total, "planar", "mixed")]
  /\ left' = RealFrames * HopSize
  /\ pc' = "istft"
  /\ UNCHANGED <<layout, n, chunk, batch, taken, out, stream>>

\* One batch of synthesis; of its samples those of real frames are kept.
Istft ==
  /\ pc = "istft"
  /\ LET count == FramesOf(layout.istft)
     IN /\ dma' = [dma EXCEPT !.clean =
             Made(@, 0, dma.mixed, batch * layout.istft, count, "mixed", "clean")]
        /\ taken' = Smaller(count * HopSize, left)
  /\ out' = out \o SubSeq(Samples(dma'.clean, layout.istft, HopSize), 1, taken')
  /\ left' = left - taken'
  /\ pc' = "send"
  /\ UNCHANGED <<layout, n, chunk, batch, stream>>

Send ==
  /\ pc = "send"
  /\ SendFrame(1, SubSeq(out, Len(out) - taken + 1, Len(out)))
  /\ Onward(layout.istft, "istft", "next")
  /\ UNCHANGED <<layout, n, chunk, dma, left, taken, out>>

NextChunk ==
  /\ pc = "next"
  /\ chunk' = chunk + 1
  /\ pc' = IF chunk' < FileChunks THEN "fill" ELSE "save"
  /\ UNCHANGED <<layout, n, batch, dma, left, taken, out, stream>>

\* A message, a synchronisation or a start can fail: nothing is saved, and
\* the destructor closes the stream.
StageFails ==
  /\ pc \in {"start", "stft", "deinterleave", "interleave", "istft"}
  /\ pc' = "failed"
  /\ CloseStream
  /\ UNCHANGED <<layout, n, chunk, batch, dma, left, taken, out>>

\* "Pipeline produced fewer samples than expected".
TooFew ==
  /\ pc = "save" /\ Len(out) < n
  /\ pc' = "failed"
  /\ CloseStream
  /\ UNCHANGED <<layout, n, chunk, batch, dma, left, taken, out>>

\* Mutant of Save: what was produced is saved, however little it is.
SaveAny ==
  /\ pc = "save"
  /\ out' = SubSeq(out, 1, Smaller(n, Len(out)))
  /\ pc' = IF out' # <<>> THEN "saved" ELSE "failed"
  /\ CloseStream
  /\ UNCHANGED <<layout, n, chunk, batch, dma, left, taken>>

\* saveAudioFile() refuses an empty file, and may fail otherwise.
Save ==
  /\ pc = "save" /\ Len(out) >= n
  /\ out' = SubSeq(out, 1, n)
  /\ \/ out' # <<>> /\ pc' = "saved"
     \/ pc' = "failed"
  /\ CloseStream
  /\ UNCHANGED <<layout, n, chunk, batch, dma, left, taken>>

Step == Fill \/ Stft \/ Deinterleave \/ Interleave \/ Istft \/ Send
        \/ NextChunk \/ TooFew \/ Save

----------------------------------------------------------------------------
RoundTripType ==
  /\ layout \in Layouts \cup {NoLayout} /\ n \in Lengths \cup {0}
  /\ pc \in {"idle", "start", "fill", "stft", "deinterleave", "interleave", "istft",
             "send", "next", "save", "saved", "failed"}
  /\ {chunk, batch, left, taken} \subseteq Nat
  /\ \A b \in DOMAIN dma : \A f \in DOMAIN dma[b] : dma[b][f] \in Frame

\* The STFT batches leave a remainder, as 64 does of 401 frames.
Uneven == layout.total % layout.stft # 0

\* Such a run saves the input, sample for sample, or nothing at all: ISTFT
\* batches that leave no remainder lose frames, but then too few samples are
\* there and the run fails.
Restored ==
  pc = "saved" /\ Uneven => out = [s \in 1..n |-> [at |-> s - 1, by |-> "clean"]]

\* The input, filled up to whole chunks.
Padded ==
  [s \in 1..(FileChunks * layout.total * HopSize) |->
     IF s <= FileFrames * HopSize THEN [at |-> s - 1, by |-> "pcm"] ELSE NoFrame]

\* What a viewer hears is one piece of the output, and one of the input,
\* without a gap.  (The file may end some zeros of the last frame earlier.)
HeardInOrder ==
  pc \notin {"saved", "failed"} =>
    /\ PartOf(sent[1], out)
    /\ Uneven => PartOf(sent[0], Padded)

=============================================================================
