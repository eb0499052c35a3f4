---------------------------- MODULE SpeechChunks ----------------------------
(***************************************************************************)
(* The arithmetic by which the speech pipeline cuts its input into chunks  *)
(* that overlap and decides which samples of each processed chunk it keeps *)
(* (speech_chunk_range.h and the chunking parameters of                    *)
(* run_speech_enhancement_pipeline).                                       *)
(***************************************************************************)
EXTENDS Integers

CONSTANTS
  HopSize,       \* samples of an STFT frame
  TotalFrames,   \* frames of a chunk
  OverlapFrames  \* frames a chunk shares with the one before it

ASSUME SpeechAssumption ==
  /\ HopSize \in Nat \ {0}
  /\ TotalFrames \in Nat \ {0}
  /\ OverlapFrames \in 0..(TotalFrames - 1)

ChunkSamples == TotalFrames * HopSize
HopSamples == (TotalFrames - OverlapFrames) * HopSize

\* n_chunks of an input of n samples.
Chunks(n) ==
  IF n <= ChunkSamples THEN 1
  ELSE 1 + (n - ChunkSamples + HopSamples - 1) \div HopSamples

Overlap == OverlapFrames * HopSize
Left == (OverlapFrames \div 2) * HopSize

\* Mutant of Right: an odd overlap loses its middle frame.
RightHalf == (OverlapFrames \div 2) * HopSize
Right == Overlap - Left

Offset(i) == i * (ChunkSamples - Overlap)
Begin(i) == IF i = 0 THEN 0 ELSE Left

\* The end before the input's own length is looked at.
FullEnd(i, chunks) == IF i + 1 < chunks THEN ChunkSamples - Right ELSE ChunkSamples

Available(i, n) == IF n > Offset(i) THEN n - Offset(i) ELSE 0

End(i, chunks, n) ==
  IF FullEnd(i, chunks) < Available(i, n) THEN FullEnd(i, chunks)
  ELSE Available(i, n)

\* Sample s of the input is one that chunk i of its Chunks(n) chunks keeps.
Keeps(i, s, n) ==
  Offset(i) + Begin(i) <= s /\ s < Offset(i) + End(i, Chunks(n), n)

=============================================================================
