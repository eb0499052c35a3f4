--------------------------- MODULE Classification ---------------------------
(***************************************************************************)
(* The three audio classification pipelines: windows of a WAV file, of PCM *)
(* from standard input that arrives in pieces, and of an ALSA device that  *)
(* overruns while a window is classified.  A sample is its position in the *)
(* source, from 1 on; a zero stands for padding.                           *)
(***************************************************************************)
EXTENDS Integers, Sequences

CONSTANTS
  Frames,     \* total_frames: frames of a window
  BatchSize,  \* batch_n: frames of one STFT message
  Hop,        \* hop_size: samples of a frame
  Sizes,      \* bytes of the sources, two to a sample
  MaxOverruns \* bound: overruns of the device

VARIABLES
  mode,     \* "file", "stream" or "device"
  n,        \* bytes of the source
  pc,       \* the stage the loop is in
  chunk,    \* chunk_idx
  batch,    \* batch_idx
  window,   \* audio_window
  done,     \* bytes_done (frames_done of the device, in bytes)
  eof,      \* eof
  source,   \* bytes of the source taken or lost
  overruns, \* overruns so far
  mel,      \* dma_mel, a frame of samples per frame
  got,      \* the samples loaded or read so far, in order
  out       \* the windows the model was given

listening == <<mode, n, window, done, eof, source, overruns, got>>

Window == Frames * Hop
Bytes == 2 * Window

Times == (Frames + BatchSize - 1) \div BatchSize

ClassificationInit ==
  /\ mode \in {"file", "stream", "device"} /\ n = 0 /\ pc = "idle" /\ chunk = 0 /\ batch = 0
  /\ window = <<>> /\ done = 0 /\ eof = FALSE /\ source = 0 /\ overruns = 0
  /\ mel = <<>> /\ got = <<>> /\ out = <<>>

\* What the run needs is there: both stages, artifacts, the DSP, the buffers,
\* and the file or the device.
Start ==
  /\ pc = "start"
  /\ n' \in Sizes
  /\ window' = [s \in 1..Window |-> 0]
  /\ mel' = [f \in 1..Frames |-> <<>>]
  /\ IF mode = "file" THEN got' = [s \in 1..(n' \div 2) |-> s] /\ pc' = "chunk"
                      ELSE got' = got /\ pc' = "read"
  /\ UNCHANGED <<mode, chunk, batch, done, eof, source, overruns, out>>

----------------------------------------------------------------------------
(* The window. *)

\* The file, filled up with zeros to whole frames.
FileSamples == n \div 2
FileFrames == (FileSamples + Hop - 1) \div Hop

\* The next full window of the file.
Chunk ==
  /\ pc = "chunk" /\ (chunk + 1) * Frames <= FileFrames
  /\ window' = [s \in 1..Window |->
                  IF chunk * Window + s <= FileSamples THEN chunk * Window + s ELSE 0]
  /\ chunk' = chunk + 1
  /\ pc' = "stft"
  /\ UNCHANGED <<mode, n, batch, done, eof, source, overruns, mel, got, out>>

\* The frames that remain do not fill a window.
FileDone ==
  /\ pc = "chunk" /\ (chunk + 1) * Frames > FileFrames
  /\ pc' = "passed"
  /\ UNCHANGED <<listening, chunk, batch, mel, out>>

\* The samples completed by the next k bytes of the source: a sample is there
\* when both of its bytes are.
Completed(k) == {s \in 1..Window : done < 2 * s /\ 2 * s <= done + k}
At(s) == (source - done) \div 2 + s

Take(k) ==
  /\ window' = [s \in 1..Window |-> IF s \in Completed(k) THEN At(s) ELSE window[s]]
  /\ got' = got \o [s \in 1..((done + k) \div 2 - done \div 2) |-> At(done \div 2 + s)]
  /\ done' = done + k
  /\ source' = source + k

\* read() returns as much of the rest of the window as is there, even half a
\* sample.
Read ==
  /\ pc = "read" /\ mode = "stream" /\ done < Bytes
  /\ \E k \in 1..(Bytes - done) : source + k <= n /\ Take(k)
  /\ UNCHANGED <<mode, n, pc, chunk, batch, eof, overruns, mel, out>>

\* Nothing is left, or read() fails.
EndOfInput ==
  /\ pc = "read" /\ mode = "stream" /\ done < Bytes
  /\ eof' = TRUE
  /\ pc' = "full"
  /\ UNCHANGED <<mode, n, chunk, batch, window, done, source, overruns, mel, got, out>>

\* snd_pcm_readi() returns whole samples; while the reader is elsewhere the
\* device captures on.
Capture ==
  /\ pc = "read" /\ mode = "device" /\ done < Bytes
  /\ \E k \in 1..((Bytes - done) \div 2) : source + 2 * k <= n /\ Take(2 * k)
  /\ UNCHANGED <<mode, n, pc, chunk, batch, eof, overruns, mel, out>>

\* The device overran, samples are lost, and snd_pcm_recover() starts it
\* again; what the window holds stays in it.
Overrun ==
  /\ pc = "read" /\ mode = "device" /\ done < Bytes /\ overruns < MaxOverruns
  /\ overruns' = overruns + 1
  /\ source' = source + 2
  /\ UNCHANGED <<mode, n, pc, chunk, batch, window, done, eof, mel, got, out>>

WindowRead ==
  /\ pc = "read" /\ done = Bytes
  /\ pc' = "full"
  /\ UNCHANGED <<listening, chunk, batch, mel, out>>

\* Mutant of Full: a partial window is not padded.
FullUnpadded ==
  /\ pc = "full"
  /\ pc' = IF eof /\ done = 0 THEN "passed" ELSE "stft"
  /\ UNCHANGED <<listening, chunk, batch, mel, out>>

\* A clean end, or a window whose last samples are zeroed when the source
\* ended inside it.
Full ==
  /\ pc = "full"
  /\ window' = [s \in 1..Window |-> IF s <= done \div 2 THEN window[s] ELSE 0]
  /\ pc' = IF eof /\ done = 0 THEN "passed" ELSE "stft"
  /\ UNCHANGED <<mode, n, chunk, batch, done, eof, source, overruns, mel, got, out>>

----------------------------------------------------------------------------
(* The model. *)

FrameOf(f) == SubSeq(window, (f - 1) * Hop + 1, f * Hop)

\* The last batch has last_batch_frames.
Stft ==
  /\ pc = "stft"
  /\ mel' = [f \in 1..Frames |->
       IF batch * BatchSize < f /\ f <= (batch + 1) * BatchSize
       THEN FrameOf(f) ELSE mel[f]]
  /\ IF batch + 1 < Times THEN batch' = batch + 1 /\ pc' = pc
                          ELSE batch' = 0 /\ pc' = "infer"
  /\ UNCHANGED <<listening, chunk, out>>

\* The frames of the window, one after another.
Given == [s \in 1..Window |-> mel[(s - 1) \div Hop + 1][((s - 1) % Hop) + 1]]

Infer ==
  /\ pc = "infer"
  /\ out' = Append(out, Given)
  /\ done' = 0
  /\ pc' = IF mode = "file" THEN "chunk" ELSE IF eof THEN "passed" ELSE "read"
  /\ UNCHANGED <<mode, n, chunk, batch, window, eof, source, overruns, mel, got>>

\* A stage fails, or the device cannot be recovered.
StageFails ==
  /\ pc \in {"start", "stft", "infer"} \/ (pc = "read" /\ mode = "device")
  /\ pc' = "failed"
  /\ UNCHANGED <<listening, chunk, batch, mel, out>>

\* "loop exits only via signal": the device never ends.
Interrupted ==
  /\ pc = "read" /\ mode = "device"
  /\ pc' = "killed"
  /\ UNCHANGED <<listening, chunk, batch, mel, out>>

Step == Chunk \/ FileDone \/ Read \/ EndOfInput \/ Capture \/ WindowRead \/ Full
        \/ Stft \/ Infer

----------------------------------------------------------------------------
ClassificationType ==
  /\ mode \in {"file", "stream", "device"} /\ n \in Sizes \cup {0}
  /\ pc \in {"idle", "start", "chunk", "read", "full", "stft", "infer", "passed",
             "failed", "killed"}
  /\ done \in 0..Bytes /\ eof \in BOOLEAN /\ overruns \in 0..MaxOverruns
  /\ {chunk, batch, source} \subseteq Nat

\* The number of sample s of window w among all that are read.
Place(w, s) == (w - 1) * Window + s

\* What was read reaches the model once, in order, whatever the pieces it was
\* read in, the overruns between them and the batches: no sample of an earlier
\* window is seen again and none is skipped.  Only the last window of a file
\* or a stream holds zeros, and only behind its samples; a file's windows are
\* its samples up to the last full one.
EachSampleOnce ==
  /\ \A w \in DOMAIN out : \A s \in 1..Window :
       out[w][s] = IF Place(w, s) <= Len(got) THEN got[Place(w, s)] ELSE 0
  /\ \A w \in DOMAIN out : w < Len(out) => Place(w, Window) <= Len(got)
  /\ mode # "file" /\ pc \in {"read", "killed"} =>
       /\ Len(got) = Len(out) * Window + done \div 2
       /\ \A s \in 1..(done \div 2) : window[s] = got[Place(Len(out) + 1, s)]
  /\ pc = "passed" =>
       IF mode = "file" THEN Len(out) = FileFrames \div Frames
                        ELSE Len(got) <= Len(out) * Window
  /\ \A i \in DOMAIN got :
       IF mode = "device" THEN i > 1 => got[i - 1] < got[i] ELSE got[i] = i

=============================================================================
