-------------------------- MODULE PipelinesProofs --------------------------
(***************************************************************************)
(* Proofs about Pipelines for any geometry, any layout of batches and any  *)
(* length of the input: its types, and each of the safety properties that  *)
(* are stated there.  Nothing is written before a pipeline starts (Fresh); *)
(* from then on each pipeline has an invariant of its own, which speaks of *)
(* the run only if that pipeline has Begun:                                *)
(*                                                                         *)
(*   SpeechInv  every buffer holds a row of frames of the current chunk,   *)
(*              as the last stage left them, up to the current batch, and  *)
(*              the output follows the input up to where the chunk keeps;  *)
(*   TripInv    the same of the six buffers of a round trip, whose output  *)
(*              is either whole or short of a frame at least: what is lost *)
(*              is never made up, and the length gives it away;            *)
(*   ClassInv   the window holds the samples that come after those given,  *)
(*              as far as they have been read, whatever the pieces.        *)
(*                                                                         *)
(* What a viewer has heard is a piece of a sequence, which ends where the  *)
(* stream is as long as the viewer is there (SentInv, TripSent).           *)
(***************************************************************************)
EXTENDS Pipelines, SequenceTheorems, TLAPS

(* Chunks of the speech enhancement pipeline. *)

LEMMA Geometry ==
  /\ HopSamples \in Nat \ {0} /\ ChunkSamples \in Nat /\ Overlap \in Nat
  /\ Left \in Nat /\ Right \in Nat
  /\ ChunkSamples = HopSamples + Overlap
  /\ Overlap = Left + Right
<1> USE SpeechAssumption
<1>1. TotalFrames - OverlapFrames \in Nat \ {0} /\ OverlapFrames \in Nat
  OBVIOUS
<1>2. \A a, b \in Nat : a * b \in Nat
  OBVIOUS
<1>3. \A a, b \in Nat \ {0} : a * b \in Nat \ {0}
  OBVIOUS
<1>4. HopSamples \in Nat \ {0} BY <1>1, <1>3 DEF HopSamples
<1>5. ChunkSamples \in Nat /\ Overlap \in Nat BY <1>1, <1>2 DEF ChunkSamples, Overlap
<1>6. ChunkSamples = HopSamples + Overlap
  BY <1>1 DEF ChunkSamples, HopSamples, Overlap
<1>7. OverlapFrames \div 2 \in Nat /\ OverlapFrames - (OverlapFrames \div 2) \in Nat
  BY <1>1
<1>8. Left \in Nat BY <1>2, <1>7 DEF Left
<1>9. Right = (OverlapFrames - (OverlapFrames \div 2)) * HopSize
  BY <1>1, <1>7 DEF Right, Overlap, Left
<1>10. Right \in Nat BY <1>2, <1>7, <1>9
<1>11. QED BY <1>4, <1>5, <1>6, <1>8, <1>10 DEF Right

LEMMA Division ==
  ASSUME NEW a \in Nat, NEW d \in Nat \ {0}
  PROVE  /\ a \div d \in Nat
         /\ (a \div d) * d <= a
         /\ a < (a \div d) * d + d
OBVIOUS

LEMMA Monotone ==
  ASSUME NEW i \in Nat, NEW j \in Nat, i < j, NEW d \in Nat
  PROVE  i * d + d <= j * d
<1>1. j - i - 1 \in Nat
  OBVIOUS
<1>2. (j - i - 1) * d \in Nat BY <1>1
<1>3. j * d = i * d + d + (j - i - 1) * d BY <1>1
<1>4. QED BY <1>2, <1>3

\* The chunks reach the end of the input.
LEMMA Reach ==
  ASSUME NEW m \in Nat
  PROVE  /\ Chunks(m) \in Nat \ {0}
         /\ m <= (Chunks(m) - 1) * HopSamples + ChunkSamples
<1> DEFINE hop == HopSamples
           a == m - ChunkSamples + HopSamples - 1
<1>1. CASE m <= ChunkSamples BY <1>1, Geometry DEF Chunks
<1>2. CASE ~(m <= ChunkSamples)
  <2>1. a \in Nat BY <1>2, Geometry
  <2>2. a \div hop \in Nat /\ a < (a \div hop) * hop + hop
    BY <2>1, Division, Geometry
  <2>3. Chunks(m) = 1 + (a \div hop) BY <1>2 DEF Chunks
  <2>4. (a \div hop) * hop \in Nat BY <2>2, Geometry
  <2>5. m - ChunkSamples <= (a \div hop) * hop BY <2>2, <2>4, Geometry
  <2>6. Chunks(m) - 1 = a \div hop BY <2>2, <2>3
  <2>7. QED BY <2>2, <2>3, <2>4, <2>5, <2>6, Geometry
<1>3. QED BY <1>1, <1>2

\* What a chunk keeps, in terms of the step.
LEMMA KeepsWhat ==
  ASSUME NEW m \in Nat, NEW s \in 0..(m - 1), NEW i \in 0..(Chunks(m) - 1)
  PROVE  /\ i \in Nat /\ i * HopSamples \in Nat
         /\ Keeps(i, s, m) <=>
              /\ i = 0 \/ i * HopSamples + Left <= s
              /\ IF i < Chunks(m) - 1 THEN s < i * HopSamples + HopSamples + Left
                 ELSE s < i * HopSamples + ChunkSamples
<1>1. i \in Nat /\ s \in Nat /\ Chunks(m) \in Nat BY Reach
<1>2. i * HopSamples \in Nat BY <1>1, Geometry
<1>3. Offset(i) = i * HopSamples
  BY Geometry DEF Offset
<1>4. FullEnd(i, Chunks(m)) =
        IF i < Chunks(m) - 1 THEN HopSamples + Left ELSE ChunkSamples
  BY <1>1, Geometry DEF FullEnd
<1>5. (s < Offset(i) + End(i, Chunks(m), m)) <=> (s < Offset(i) + FullEnd(i, Chunks(m)))
  <2> DEFINE f == FullEnd(i, Chunks(m))
             o == Offset(i)
  <2>1. f \in Nat /\ o \in Nat BY <1>2, <1>3, <1>4, Geometry
  <2>2. s < m BY <1>1
  <2>3. End(i, Chunks(m), m) = IF m > o THEN IF f < m - o THEN f ELSE m - o
                               ELSE IF f < 0 THEN f ELSE 0
    BY DEF End, Available
  <2> HIDE DEF f, o
  <2>4. CASE m > o BY <2>1, <2>2, <2>3, <2>4, <1>1
    DEF f, o
  <2>5. CASE ~(m > o)
    BY <2>1, <2>2, <2>3, <2>5, <1>1 DEF f, o
  <2>6. QED BY <2>4, <2>5
<1>6. (Offset(i) + Begin(i) <= s) <=> (i = 0 \/ i * HopSamples + Left <= s)
  BY <1>1, <1>2, <1>3, Geometry DEF Begin
<1>7. QED BY <1>1, <1>2, <1>3, <1>4, <1>5, <1>6, Geometry DEF Keeps

\* Two chunks never keep the same sample.
LEMMA Disjoint ==
  ASSUME NEW m \in Nat, NEW s \in 0..(m - 1),
         NEW i \in 0..(Chunks(m) - 1), NEW j \in 0..(Chunks(m) - 1),
         Keeps(i, s, m), Keeps(j, s, m)
  PROVE  ~(i < j)
<1>1. SUFFICES ASSUME i < j PROVE FALSE
  OBVIOUS
<1>2. i \in Nat /\ j \in Nat /\ Chunks(m) \in Nat BY Reach
<1>3. i < Chunks(m) - 1 /\ j # 0 BY <1>1, <1>2
<1>4. s < i * HopSamples + HopSamples + Left BY <1>3, KeepsWhat
<1>5. j * HopSamples + Left <= s BY <1>3, KeepsWhat
<1>6. i * HopSamples + HopSamples <= j * HopSamples
  BY <1>1, <1>2, Monotone, Geometry
<1>7. i * HopSamples \in Nat /\ j * HopSamples \in Nat BY KeepsWhat
<1>8. QED BY <1>4, <1>5, <1>6, <1>7, Geometry

\* Some chunk keeps each sample.
LEMMA Covered ==
  ASSUME NEW m \in Nat, NEW s \in 0..(m - 1)
  PROVE  \E i \in 0..(Chunks(m) - 1) : Keeps(i, s, m)
<1> DEFINE hop == HopSamples
           last == Chunks(m) - 1
           q == (s - Left) \div hop
<1>1. last \in Nat /\ s \in Nat /\ m <= last * hop + ChunkSamples BY Reach
<1>2. last * hop \in Nat BY <1>1, Geometry
<1>3. CASE s < hop + Left
  <2>1. 0 \in 0..(Chunks(m) - 1) BY <1>1
  <2>2. 0 * hop = 0 BY Geometry
  <2>3. Keeps(0, s, m)
    BY <1>1, <1>3, <2>1, <2>2, KeepsWhat, Geometry
  <2>4. QED BY <2>1, <2>3
<1>4. CASE ~(s < hop + Left)
  <2>1. s - Left \in Nat BY <1>1, <1>4, Geometry
  <2>2. q \in Nat /\ q * hop <= s - Left /\ s - Left < q * hop + hop
    BY <2>1, Division, Geometry
  <2>3. q * hop \in Nat BY <2>2, Geometry
  <2>4. CASE q < last
    <3>1. q \in 0..(Chunks(m) - 1) BY <2>2, <2>4, <1>1
    <3>2. q * hop + Left <= s /\ s < q * hop + hop + Left
      <4> DEFINE p == q * hop
      <4>1. p \in Int /\ p <= s - Left /\ s - Left < p + hop BY <2>2, <2>3
      <4> HIDE DEF p
      <4>2. p + Left <= s /\ s < p + hop + Left BY <1>1, <4>1, Geometry
      <4>3. QED BY <4>2 DEF p
    <3>3. Keeps(q, s, m)
      <4> HIDE DEF q
      <4>1. QED BY <2>4, <3>1, <3>2, KeepsWhat
    <3>4. QED BY <3>1, <3>3
  <2>5. CASE ~(q < last)
    <3>1. last \in 0..(Chunks(m) - 1) BY <1>1
    <3>2. last * hop <= q * hop
      <4>1. CASE last = q BY <4>1, <2>3
      <4>2. CASE last # q
        <5>1. last < q BY <2>2, <2>5, <4>2, <1>1
        <5>2. QED BY <5>1, <2>2, <1>1, <1>2, <2>3, Monotone, Geometry
      <4>3. QED BY <4>1, <4>2
    <3>3. last * hop + Left <= s BY <1>1, <1>2, <2>1, <2>2, <2>3, <3>2, Geometry
    <3>4. s < last * hop + ChunkSamples BY <1>1, <1>2, Geometry
    <3>5. Keeps(last, s, m) BY <1>1, <3>1, <3>3, <3>4, KeepsWhat
    <3>6. QED BY <3>1, <3>5
  <2>6. QED BY <2>4, <2>5
<1>5. QED BY <1>3, <1>4

\* Every sample of the input is kept by exactly one chunk, for any geometry
\* the pipeline accepts, odd overlaps included (speech_chunk_range.h:8).
THEOREM Tiling ==
  \A m \in Nat : \A s \in 0..(m - 1) :
    \E i \in 0..(Chunks(m) - 1) :
      Keeps(i, s, m) /\ \A j \in 0..(Chunks(m) - 1) : Keeps(j, s, m) => j = i
<1>1. SUFFICES ASSUME NEW m \in Nat, NEW s \in 0..(m - 1)
      PROVE  \E i \in 0..(Chunks(m) - 1) :
               Keeps(i, s, m) /\ \A j \in 0..(Chunks(m) - 1) : Keeps(j, s, m) => j = i
  OBVIOUS
<1>2. PICK i \in 0..(Chunks(m) - 1) : Keeps(i, s, m) BY Covered
<1>3. ASSUME NEW j \in 0..(Chunks(m) - 1), Keeps(j, s, m) PROVE j = i
  <2>1. ~(i < j) /\ ~(j < i) BY <1>2, <1>3, Disjoint
  <2>2. i \in Int /\ j \in Int
    OBVIOUS
  <2>3. QED BY <2>1, <2>2
<1>4. QED BY <1>2, <1>3

----------------------------------------------------------------------------
\* Before a pipeline has started.
Fresh ==
  /\ n = 0 /\ chunk = 0 /\ batch = 0 /\ out = <<>>
  /\ tvm = FALSE /\ A = S!Blank(0) /\ B = S!Blank(0) /\ chunkOut = <<>> /\ pos = 0 /\ dir = 0
  /\ layout = R!NoLayout /\ dma = R!NoDma /\ left = 0 /\ taken = 0
  /\ window = <<>> /\ done = 0 /\ eof = FALSE /\ source = 0 /\ overruns = 0
  /\ mel = <<>> /\ got = <<>>
  /\ viewer = "away" /\ sent = S!Nothing

Before == {"open", "artifacts", "checks", "rejected"}

\* The manager: what it checked holds when the pipeline starts, and the model
\* is used only when its artifacts are there.
ManagerInv ==
  /\ step \in Before \cup {"run", "success", "error"}
  /\ how \in {"file", "stream", "device"}
  /\ doc \in Docs /\ configured \in BOOLEAN
  /\ pipeline \in (Types \ {"other"}) \cup {"none"}
  /\ step \in Before => pipeline = "none" /\ pc = "idle"
  /\ step \notin Before => pipeline # "none" /\ pc # "idle"
  /\ step \in {"artifacts", "checks"} => how = "file" \/ doc.type = "audio_classification"
  /\ pc \in {"idle", "start"} => Fresh
  /\ step = "run" /\ pc = "start" => Validated
  /\ Runs("audio_classification") /\ pc \notin {"start", "failed"} => configured
  /\ tvm => configured
  /\ viewer \in {"away", "waiting", "accepted", "left"}
  /\ wire \in 0..Room /\ views \in 0..MaxViews

\* A frame, or a sample, and what made it.
Piece(at, stage) == [at |-> at, by |-> stage]

\* Frames, and samples, that follow one another, all by one stage.
Row(buffer, count, base, stage) ==
  \A f \in 0..(count - 1) : buffer[f] = Piece(base + f * HopSize, stage)
RowFrom(buffer, from, count, base, stage) ==
  \A k \in 0..(count - 1) : buffer[from + k] = Piece(base + k * HopSize, stage)
Follows(seq, from, stage) == \A j \in DOMAIN seq : seq[j] = Piece(from + j - 1, stage)

----------------------------------------------------------------------------
(* Speech enhancement: its buffers, and its output up to where it is. *)
Holds(buffer, count, stage) == Row(buffer, count, Offset(chunk), stage)

Stages == {"stft", "deinterleave", "infer", "interleave", "istft", "keep", "publish", "next"}
Planar == IF tvm THEN "model" ELSE "planar"

SpeechTypes ==
  /\ n \in Lengths \cup {0} /\ tvm \in BOOLEAN
  /\ pc \in Stages \cup {"start", "saved", "failed"}
  /\ chunk \in 0..(Chunks(n) - 1)
  /\ batch \in Nat /\ pos \in Nat /\ dir \in {0, 1}
  /\ \A f \in DOMAIN A : A[f] \in S!Frame
  /\ \A f \in DOMAIN B : B[f] \in S!Frame
  /\ pc \in Stages => DOMAIN A = 0..(S!ASize - 1) /\ DOMAIN B = 0..(TotalFrames - 1)

Buffers ==
  /\ pc = "stft" => batch * BatchN < TotalFrames /\ Holds(B, batch * BatchN, "stft")
  /\ pc = "deinterleave" => Holds(B, TotalFrames, "stft")
  /\ pc = "infer" => Holds(A, TotalFrames, "planar")
  /\ pc = "interleave" => Holds(A, TotalFrames, Planar)
  /\ pc = "istft" => batch * IstftBatchN < TotalFrames /\ Holds(B, TotalFrames, "mixed")
  /\ pc \notin {"stft", "istft", "failed"} => batch = 0

\* The samples of the chunk that were synthesised.
ChunkDone ==
  CASE pc = "istft" -> batch * IstftBatchN * HopSize
    [] pc \in {"keep", "publish", "next"} -> ChunkSamples
    [] OTHER -> 0

Last == End(chunk, Chunks(n), n)

OutInv ==
  /\ chunkOut \in Seq(S!Frame)
  /\ pc \in Stages => Len(chunkOut) = ChunkDone /\ Follows(chunkOut, Offset(chunk), "clean")
  /\ out \in Seq(S!Frame) /\ Follows(out, 0, "clean") /\ Len(out) <= n
  /\ pc \in {"stft", "deinterleave", "infer", "interleave", "istft", "keep"} =>
       Len(out) = Offset(chunk) + Begin(chunk)
  /\ pc \in {"publish", "next"} => Len(out) = Offset(chunk) + Last
  /\ pc = "saved" => Len(out) = n
  /\ pc = "publish" => Begin(chunk) <= pos /\ pos < Last
  /\ pc # "publish" => dir = 0

\* Where the stream of the input, and that of the output, are.
Front(d) ==
  IF pc = "publish"
  THEN Offset(chunk) + (IF d = 0 /\ dir = 1 THEN S!Smaller(pos + StreamFrame, Last) ELSE pos)
  ELSE Len(out)

Kind(d) == IF d = 0 THEN "pcm" ELSE "clean"

SentInv ==
  /\ sent \in [{0, 1} -> Seq(S!Frame)]
  /\ \A d \in {0, 1} : \E a \in 0..(Front(d) - Len(sent[d])) :
       /\ Follows(sent[d], a, Kind(d))
       /\ viewer \in {"waiting", "accepted"} /\ sent[d] # <<>> => a + Len(sent[d]) = Front(d)

SpeechInv == SpeechTypes /\ Buffers /\ OutInv /\ SentInv

----------------------------------------------------------------------------
(* The STFT/ISTFT round trip. *)
Total == layout.total
TripStages == {"fill", "stft", "deinterleave", "interleave", "istft", "send", "next"}
DmaNames == {"audio", "spectrum", "planar", "mixin", "mixed", "clean"}

\* A buffer that is indexed by integers and holds frames.
Typed(buffer) == \A f \in DOMAIN buffer : f \in Int /\ buffer[f] \in S!Frame

TripTypes ==
  /\ layout \in Layouts \cup {R!NoLayout} /\ n \in Lengths \cup {0}
  /\ pc \in TripStages \cup {"start", "save", "saved", "failed"}
  /\ chunk \in Nat /\ batch \in Nat /\ left \in Nat /\ taken \in Nat
  /\ DOMAIN dma = DmaNames
  /\ \A b \in DmaNames : Typed(dma[b])
  /\ pc \in TripStages => /\ \A b \in DmaNames : DOMAIN dma[b] = 0..(R!SizeOf(b, layout) - 1)
                          /\ chunk * Total < R!FileFrames
  /\ pc \in {"fill", "stft"} => batch * layout.stft < Total
  /\ pc \in {"istft", "send"} => batch * layout.istft < Total
  /\ pc \notin {"fill", "stft", "istft", "send", "failed"} => batch = 0

\* Frame f of a chunk that begins at frame base and has real frames of the
\* file, as a stage leaves it; and some frames of a buffer that are those of
\* the chunk from frame first on.
Mark(base, real, f, by) == IF f < real THEN Piece((base + f) * HopSize, by) ELSE S!NoFrame
Marks(buffer, from, first, count, base, real, by) ==
  \A k \in 0..(count - 1) : buffer[from + k] = Mark(base, real, first + k, by)
Marked(buffer, count, by) == Marks(buffer, 0, 0, count, chunk * Total, R!RealFrames, by)

\* Only a run whose batches leave a remainder keeps every frame.
TripBuffers ==
  R!Uneven =>
  /\ pc \in {"fill", "stft"} => Marked(dma.spectrum, batch * layout.stft, "stft")
  /\ pc = "stft" => Marks(dma.audio, 0, batch * layout.stft, R!FramesOf(layout.stft),
                          chunk * Total, R!RealFrames, "pcm")
  /\ pc = "deinterleave" => Marked(dma.spectrum, Total, "stft")
  /\ pc = "interleave" => Marked(dma.planar, Total, "planar")
  /\ pc \in {"istft", "send"} => Marked(dma.mixed, Total, "mixed")

\* The frames of the chunk that were synthesised.
Synthesised ==
  CASE pc = "istft" -> batch * layout.istft
    [] pc = "send" -> batch * layout.istft + R!FramesOf(layout.istft)
    [] OTHER -> 0

\* The samples that should have been collected by now; all of them, in
\* order, or fewer by a frame at least.
Collected ==
  CASE pc \in {"istft", "send", "next"} -> (chunk * Total + R!RealFrames) * HopSize - left
    [] pc = "save" -> R!FileFrames * HopSize
    [] OTHER -> chunk * Total * HopSize

Whole(seq, count) == Len(seq) = count /\ Follows(seq, 0, "clean")
Short(seq, count) == Len(seq) + HopSize <= count

TripOut ==
  /\ out \in Seq(S!Frame)
  /\ pc \in {"istft", "send"} =>
       left = (R!RealFrames - S!Smaller(R!RealFrames, Synthesised)) * HopSize
  /\ pc = "next" => left = 0 \/ left >= HopSize
  /\ pc = "send" => taken <= Len(out)
  /\ pc = "save" => chunk = R!FileChunks
  /\ R!Uneven /\ pc \in TripStages \cup {"save"} => Whole(out, Collected) \/ Short(out, Collected)
  /\ R!Restored

\* Where the two streams of a round trip are.
TripFront(d) ==
  IF d = 1 THEN IF pc = "send" THEN Len(out) - taken ELSE Len(out)
  ELSE CASE pc = "fill" -> (chunk * Total + batch * layout.stft) * HopSize
         [] pc = "stft" -> (chunk * Total + batch * layout.stft + R!FramesOf(layout.stft)) * HopSize
         [] pc \in {"start", "save"} -> chunk * Total * HopSize
         [] OTHER -> (chunk + 1) * Total * HopSize

\* A piece of a sequence, which ends at its front while the viewer is there.
CutFrom(seq, all, front, open) ==
  \E a \in 0..(front - Len(seq)) :
    /\ \A j \in DOMAIN seq : seq[j] = all[a + j]
    /\ open /\ seq # <<>> => a + Len(seq) = front

Attached == viewer \in {"waiting", "accepted"}

TripSent ==
  pc \notin {"saved", "failed"} =>
  /\ sent \in [{0, 1} -> Seq(S!Frame)]
  /\ CutFrom(sent[1], out, TripFront(1), Attached)
  /\ R!Uneven => CutFrom(sent[0], R!Padded, TripFront(0), Attached)

TripInv == TripTypes /\ TripBuffers /\ TripOut /\ TripSent

----------------------------------------------------------------------------
(* Audio classification. *)
\* The samples in the windows that were given.
Base == Len(out) * C!Window

ClassTypes ==
  /\ n \in Sizes \cup {0}
  /\ pc \in {"start", "chunk", "read", "full", "stft", "infer", "passed", "failed", "killed"}
  /\ done \in 0..C!Bytes /\ eof \in BOOLEAN /\ overruns \in 0..MaxOverruns
  /\ chunk \in Nat /\ batch \in Nat /\ source \in Nat
  /\ got \in Seq(Nat) /\ out \in Seq([1..C!Window -> Nat])
  /\ pc \notin {"start", "failed"} => window \in [1..C!Window -> Nat] /\ DOMAIN mel = 1..Frames

\* The window holds the first count of the samples that are not given yet;
\* the window holds the next samples, and zeros when there are no more; and
\* the first count frames of the window are in the buffer of the model.
SoFar(w, g, base, count) == Len(g) = base + count /\ \A s \in 1..count : w[s] = g[base + s]
Upcoming(w, g, base) ==
  base <= Len(g) /\ \A s \in 1..C!Window : w[s] = IF base + s <= Len(g) THEN g[base + s] ELSE 0
MelTo(count) == \A f \in 1..Frames : f <= count => mel[f] = C!FrameOf(f)

Reading ==
  /\ pc = "chunk" => how = "file" /\ chunk = Len(out) /\ chunk * Frames <= C!FileFrames
  /\ pc \in {"read", "full", "killed"} => how # "file" /\ SoFar(window, got, Base, done \div 2)
  /\ pc \in {"read", "killed"} => eof = FALSE
  /\ pc = "full" => eof \/ done = C!Bytes
  /\ pc \in {"stft", "infer"} =>
       /\ Upcoming(window, got, Base)
       /\ how = "file" => chunk = Len(out) + 1 /\ chunk * Frames <= C!FileFrames
       /\ how # "file" => Len(got) = Base + (done \div 2) /\ (eof \/ done = C!Bytes)
  /\ pc = "stft" => batch * BatchSize < Frames /\ MelTo(batch * BatchSize)
  /\ pc = "infer" => MelTo(Frames)
  /\ pc \notin {"stft", "failed"} => batch = 0

Even(x) == x = 2 * (x \div 2)
Ordered(g) ==
  \A i \in DOMAIN g : IF how = "device" THEN i > 1 => g[i - 1] < g[i] ELSE g[i] = i

\* What was read: all of a file, the stream without a gap, and increasing
\* positions of a device, whose bytes are read two at a time.
Sources ==
  /\ how = "file" /\ pc \notin {"start", "failed"} => Len(got) = C!FileSamples
  /\ Ordered(got)
  /\ how = "stream" /\ pc \in {"read", "full", "stft", "infer"} => source = 2 * Base + done
  /\ how = "device" =>
       /\ Even(done) /\ Even(source) /\ done <= source
       /\ \A i \in DOMAIN got : got[i] <= source \div 2

\* The windows that were given are the samples, in order.
Placed(o, g) ==
  /\ \A w \in DOMAIN o : \A s \in 1..C!Window :
       o[w][s] = IF C!Place(w, s) <= Len(g) THEN g[C!Place(w, s)] ELSE 0
  /\ \A w \in DOMAIN o : w < Len(o) => C!Place(w, C!Window) <= Len(g)

AllGiven ==
  pc = "passed" => IF how = "file" THEN Len(out) = C!FileFrames \div Frames
                                   ELSE Len(got) <= Len(out) * C!Window

ClassInv == ClassTypes /\ Reading /\ Sources /\ Placed(out, got) /\ AllGiven

----------------------------------------------------------------------------
(* The manager, the wire and the descriptions. *)

LEMMA StartsFresh == Init => ManagerInv
<1> SUFFICES ASSUME Init PROVE ManagerInv OBVIOUS
<1> USE DEF Init
<1>1. Fresh /\ pc = "idle"
  BY DEF Fresh, S!SpeechInit, R!RoundTripInit, C!ClassificationInit, S!StreamInit
<1>2. how \in {"file", "stream", "device"} BY DEF C!ClassificationInit
<1>3. doc \in Docs BY DEF NoDoc, Docs, Types
<1>4. wire \in 0..Room /\ views \in 0..MaxViews BY PipelinesAssumption DEF S!StreamInit
<1>5. viewer = "away" /\ tvm = FALSE BY DEF S!StreamInit, S!SpeechInit
<1> QED BY <1>1, <1>2, <1>3, <1>4, <1>5 DEF ManagerInv, Before, Runs, Types

\* What a step of a pipeline may do, as far as the manager is concerned.
LEMMA PipelineStep ==
  ASSUME ManagerInv, UNCHANGED <<step, how, configured, pipeline>>,
         step = "run", doc' \in {doc, NoDoc}, pc' \notin {"idle", "start"},
         pipeline = "audio_classification" /\ pc' # "failed" => configured,
         tvm' => configured,
         viewer' \in {"away", "waiting", "accepted", "left"}, wire' \in 0..Room,
         views' \in 0..MaxViews
  PROVE  ManagerInv'
<1>1. doc' \in Docs
  <2>1. doc \in Docs BY DEF ManagerInv
  <2>2. NoDoc \in Docs BY DEF NoDoc, Docs, Types
  <2> QED BY <2>1, <2>2
<1> QED BY <1>1 DEF ManagerInv, Before, Runs

\* A step of a pipeline leaves the wire alone, sends one message or closes it.
Streaming ==
  \/ UNCHANGED <<viewer, wire, views>>
  \/ \E d, pcm : S!SendFrame(d, pcm)
  \/ S!CloseStream

LEMMA WireType ==
  ASSUME ManagerInv, Streaming
  PROVE  /\ viewer' \in {"away", "waiting", "accepted", "left"}
         /\ wire' \in 0..Room /\ views' \in 0..MaxViews
BY PipelinesAssumption DEF ManagerInv, Streaming, S!CloseStream, S!SendFrame

LEMMA SpeechSteps ==
  ASSUME S!Step
  PROVE  /\ pc' \notin {"idle", "start"} /\ tvm' = tvm /\ Streaming
<1>1. CASE S!Stft BY <1>1 DEF S!Stft, Streaming, S!stream
<1>2. CASE S!Deinterleave BY <1>2 DEF S!Deinterleave, Streaming, S!stream
<1>3. CASE S!Infer BY <1>3 DEF S!Infer, Streaming, S!stream
<1>4. CASE S!Interleave BY <1>4 DEF S!Interleave, Streaming, S!stream
<1>5. CASE S!Istft BY <1>5 DEF S!Istft, Streaming, S!stream
<1>6. CASE S!Keep BY <1>6 DEF S!Keep, Streaming, S!stream
<1>7. CASE S!Publish
  <2>1. S!SendFrame(dir, S!Pcm) /\ tvm' = tvm /\ pc' \in {"next", "publish"}
     BY <1>7 DEF S!Publish, S!Advance
  <2> QED BY <2>1 DEF Streaming
<1>8. CASE S!NextChunk BY <1>8 DEF S!NextChunk, Streaming, S!stream
<1>9. CASE S!Save BY <1>9 DEF S!Save, Streaming, S!stream
<1> QED BY <1>1, <1>2, <1>3, <1>4, <1>5, <1>6, <1>7, <1>8, <1>9 DEF S!Step

LEMMA TripSteps ==
  ASSUME R!Step
  PROVE  pc' \notin {"idle", "start"} /\ Streaming
<1>1. CASE R!Fill
  <2>1. R!SendFrame(0, R!Samples(R!Filled, R!FramesOf(layout.stft), HopSize)) /\ pc' = "stft"
     BY <1>1 DEF R!Fill
  <2> QED BY <2>1 DEF Streaming, R!SendFrame, S!SendFrame
<1>2. CASE R!Stft BY <1>2 DEF R!Stft, R!Onward, Streaming, R!stream
<1>3. CASE R!Deinterleave BY <1>3 DEF R!Deinterleave, Streaming, R!stream
<1>4. CASE R!Interleave BY <1>4 DEF R!Interleave, Streaming, R!stream
<1>5. CASE R!Istft BY <1>5 DEF R!Istft, Streaming, R!stream
<1>6. CASE R!Send
  <2>1. R!SendFrame(1, SubSeq(out, Len(out) - taken + 1, Len(out))) /\ pc' \in {"istft", "next"}
     BY <1>6 DEF R!Send, R!Onward
  <2> QED BY <2>1 DEF Streaming, R!SendFrame, S!SendFrame
<1>7. CASE R!NextChunk BY <1>7 DEF R!NextChunk, Streaming, R!stream
<1>8. CASE R!TooFew BY <1>8 DEF R!TooFew, R!CloseStream, S!CloseStream, Streaming
<1>9. CASE R!Save BY <1>9 DEF R!Save, R!CloseStream, S!CloseStream, Streaming
<1> QED BY <1>1, <1>2, <1>3, <1>4, <1>5, <1>6, <1>7, <1>8, <1>9 DEF R!Step

LEMMA ClassSteps ==
  ASSUME C!Step
  PROVE  pc \notin {"idle", "start"} /\ pc' \notin {"idle", "start", "failed"}
<1>1. CASE C!Chunk BY <1>1 DEF C!Chunk
<1>2. CASE C!FileDone BY <1>2 DEF C!FileDone
<1>3. CASE C!Read BY <1>3 DEF C!Read
<1>4. CASE C!EndOfInput BY <1>4 DEF C!EndOfInput
<1>5. CASE C!Capture BY <1>5 DEF C!Capture
<1>6. CASE C!WindowRead BY <1>6 DEF C!WindowRead
<1>7. CASE C!Full BY <1>7 DEF C!Full
<1>8. CASE C!Stft BY <1>8 DEF C!Stft
<1>9. CASE C!Infer BY <1>9 DEF C!Infer
<1> QED BY <1>1, <1>2, <1>3, <1>4, <1>5, <1>6, <1>7, <1>8, <1>9 DEF C!Step

LEMMA ManagerAfterSpeech ==
  ASSUME ManagerInv, SpeechStart \/ SpeechStep \/ SpeechFails
  PROVE  ManagerInv'
<1>1. CASE SpeechStart
  <2>1. pc' = "stft" /\ Streaming /\ tvm' = (doc.tvm \in {"message", "both"} /\ configured)
     BY <1>1 DEF SpeechStart, S!Start, Streaming, S!stream
  <2> QED BY <1>1, <2>1, WireType, PipelineStep DEF SpeechStart, manager, Runs
<1>2. CASE SpeechStep
  <2>1. S!Step BY <1>2 DEF SpeechStep
  <2> QED BY <1>2, <2>1, SpeechSteps, WireType, PipelineStep DEF SpeechStep, manager, Runs, ManagerInv
<1>3. CASE SpeechFails
  <2>1. pc' = "failed" /\ Streaming /\ tvm' = tvm BY <1>3 DEF SpeechFails, S!StageFails, Streaming
  <2> QED BY <1>3, <2>1, WireType, PipelineStep DEF SpeechFails, manager, Runs, ManagerInv
<1> QED BY <1>1, <1>2, <1>3

LEMMA ManagerAfterTrip ==
  ASSUME ManagerInv, TripStart \/ TripStep \/ TripFails
  PROVE  ManagerInv'
<1>1. CASE TripStart
  <2>1. pc' \in {"save", "fill"} /\ Streaming
     BY <1>1 DEF TripStart, R!Start, Streaming, R!stream
  <2> QED BY <1>1, <2>1, WireType, PipelineStep DEF TripStart, manager, speech, Runs, ManagerInv
<1>2. CASE TripStep
  <2>1. R!Step BY <1>2 DEF TripStep
  <2> QED BY <1>2, <2>1, TripSteps, WireType, PipelineStep DEF TripStep, manager, speech, Runs, ManagerInv
<1>3. CASE TripFails
  <2>1. pc' = "failed" /\ Streaming
     BY <1>3 DEF TripFails, R!StageFails, Streaming, R!CloseStream, S!CloseStream
  <2> QED BY <1>3, <2>1, WireType, PipelineStep DEF TripFails, manager, speech, Runs, ManagerInv
<1> QED BY <1>1, <1>2, <1>3

LEMMA ManagerAfterClass ==
  ASSUME ManagerInv, ClassifyStart \/ ClassifyStep \/ ClassifyFault
  PROVE  ManagerInv'
<1>1. CASE ClassifyStart
  <2>1. pc' \in {"chunk", "read"} /\ how' = how /\ configured /\ Streaming
     BY <1>1 DEF ClassifyStart, C!Start, Streaming, stream
  <2> QED BY <1>1, <2>1, WireType, PipelineStep DEF ClassifyStart, speech, Runs, ManagerInv
<1>2. CASE ClassifyStep
  <2>1. C!Step /\ Streaming BY <1>2 DEF ClassifyStep, Streaming, stream
  <2>2. pc # "failed" => configured
    <3>1. pc # "start" BY <2>1, ClassSteps
    <3> QED BY <1>2, <3>1 DEF ManagerInv, ClassifyStep, Runs
  <2>3. pc # "failed"
     BY <2>1 DEF C!Step, C!Chunk, C!FileDone, C!Read, C!EndOfInput, C!Capture, C!WindowRead, C!Full,
                 C!Stft, C!Infer
  <2> QED BY <1>2, <2>1, <2>2, <2>3, ClassSteps, WireType, PipelineStep
          DEF ClassifyStep, manager, speech, Runs, ManagerInv
<1>3. CASE ClassifyFault
  <2>1. Streaming /\ UNCHANGED <<manager, speech>> /\ doc' \in {doc, NoDoc} /\ Runs("audio_classification")
     BY <1>3 DEF ClassifyFault, Streaming, stream
  <2>2. pc' = "failed" \/ (pc = "read" /\ pc' \in {"read", "killed"})
     BY <1>3 DEF ClassifyFault, C!StageFails, C!Overrun, C!Interrupted
  <2> QED BY <2>1, <2>2, WireType, PipelineStep DEF manager, speech, Runs, ManagerInv
<1> QED BY <1>1, <1>2, <1>3

LEMMA ManagerAfterTvm ==
  ASSUME ManagerInv, TvmStep \/ TvmFails
  PROVE  ManagerInv'
<1>1. UNCHANGED <<manager, speech, stream>> /\ doc' \in {doc, NoDoc} /\ Runs("tvm_only")
   BY DEF TvmStep, TvmFails, TvmStage
<1>2. pc' \notin {"idle", "start"} BY DEF TvmStep, TvmFails, TvmStage
<1>3. Streaming BY <1>1 DEF Streaming, stream
<1> QED BY <1>1, <1>2, <1>3, WireType, PipelineStep DEF manager, speech, Runs, ManagerInv

LEMMA ManagerAfterViewer ==
  ASSUME ManagerInv, ViewerConnects \/ ViewerReads \/ ViewerLeaves
  PROVE  ManagerInv'
<1>1. UNCHANGED <<manager, doc, loop, speech, trip, listener>>
   BY DEF ViewerConnects, ViewerReads, ViewerLeaves
<1>2. /\ viewer' \in {"away", "waiting", "accepted", "left"}
      /\ wire' \in 0..Room /\ views' \in 0..MaxViews
   BY PipelinesAssumption
   DEF ManagerInv, ViewerConnects, ViewerReads, ViewerLeaves, S!ViewerConnects, S!ViewerReads, S!ViewerLeaves
<1>3. pc \notin {"idle", "start"}
  <2>1. CASE ViewerConnects BY <2>1 DEF ViewerConnects, Streams, ManagerInv, Before
  <2>2. CASE ~ViewerConnects
    <3>1. viewer # "away" BY <2>2 DEF ViewerReads, ViewerLeaves, S!ViewerReads, S!ViewerLeaves
    <3> QED BY <3>1 DEF ManagerInv, Fresh
  <2> QED BY <2>1, <2>2
<1> QED BY <1>1, <1>2, <1>3 DEF ManagerInv, manager, loop, speech, Runs, Before

LEMMA ManagerAfterManage ==
  ASSUME ManagerInv, Manage
  PROVE  ManagerInv'
<1>1. CASE Open \/ Artifacts \/ Rejected \/ Return
  <2>1. /\ UNCHANGED <<loop, speech, trip, listener, stream>> /\ how' = how /\ pipeline' = pipeline
        /\ step # "run" \/ pc \notin {"idle", "start"}
     BY <1>1 DEF Open, Artifacts, Rejected, Return, Idle
  <2>2. Fresh' <=> Fresh
     BY <2>1 DEF Fresh, loop, speech, trip, listener, stream
  <2>3. /\ step' # "run" /\ (step \in Before <=> step' \in Before) /\ step' \in Before \cup {"success", "error"}
     BY <1>1 DEF Open, Artifacts, Rejected, Return, Before
  <2>5. step' \in {"artifacts", "checks"} => how = "file" \/ doc'.type = "audio_classification"
     BY <1>1 DEF Open, Artifacts, Rejected, Return, ManagerInv
  <2>4. doc' \in Docs /\ configured' \in BOOLEAN /\ (tvm => configured')
    <3>1. CASE Artifacts
      <4>1. pc = "idle" BY <3>1 DEF Artifacts, ManagerInv, Before
      <4>2. tvm = FALSE BY <4>1 DEF ManagerInv, Fresh
      <4> QED BY <3>1, <4>2 DEF Artifacts, ManagerInv
    <3>2. CASE ~Artifacts
      <4>1. configured' = configured /\ (doc' \in Docs \/ doc' = doc)
         BY <1>1, <3>2 DEF Open, Rejected, Return
      <4> QED BY <4>1 DEF ManagerInv
    <3> QED BY <3>1, <3>2
  <2> QED BY <2>1, <2>2, <2>3, <2>4, <2>5 DEF ManagerInv, loop, speech, stream, Runs
<1>2. CASE Dispatch
  <2>1. /\ step = "checks" /\ step' = "run" /\ pc' = "start" /\ pipeline' = doc.type /\ Validated
        /\ UNCHANGED <<how, doc, configured, n, chunk, batch, out, speech, trip, listener, stream>>
        /\ doc.type # "other"
    <3>1. doc.type # "other"
      <4>1. CASE how = "file" BY <1>2, <4>1 DEF Dispatch, InputFits
      <4>2. CASE how # "file" BY <1>2, <4>2 DEF Dispatch, ManagerInv
      <4> QED BY <4>1, <4>2
    <3> QED BY <1>2, <3>1 DEF Dispatch
  <2>2. Fresh' BY <2>1 DEF ManagerInv, Before, Fresh, speech, trip, listener, stream
  <2>3. Validated' BY <2>1 DEF Validated
  <2>4. doc.type \in Types \ {"other"} /\ doc.type # "none" BY <2>1 DEF ManagerInv, Docs, Types
  <2> QED BY <2>1, <2>2, <2>3, <2>4 DEF ManagerInv, Runs, Before, speech, stream
<1> QED BY <1>1, <1>2 DEF Manage

LEMMA ManagerInductive == ManagerInv /\ [Next]_vars => ManagerInv'
<1> SUFFICES ASSUME ManagerInv, [Next]_vars PROVE ManagerInv' OBVIOUS
<1>1. CASE UNCHANGED vars
  <2>1. UNCHANGED <<step, how, configured, pipeline, doc, loop, speech, trip, listener, stream>>
     BY <1>1 DEF vars, manager
  <2>2. Fresh' <=> Fresh BY <2>1 DEF Fresh, loop, speech, trip, listener, stream
  <2> QED BY <2>1, <2>2 DEF ManagerInv, loop, speech, stream, Runs, Validated
<1>2. CASE Next
  <2>1. CASE Manage BY <2>1, ManagerAfterManage
  <2>2. CASE SpeechStart \/ SpeechStep \/ SpeechFails BY <2>2, ManagerAfterSpeech
  <2>3. CASE TripStart \/ TripStep \/ TripFails BY <2>3, ManagerAfterTrip
  <2>4. CASE ClassifyStart \/ ClassifyStep \/ ClassifyFault BY <2>4, ManagerAfterClass
  <2>5. CASE TvmStep \/ TvmFails BY <2>5, ManagerAfterTvm
  <2>6. CASE ViewerConnects \/ ViewerReads \/ ViewerLeaves BY <2>6, ManagerAfterViewer
  <2>7. CASE Done BY <2>7, <1>1 DEF Done
  <2> QED BY <1>2, <2>1, <2>2, <2>3, <2>4, <2>5, <2>6, <2>7 DEF Next
<1> QED BY <1>1, <1>2

LEMMA Managed == Spec => []ManagerInv
<1> QED BY StartsFresh, ManagerInductive, PTL DEF Spec

\* Artifacts are there before anything uses them: the manager's check by
\* service and the pipelines' uses by message type agree (ArtifactsBeforeUse).
THEOREM Configured == Spec => []ArtifactsBeforeUse
<1>1. ManagerInv => ArtifactsBeforeUse
  <2> SUFFICES ASSUME ManagerInv PROVE ArtifactsBeforeUse OBVIOUS
  <2>1. step = "run" /\ pc = "start" /\ doc.tvm \in {"service", "both"} => configured
     BY DEF ManagerInv, Validated
  <2>2. Runs("audio_classification") /\ pc \notin {"start", "failed"} => configured BY DEF ManagerInv
  <2>3. tvm => configured BY DEF ManagerInv
  <2> QED BY <2>1, <2>2, <2>3 DEF ArtifactsBeforeUse, Runs
<1> QED BY <1>1, Managed, PTL

----------------------------------------------------------------------------
(* Arithmetic of the loops. *)

LEMMA DivMod ==
  ASSUME NEW a \in Nat, NEW d \in Nat \ {0}
  PROVE  a \div d \in Nat /\ a % d \in 0..(d - 1) /\ a = (a \div d) * d + (a % d)
<1>1. a \div d \in Nat BY Division
<1>2. a % d \in 0..(d - 1) BY Z3
<1>3. a = (a \div d) * d + (a % d) BY Z3
<1> QED BY <1>1, <1>2, <1>3

LEMMA Under ==
  ASSUME NEW a \in Nat, NEW c \in Nat, NEW d \in Nat \ {0}, a < c * d
  PROVE  a \div d \in 0..(c - 1)
<1> DEFINE q == a \div d
<1>1. q \in Nat /\ q * d <= a /\ q * d \in Nat /\ c * d \in Nat BY Division
<1> HIDE DEF q
<1>2. CASE q < c BY <1>1, <1>2 DEF q
<1>3. CASE c = q BY <1>1, <1>3
<1>4. CASE c < q
  <2>1. c * d + d <= q * d BY <1>1, <1>4, Monotone
  <2> QED BY <1>1, <2>1
<1> QED BY <1>1, <1>2, <1>3, <1>4

LEMMA Times ==
  ASSUME NEW a \in Int, NEW b \in Int, NEW d \in Nat
  PROVE  a * d \in Int /\ (a + b) * d = a * d + b * d /\ (a - b) * d = a * d - b * d
         /\ (a + 1) * d = a * d + d /\ (a >= 0 => a * d >= 0)
<1>1. a * d \in Int /\ (a + b) * d = a * d + b * d /\ (a - b) * d = a * d - b * d
   OBVIOUS
<1>2. (a + 1) * d = a * d + d OBVIOUS
<1>3. a >= 0 => a * d >= 0 OBVIOUS
<1> QED BY <1>1, <1>2, <1>3

LEMMA Order ==
  ASSUME NEW a \in Nat, NEW b \in Nat, NEW d \in Nat, a <= b
  PROVE  a * d <= b * d
<1>1. CASE a = b BY <1>1
<1>2. CASE a # b
  <2>1. a * d + d <= b * d BY <1>2, Monotone
  <2> QED BY <2>1, Times
<1> QED BY <1>1, <1>2

\* How many batches there are.
LEMMA BatchesOf ==
  ASSUME NEW total \in Nat, NEW size \in Nat \ {0}
  PROVE  /\ S!Batches(total, size) \in Nat
         /\ \A k \in Nat : k < S!Batches(total, size) <=> k * size < total
<1> DEFINE a == total + size - 1
           q == a \div size
<1>1. a \in Nat OBVIOUS
<1>2. q \in Nat /\ q * size <= a /\ a < q * size + size BY <1>1, Division
<1>3. q * size \in Nat BY <1>2, Times
<1>4. S!Batches(total, size) = q BY DEF S!Batches
<1> HIDE DEF q
<1>5. ASSUME NEW k \in Nat PROVE k < q <=> k * size < total
  <2>1. k * size \in Nat BY Times
  <2>2. CASE k < q
    <3>1. k * size + size <= q * size BY <1>2, <2>2, Monotone
    <3> QED BY <1>2, <1>3, <2>1, <2>2, <3>1
  <2>3. CASE ~(k < q)
    <3>1. q * size <= k * size BY <1>2, <2>3, Order
    <3> QED BY <1>2, <1>3, <2>1, <2>3, <3>1
  <2> QED BY <2>2, <2>3
<1> QED BY <1>2, <1>4, <1>5

LEMMA SpeechFacts ==
  /\ HopSize \in Nat \ {0} /\ TotalFrames \in Nat \ {0}
  /\ BatchN \in Nat \ {0} /\ IstftBatchN \in Nat \ {0} /\ StreamFrame \in Nat \ {0}
  /\ S!ASize \in Nat /\ TotalFrames <= S!ASize /\ BatchN <= S!ASize /\ IstftBatchN <= S!ASize
<1> USE SpeechAssumption, PipelinesAssumption
<1> DEFINE Three == {TotalFrames, BatchN, IstftBatchN}
<1>1. \E m \in Three : \A k \in Three : k <= m
  <2>1. CASE TotalFrames <= BatchN /\ IstftBatchN <= BatchN BY <2>1
  <2>2. CASE TotalFrames <= IstftBatchN /\ BatchN <= IstftBatchN BY <2>2
  <2>3. CASE BatchN <= TotalFrames /\ IstftBatchN <= TotalFrames BY <2>3
  <2> QED BY <2>1, <2>2, <2>3
<1>2. S!ASize \in Three /\ \A k \in Three : k <= S!ASize
   BY <1>1 DEF S!ASize
<1> QED BY <1>2

LEMMA SpeechSame ==
  /\ S!Chunks(n) = Chunks(n) /\ S!Offset(chunk) = Offset(chunk) /\ S!Begin(chunk) = Begin(chunk)
  /\ S!End(chunk, Chunks(n), n) = Last
<1> DEFINE c == Chunks(n)
<1>1. S!Chunks(n) = Chunks(n)
   BY DEF S!Chunks, Chunks, S!ChunkSamples, ChunkSamples, S!HopSamples, HopSamples
<1>2. S!Offset(chunk) = Offset(chunk)
   BY DEF S!Offset, Offset, S!ChunkSamples, ChunkSamples, S!Overlap, Overlap
<1>3. S!Begin(chunk) = Begin(chunk) BY DEF S!Begin, Begin, S!Left, Left
<1>4. S!FullEnd(chunk, c) = FullEnd(chunk, c)
   BY DEF S!FullEnd, FullEnd, S!ChunkSamples, ChunkSamples, S!Right, Right, S!Overlap, Overlap, S!Left, Left
<1>5. S!Available(chunk, n) = Available(chunk, n) BY <1>2 DEF S!Available, Available
<1>6. S!End(chunk, c, n) = Last BY <1>4, <1>5 DEF S!End, End, Last
<1> QED BY <1>1, <1>2, <1>3, <1>6

\* Where a chunk begins and ends in the input: it keeps what lies between its
\* own beginning and the next one's, and the last one all that is left.
LEMMA Ends ==
  ASSUME NEW m \in Nat, NEW i \in 0..(Chunks(m) - 1)
  PROVE  /\ i \in Nat /\ Offset(i) = i * HopSamples /\ Offset(i) \in Nat
         /\ Begin(i) \in Nat /\ End(i, Chunks(m), m) \in Nat
         /\ Begin(i) <= End(i, Chunks(m), m) /\ End(i, Chunks(m), m) <= ChunkSamples
         /\ Offset(i) + End(i, Chunks(m), m) <= m
         /\ i < Chunks(m) - 1 =>
              Offset(i) + End(i, Chunks(m), m) = Offset(i + 1) + Begin(i + 1)
         /\ i = Chunks(m) - 1 => Offset(i) + End(i, Chunks(m), m) = m
<1> DEFINE e == End(i, Chunks(m), m)
           o == Offset(i)
           last == Chunks(m) - 1
<1>1. i \in Nat /\ last \in Nat /\ Chunks(m) \in Nat /\ m <= last * HopSamples + ChunkSamples BY Reach
<1>2. o = i * HopSamples /\ o \in Nat /\ Offset(i + 1) = (i + 1) * HopSamples
   BY <1>1, Geometry, Times DEF Offset
<1>3. Begin(i) = (IF i = 0 THEN 0 ELSE Left) /\ Begin(i) \in Nat BY Geometry DEF Begin
<1>4. FullEnd(i, Chunks(m)) = IF i < last THEN HopSamples + Left ELSE ChunkSamples
   BY <1>1, Geometry DEF FullEnd
<1>5. last * HopSamples \in Nat BY <1>1, Geometry, Times
<1>6. last > 0 => last * HopSamples + Overlap < m
  <2> SUFFICES ASSUME last > 0 PROVE last * HopSamples + Overlap < m OBVIOUS
  <2> DEFINE a == m - ChunkSamples + HopSamples - 1
             q == a \div HopSamples
  <2>1. ~(m <= ChunkSamples) /\ Chunks(m) = 1 + q BY <1>1 DEF Chunks
  <2>2. a \in Nat BY <2>1, Geometry
  <2>3. q \in Nat /\ q * HopSamples <= a BY <2>2, Division, Geometry
  <2>4. last = q BY <2>1, <2>3
  <2> QED BY <1>5, <2>2, <2>3, <2>4, Geometry
<1>7. i < last => o + HopSamples <= last * HopSamples BY <1>1, <1>2, Monotone, Geometry
<1>8. e = IF m > o THEN IF FullEnd(i, Chunks(m)) < m - o THEN FullEnd(i, Chunks(m)) ELSE m - o
          ELSE IF FullEnd(i, Chunks(m)) < 0 THEN FullEnd(i, Chunks(m)) ELSE 0
   BY DEF End, Available
<1> HIDE DEF e, o, last
<1>9. CASE i < last
  <2>1. o + HopSamples + Overlap < m BY <1>1, <1>2, <1>5, <1>6, <1>7, <1>9, Geometry
  <2>2. e = HopSamples + Left BY <1>2, <1>4, <1>8, <1>9, <2>1, Geometry
  <2>3. Begin(i + 1) = Left BY <1>1 DEF Begin
  <2>4. Offset(i + 1) = o + HopSamples BY <1>1, <1>2, Geometry, Times
  <2>5. /\ e \in Nat /\ Begin(i) <= e /\ e <= ChunkSamples /\ o + e <= m
        /\ o + e = Offset(i + 1) + Begin(i + 1)
     BY <1>2, <1>3, <2>1, <2>2, <2>3, <2>4, Geometry
  <2> QED BY <1>1, <1>2, <1>3, <1>9, <2>5 DEF e, o, last
<1>10. CASE ~(i < last)
  <2>1. i = last BY <1>1, <1>10 DEF last
  <2>2. m <= o + ChunkSamples /\ (i > 0 => o + Overlap < m) BY <1>1, <1>2, <1>6, <2>1
  <2>3. o <= m
    <3>1. CASE i = 0 BY <1>2, <3>1, Geometry
    <3>2. CASE i # 0 BY <1>1, <1>2, <2>2, <3>2, Geometry
    <3> QED BY <3>1, <3>2
  <2>4. e = m - o BY <1>2, <1>4, <1>8, <1>10, <2>2, <2>3, Geometry
  <2>5. /\ e \in Nat /\ Begin(i) <= e /\ e <= ChunkSamples /\ o + e = m
     BY <1>1, <1>2, <1>3, <2>2, <2>3, <2>4, Geometry
  <2> QED BY <1>1, <1>2, <1>3, <1>10, <2>5 DEF e, o, last
<1> QED BY <1>9, <1>10

----------------------------------------------------------------------------
(* Buffers and their frames. *)

\* What a stage makes of a frame.
Turned(frame, takes, stage) ==
  IF frame.by = takes THEN [at |-> frame.at, by |-> stage] ELSE S!NoFrame

Kinds == {"nothing", "pcm", "stft", "planar", "model", "mixed", "clean"}

LEMMA FrameFacts ==
  /\ S!Frame = [at : Nat, by : Kinds] /\ S!NoFrame = [at |-> 0, by |-> "nothing"] /\ S!NoFrame \in S!Frame
  /\ \A at \in Nat, stage \in Kinds :
       /\ Piece(at, stage) \in S!Frame
       /\ Piece(at, stage).at = at /\ Piece(at, stage).by = stage
       /\ \A more : [Piece(at, stage) EXCEPT !.at = @ + more] = Piece(at + more, stage)
BY DEF S!Frame, Kinds, S!NoFrame, Piece

LEMMA TurnedFacts ==
  /\ \A frame \in S!Frame, takes \in Kinds, stage \in Kinds : Turned(frame, takes, stage) \in S!Frame
  /\ \A at \in Nat, takes \in Kinds, stage \in Kinds :
       Turned(Piece(at, takes), takes, stage) = Piece(at, stage)
  /\ \A takes \in Kinds \ {"nothing"}, stage \in Kinds : Turned(S!NoFrame, takes, stage) = S!NoFrame
BY FrameFacts DEF Turned, Piece

\* What a stage leaves in its target.
LEMMA MadeAt ==
  ASSUME NEW target, NEW to, NEW from, NEW buffer, NEW count, NEW takes, NEW stage
  PROVE  /\ DOMAIN S!Made(target, to, buffer, from, count, takes, stage) = DOMAIN target
         /\ \A f \in DOMAIN target :
              S!Made(target, to, buffer, from, count, takes, stage)[f] =
                IF to <= f /\ f < to + count THEN Turned(buffer[from + f - to], takes, stage) ELSE target[f]
BY DEF S!Made, Turned

LEMMA MadeType ==
  ASSUME NEW target, NEW to, NEW buffer, NEW from, NEW count, NEW takes \in Kinds, NEW stage \in Kinds,
         \A f \in DOMAIN target : target[f] \in S!Frame,
         \A f \in DOMAIN target : to <= f /\ f < to + count => buffer[from + f - to] \in S!Frame
  PROVE  \A f \in DOMAIN target : S!Made(target, to, buffer, from, count, takes, stage)[f] \in S!Frame
<1> SUFFICES ASSUME NEW f \in DOMAIN target
             PROVE  S!Made(target, to, buffer, from, count, takes, stage)[f] \in S!Frame
   OBVIOUS
<1> DEFINE M == S!Made(target, to, buffer, from, count, takes, stage)
           g == buffer[from + f - to]
<1>1. M[f] = IF to <= f /\ f < to + count THEN Turned(g, takes, stage) ELSE target[f] BY MadeAt
<1>2. target[f] \in S!Frame /\ (to <= f /\ f < to + count => g \in S!Frame) OBVIOUS
<1> HIDE DEF M, g
<1>3. M[f] \in S!Frame BY <1>1, <1>2, TurnedFacts
<1> QED BY <1>3 DEF M

\* The samples of frames that follow one another follow one another.
LEMMA Sampled ==
  ASSUME NEW buffer, NEW count \in Nat, NEW base \in Nat, NEW stage \in Kinds \ {"nothing"},
         Row(buffer, count, base, stage)
  PROVE  /\ S!Samples(buffer, count, HopSize) \in Seq(S!Frame)
         /\ Len(S!Samples(buffer, count, HopSize)) = count * HopSize
         /\ Follows(S!Samples(buffer, count, HopSize), base, stage)
<1> DEFINE s == S!Samples(buffer, count, HopSize)
           len == count * HopSize
           q(k) == (k - 1) \div HopSize
           r(k) == (k - 1) % HopSize
           sample(k) == IF buffer[q(k)].by = "nothing" THEN S!NoFrame
                        ELSE [buffer[q(k)] EXCEPT !.at = @ + r(k)]
<1>1. len \in Nat BY SpeechFacts, Times
<1>2. s = [k \in 1..len |-> sample(k)] BY DEF S!Samples
<1>3. ASSUME NEW k \in 1..len PROVE sample(k) = Piece(base + k - 1, stage)
  <2>1. k - 1 \in Nat /\ k - 1 < count * HopSize BY <1>1
  <2>2. q(k) \in 0..(count - 1) BY <2>1, Under, SpeechFacts
  <2>3. q(k) \in Nat /\ r(k) \in 0..(HopSize - 1) /\ k - 1 = q(k) * HopSize + r(k)
     BY <2>1, DivMod, SpeechFacts
  <2>4. q(k) * HopSize \in Nat BY <2>3, SpeechFacts, Times
  <2>5. buffer[q(k)] = Piece(base + q(k) * HopSize, stage) BY <2>2 DEF Row
  <2>6. sample(k) = Piece(base + q(k) * HopSize + r(k), stage)
    <3>1. base + q(k) * HopSize \in Nat /\ stage \in Kinds /\ stage # "nothing" BY <2>4
    <3>2. buffer[q(k)].by # "nothing" BY <2>5, <3>1, FrameFacts
    <3>3. [buffer[q(k)] EXCEPT !.at = @ + r(k)] = Piece(base + q(k) * HopSize + r(k), stage)
       BY <2>5, <3>1, FrameFacts
    <3> QED BY <3>2, <3>3
  <2>7. base + q(k) * HopSize + r(k) = base + k - 1 BY <1>1, <2>3, <2>4
  <2> QED BY <2>6, <2>7
<1> HIDE DEF len, sample
<1>4. \A k \in 1..len : Piece(base + k - 1, stage) \in S!Frame BY <1>1, FrameFacts
<1>5. \A k \in 1..len : sample(k) \in S!Frame BY <1>3, <1>4
<1>6. s \in [1..len -> S!Frame] BY <1>2, <1>5
<1>7. s \in Seq(S!Frame) /\ Len(s) = len /\ DOMAIN s = 1..len
  <2> HIDE DEF s
  <2> QED BY <1>1, <1>6
<1>8. \A k \in DOMAIN s : s[k] = Piece(base + k - 1, stage) BY <1>2, <1>3, <1>7
<1> QED BY <1>7, <1>8 DEF len, Follows

\* A stage continues a row of its target with what it makes of a batch.
LEMMA MadeRow ==
  ASSUME NEW target, NEW to \in Nat, NEW buffer, NEW from \in Nat, NEW count \in Nat, NEW base \in Nat,
         NEW takes \in Kinds, NEW stage \in Kinds,
         \A f \in 0..(to + count - 1) : f \in DOMAIN target,
         Row(target, to, base, stage),
         RowFrom(buffer, from, count, base + to * HopSize, takes)
  PROVE  Row(S!Made(target, to, buffer, from, count, takes, stage), to + count, base, stage)
<1> DEFINE M == S!Made(target, to, buffer, from, count, takes, stage)
<1>1. SUFFICES ASSUME NEW f \in 0..(to + count - 1) PROVE M[f] = Piece(base + f * HopSize, stage)
   BY DEF Row
<1>2. QED
  <2>1. M[f] = IF to <= f /\ f < to + count THEN Turned(buffer[from + f - to], takes, stage) ELSE target[f]
     BY MadeAt
  <2>2. to * HopSize \in Nat /\ f * HopSize \in Nat BY SpeechFacts, Times
  <2> HIDE DEF M
  <2>3. CASE f < to
    <3>1. M[f] = target[f] /\ f \in 0..(to - 1) BY <2>1, <2>3
    <3> QED BY <3>1 DEF Row
  <2>4. CASE to <= f
    <3> DEFINE k == f - to
    <3>1. k \in 0..(count - 1) /\ from + f - to = from + k /\ k \in Int BY <2>4
    <3>2. M[f] = Turned(buffer[from + k], takes, stage) BY <2>1, <2>4, <3>1
    <3>3. k * HopSize = f * HopSize - to * HopSize BY SpeechFacts, Times
    <3>4. base + to * HopSize + k * HopSize = base + f * HopSize BY <2>2, <3>3
    <3>5. buffer[from + k] = Piece(base + to * HopSize + k * HopSize, takes) BY <3>1 DEF RowFrom
    <3>6. buffer[from + k] = Piece(base + f * HopSize, takes) BY <3>4, <3>5
    <3>7. base + f * HopSize \in Nat BY <2>2
    <3> HIDE DEF k
    <3> QED BY <3>2, <3>6, <3>7, TurnedFacts
  <2> QED BY <2>3, <2>4

\* The batch that begins at frame batch * size.
LEMMA BatchFacts ==
  ASSUME NEW total \in Nat \ {0}, NEW size \in Nat \ {0}, NEW b \in Nat, b * size < total
  PROVE  /\ b * size \in Nat /\ (b + 1) * size = b * size + size
         /\ S!Smaller(size, total - b * size) \in 1..size
         /\ b * size + S!Smaller(size, total - b * size) <= total
         /\ b + 1 < S!Batches(total, size) =>
              /\ (b + 1) * size < total
              /\ b * size + S!Smaller(size, total - b * size) = (b + 1) * size
         /\ ~(b + 1 < S!Batches(total, size)) => b * size + S!Smaller(size, total - b * size) = total
<1> DEFINE p == b * size
<1>1. p \in Nat /\ (b + 1) * size = p + size BY Times
<1>2. b + 1 < S!Batches(total, size) <=> p + size < total
  <2>1. b + 1 \in Nat /\ total \in Nat OBVIOUS
  <2>2. b + 1 < S!Batches(total, size) <=> (b + 1) * size < total BY <2>1, BatchesOf
  <2> QED BY <1>1, <2>2
<1>3. p < total OBVIOUS
<1> HIDE DEF p
<1>4. S!Smaller(size, total - p) = IF size < total - p THEN size ELSE total - p BY DEF S!Smaller
<1>5. /\ S!Smaller(size, total - p) \in 1..size /\ p + S!Smaller(size, total - p) <= total
      /\ p + size < total => p + S!Smaller(size, total - p) = p + size
      /\ ~(p + size < total) => p + S!Smaller(size, total - p) = total
   BY <1>1, <1>3, <1>4
<1>6. b + 1 < S!Batches(total, size) => (b + 1) * size < total BY <1>1, <1>2
<1> QED BY <1>1, <1>2, <1>5, <1>6 DEF p

LEMMA OffsetFacts ==
  ASSUME SpeechTypes
  PROVE  n \in Nat /\ chunk \in 0..(Chunks(n) - 1) /\ Offset(chunk) \in Nat
<1>1. n \in Nat /\ chunk \in 0..(Chunks(n) - 1) BY PipelinesAssumption DEF SpeechTypes
<1> QED BY <1>1, Ends

LEMMA StftKeeps ==
  ASSUME SpeechTypes, Buffers, S!Stft
  PROVE  SpeechTypes' /\ Buffers'
<1> DEFINE p == batch * BatchN
           c == S!FramesOf(batch, BatchN)
           base == Offset(chunk)
<1>1. /\ pc = "stft" /\ A' = S!Batch /\ B' = S!Made(B, p, S!Batch, 0, c, "pcm", "stft")
      /\ UNCHANGED <<n, tvm, chunk, pos, dir>>
      /\ \/ batch + 1 < S!Batches(TotalFrames, BatchN) /\ batch' = batch + 1 /\ pc' = "stft"
         \/ ~(batch + 1 < S!Batches(TotalFrames, BatchN)) /\ batch' = 0 /\ pc' = "deinterleave"
   BY DEF S!Stft
<1>2. p < TotalFrames /\ batch \in Nat /\ Row(B, p, base, "stft") BY <1>1 DEF Buffers, SpeechTypes, Holds
<1>3. /\ p \in Nat /\ c \in 1..BatchN /\ p + c <= TotalFrames
      /\ batch + 1 < S!Batches(TotalFrames, BatchN) =>
           (batch + 1) * BatchN < TotalFrames /\ p + c = (batch + 1) * BatchN
      /\ ~(batch + 1 < S!Batches(TotalFrames, BatchN)) => p + c = TotalFrames
   BY <1>2, BatchFacts, SpeechFacts DEF S!FramesOf
<1>4. base \in Nat BY OffsetFacts
<1>5. DOMAIN A = 0..(S!ASize - 1) /\ DOMAIN B = 0..(TotalFrames - 1) /\ \A f \in DOMAIN B : B[f] \in S!Frame
   BY <1>1 DEF SpeechTypes, Stages
<1>6. DOMAIN A' = 0..(S!ASize - 1) BY <1>1 DEF S!Batch
<1>7. \A k \in 0..(S!ASize - 1) :
        A'[k] = IF k < c THEN Piece(base + (p + k) * HopSize, "pcm") ELSE S!NoFrame
   BY <1>1, SpeechSame DEF S!Batch, Piece
<1> HIDE DEF p, c, base
<1>8. \A k \in 0..(S!ASize - 1) : A'[k] \in S!Frame
  <2> SUFFICES ASSUME NEW k \in 0..(S!ASize - 1) PROVE A'[k] \in S!Frame OBVIOUS
  <2>1. k \in Nat BY SpeechFacts
  <2>2. base + (p + k) * HopSize \in Nat BY <1>3, <1>4, <2>1, SpeechFacts, Times
  <2>3. Piece(base + (p + k) * HopSize, "pcm") \in S!Frame BY <2>2, FrameFacts DEF Kinds
  <2> QED BY <1>7, <2>3, FrameFacts
<1>9. DOMAIN B' = 0..(TotalFrames - 1) BY <1>1, <1>5, MadeAt
<1>10. \A f \in DOMAIN B' : B'[f] \in S!Frame
  <2>1. \A f \in DOMAIN B : p <= f /\ f < p + c => S!Batch[0 + f - p] \in S!Frame
    <3> SUFFICES ASSUME NEW f \in DOMAIN B, p <= f, f < p + c PROVE S!Batch[0 + f - p] \in S!Frame OBVIOUS
    <3>1. 0 + f - p \in 0..(S!ASize - 1) BY <1>3, <1>5, SpeechFacts
    <3> QED BY <1>1, <1>8, <3>1
  <2>2. "pcm" \in Kinds /\ "stft" \in Kinds BY DEF Kinds
  <2>3. \A f \in DOMAIN B : S!Made(B, p, S!Batch, 0, c, "pcm", "stft")[f] \in S!Frame
     BY <1>5, <2>1, <2>2, MadeType
  <2> QED BY <1>1, <1>5, <1>9, <2>3
<1>11. Row(B', p + c, base, "stft")
  <2>1. RowFrom(S!Batch, 0, c, base + p * HopSize, "pcm")
    <3> SUFFICES ASSUME NEW k \in 0..(c - 1)
                 PROVE  S!Batch[0 + k] = Piece(base + p * HopSize + k * HopSize, "pcm")
       BY DEF RowFrom
    <3>1. 0 + k \in 0..(S!ASize - 1) /\ 0 + k = k /\ k < c /\ k \in Int BY <1>3, SpeechFacts
    <3>2. (p + k) * HopSize = p * HopSize + k * HopSize BY <1>3, <3>1, SpeechFacts, Times
    <3>3. p * HopSize \in Nat /\ k * HopSize \in Int BY <1>3, <3>1, SpeechFacts, Times
    <3>4. base + (p + k) * HopSize = base + p * HopSize + k * HopSize BY <1>4, <3>2, <3>3
    <3> QED BY <1>1, <1>7, <3>1, <3>4
  <2>2. \A f \in 0..(p + c - 1) : f \in DOMAIN B BY <1>3, <1>5, SpeechFacts
  <2>3. "pcm" \in Kinds /\ "stft" \in Kinds /\ 0 \in Nat /\ c \in Nat BY <1>3 DEF Kinds
  <2> QED BY <1>1, <1>2, <1>3, <1>4, <2>1, <2>2, <2>3, MadeRow
<1>12. Offset(chunk') = base BY <1>1 DEF base
<1>13. SpeechTypes'
  <2>1. batch' \in Nat /\ pc' \in Stages BY <1>1, <1>2 DEF Stages
  <2> QED BY <1>1, <1>6, <1>8, <1>9, <1>10, <2>1 DEF SpeechTypes
<1>14. Buffers'
  <2>1. CASE batch + 1 < S!Batches(TotalFrames, BatchN)
    <3>1. batch' = batch + 1 /\ pc' = "stft" BY <1>1, <2>1
    <3>2. batch' * BatchN < TotalFrames /\ batch' * BatchN = p + c BY <1>3, <2>1, <3>1
    <3>3. Row(B', batch' * BatchN, Offset(chunk'), "stft") BY <1>11, <1>12, <3>2
    <3> QED BY <3>1, <3>2, <3>3 DEF Buffers, Holds
  <2>2. CASE ~(batch + 1 < S!Batches(TotalFrames, BatchN))
    <3>1. batch' = 0 /\ pc' = "deinterleave" BY <1>1, <2>2
    <3>2. Row(B', TotalFrames, Offset(chunk'), "stft") BY <1>3, <1>11, <1>12, <2>2
    <3> QED BY <3>1, <3>2 DEF Buffers, Holds
  <2> QED BY <2>1, <2>2
<1> QED BY <1>13, <1>14

\* A stage over a whole row.
Covers(buffer, count) == \A f \in 0..(count - 1) : f \in DOMAIN buffer

LEMMA WholeRow ==
  ASSUME NEW target, NEW buffer, NEW from \in Nat, NEW count \in Nat, NEW base \in Nat,
         NEW takes \in Kinds, NEW stage \in Kinds,
         Covers(target, count), Typed(target), RowFrom(buffer, from, count, base, takes)
  PROVE  /\ DOMAIN S!Made(target, 0, buffer, from, count, takes, stage) = DOMAIN target
         /\ Typed(S!Made(target, 0, buffer, from, count, takes, stage))
         /\ Row(S!Made(target, 0, buffer, from, count, takes, stage), count, base, stage)
<1>1. DOMAIN S!Made(target, 0, buffer, from, count, takes, stage) = DOMAIN target BY MadeAt
<1>2. ASSUME NEW f \in DOMAIN target, 0 <= f, f < 0 + count
      PROVE  buffer[from + f - 0] \in S!Frame
  <2>1. f \in 0..(count - 1) /\ from + f - 0 = from + f BY <1>2 DEF Typed
  <2>2. buffer[from + f] = Piece(base + f * HopSize, takes) BY <2>1 DEF RowFrom
  <2>3. base + f * HopSize \in Nat BY <2>1, SpeechFacts, Times
  <2> QED BY <2>1, <2>2, <2>3, FrameFacts
<1>3. \A f \in DOMAIN target : S!Made(target, 0, buffer, from, count, takes, stage)[f] \in S!Frame
  <2>1. \A f \in DOMAIN target : target[f] \in S!Frame BY DEF Typed
  <2> QED BY <1>2, <2>1, MadeType
<1>4. Row(target, 0, base, stage) BY DEF Row
<1>5. base + 0 * HopSize = base /\ 0 + count = count /\ 0 \in Nat BY SpeechFacts
<1>6. RowFrom(buffer, from, count, base + 0 * HopSize, takes) BY <1>5
<1>7. \A f \in 0..(0 + count - 1) : f \in DOMAIN target BY DEF Covers
<1>8. Row(S!Made(target, 0, buffer, from, count, takes, stage), 0 + count, base, stage)
   BY <1>4, <1>5, <1>6, <1>7, MadeRow
<1>9. Typed(S!Made(target, 0, buffer, from, count, takes, stage)) BY <1>1, <1>3 DEF Typed
<1> QED BY <1>1, <1>5, <1>8, <1>9

LEMMA RowParts ==
  ASSUME NEW buffer, NEW total \in Nat, NEW base \in Nat, NEW stage, Row(buffer, total, base, stage),
         NEW from \in Nat, NEW count \in Nat, from + count <= total
  PROVE  RowFrom(buffer, from, count, base + from * HopSize, stage) /\ base + from * HopSize \in Nat
<1>1. from * HopSize \in Nat BY SpeechFacts, Times
<1> SUFFICES ASSUME NEW k \in 0..(count - 1)
             PROVE  buffer[from + k] = Piece(base + from * HopSize + k * HopSize, stage)
   BY <1>1 DEF RowFrom
<1>2. from + k \in 0..(total - 1) /\ k \in Int OBVIOUS
<1>3. buffer[from + k] = Piece(base + (from + k) * HopSize, stage) BY <1>2 DEF Row
<1>4. (from + k) * HopSize = from * HopSize + k * HopSize /\ k * HopSize \in Int
   BY <1>2, SpeechFacts, Times
<1>5. base + (from + k) * HopSize = base + from * HopSize + k * HopSize BY <1>1, <1>4
<1> QED BY <1>3, <1>5

LEMMA RowAll ==
  ASSUME NEW buffer, NEW total \in Nat, NEW base \in Nat, NEW stage, Row(buffer, total, base, stage)
  PROVE  RowFrom(buffer, 0, total, base, stage)
<1>1. 0 + total <= total /\ 0 \in Nat /\ base + 0 * HopSize = base BY SpeechFacts
<1>2. RowFrom(buffer, 0, total, base + 0 * HopSize, stage) BY <1>1, RowParts
<1> QED BY <1>1, <1>2

\* The types of a stage that neither begins nor ends a chunk.
LEMMA TypesStay ==
  ASSUME SpeechTypes, pc \in Stages, pc' \in Stages, batch' \in Nat,
         UNCHANGED <<n, tvm, chunk, pos, dir>>,
         DOMAIN A' = DOMAIN A, DOMAIN B' = DOMAIN B, Typed(A'), Typed(B')
  PROVE  SpeechTypes'
BY DEF SpeechTypes, Stages, Typed

LEMMA StageTypes ==
  ASSUME SpeechTypes, pc \in Stages
  PROVE  /\ Covers(A, TotalFrames) /\ Covers(B, TotalFrames) /\ Typed(A) /\ Typed(B)
         /\ \A count \in 0..IstftBatchN : Covers(A, count)
         /\ Offset(chunk) \in Nat /\ batch \in Nat /\ tvm \in BOOLEAN
BY SpeechFacts, OffsetFacts DEF SpeechTypes, Covers, Typed

LEMMA SpectraKeep ==
  ASSUME SpeechTypes, Buffers, S!Deinterleave \/ S!Infer \/ S!Interleave
  PROVE  SpeechTypes' /\ Buffers'
<1> DEFINE base == Offset(chunk)
<1>1. pc \in Stages /\ TotalFrames \in Nat BY SpeechFacts DEF S!Deinterleave, S!Infer, S!Interleave, Stages
<1>2. /\ Covers(A, TotalFrames) /\ Covers(B, TotalFrames) /\ Typed(A) /\ Typed(B)
      /\ base \in Nat /\ batch \in Nat /\ tvm \in BOOLEAN
   BY <1>1, StageTypes
<1>3. "stft" \in Kinds /\ "planar" \in Kinds /\ "model" \in Kinds /\ "mixed" \in Kinds /\ 0 \in Nat BY DEF Kinds
<1> HIDE DEF base
<1>4. CASE S!Deinterleave
  <2>1. /\ pc = "deinterleave" /\ A' = S!Made(A, 0, B, 0, TotalFrames, "stft", "planar") /\ pc' = "infer"
        /\ UNCHANGED <<n, tvm, chunk, batch, B, pos, dir>>
     BY <1>4 DEF S!Deinterleave
  <2>2. RowFrom(B, 0, TotalFrames, base, "stft")
     BY <1>1, <1>2, <2>1, RowAll DEF Buffers, Holds, base
  <2>3. /\ DOMAIN A' = DOMAIN A /\ Typed(A')
        /\ Row(A', TotalFrames, base, "planar")
    <3> DEFINE M == S!Made(A, 0, B, 0, TotalFrames, "stft", "planar")
    <3>1. /\ DOMAIN M = DOMAIN A /\ Typed(M)
          /\ Row(M, TotalFrames, base, "planar")
       BY <1>1, <1>2, <1>3, <2>2, WholeRow
    <3> QED BY <2>1, <3>1
  <2>4. SpeechTypes' BY <1>1, <1>2, <2>1, <2>3, TypesStay DEF Stages
  <2>5. Buffers' BY <2>1, <2>3 DEF Buffers, Holds, base
  <2> QED BY <2>4, <2>5
<1>5. CASE S!Infer
  <2>1. /\ pc = "infer" /\ pc' = "interleave" /\ UNCHANGED <<n, tvm, chunk, batch, B, pos, dir>>
        /\ tvm => A' = S!Made(A, 0, A, 0, TotalFrames, "planar", "model")
        /\ ~tvm => A' = A
     BY <1>5 DEF S!Infer
  <2>2. Row(A, TotalFrames, base, "planar") BY <2>1 DEF Buffers, Holds, base
  <2>3. RowFrom(A, 0, TotalFrames, base, "planar") BY <1>1, <1>2, <2>2, RowAll
  <2>4. /\ DOMAIN A' = DOMAIN A /\ Typed(A')
        /\ Row(A', TotalFrames, base, Planar)
    <3>1. CASE tvm
      <4>1. A' = S!Made(A, 0, A, 0, TotalFrames, "planar", "model") /\ Planar = "model"
         BY <2>1, <3>1 DEF Planar
      <4>2. /\ DOMAIN A' = DOMAIN A /\ Typed(A')
            /\ Row(A', TotalFrames, base, "model")
        <5> DEFINE M == S!Made(A, 0, A, 0, TotalFrames, "planar", "model")
        <5>1. /\ DOMAIN M = DOMAIN A /\ Typed(M)
              /\ Row(M, TotalFrames, base, "model")
           BY <1>1, <1>2, <1>3, <2>3, WholeRow
        <5> QED BY <4>1, <5>1
      <4> QED BY <4>1, <4>2
    <3>2. CASE ~tvm BY <1>2, <2>1, <2>2, <3>2 DEF Planar
    <3> QED BY <3>1, <3>2
  <2>5. SpeechTypes' BY <1>1, <1>2, <2>1, <2>4, TypesStay DEF Stages
  <2>6. Planar' = Planar BY <2>1 DEF Planar
  <2>7. Buffers' BY <2>1, <2>4, <2>6 DEF Buffers, Holds, base
  <2> QED BY <2>5, <2>7
<1>6. CASE S!Interleave
  <2>1. /\ pc = "interleave" /\ pc' = "istft" /\ UNCHANGED <<n, tvm, chunk, batch, A, pos, dir>>
        /\ B' = S!Made(B, 0, A, 0, TotalFrames, Planar, "mixed")
     BY <1>6 DEF S!Interleave, Planar
  <2>2. RowFrom(A, 0, TotalFrames, base, Planar)
     BY <1>1, <1>2, <2>1, RowAll DEF Buffers, Holds, base
  <2>3. Planar \in Kinds BY <1>3 DEF Planar
  <2>4. /\ DOMAIN B' = DOMAIN B /\ Typed(B')
        /\ Row(B', TotalFrames, base, "mixed")
    <3> DEFINE M == S!Made(B, 0, A, 0, TotalFrames, Planar, "mixed")
    <3>1. /\ DOMAIN M = DOMAIN B /\ Typed(M)
          /\ Row(M, TotalFrames, base, "mixed")
       BY <1>1, <1>2, <1>3, <2>2, <2>3, WholeRow
    <3> QED BY <2>1, <3>1
  <2>5. SpeechTypes' BY <1>1, <1>2, <2>1, <2>4, TypesStay DEF Stages
  <2>6. batch' = 0 BY <2>1 DEF Buffers
  <2>7. batch' * IstftBatchN < TotalFrames BY <2>6, SpeechFacts
  <2>8. Buffers' BY <2>1, <2>4, <2>6, <2>7 DEF Buffers, Holds, base
  <2> QED BY <2>5, <2>8
<1> QED BY <1>4, <1>5, <1>6

LEMMA IstftKeeps ==
  ASSUME SpeechTypes, Buffers, S!Istft
  PROVE  /\ SpeechTypes' /\ Buffers'
         /\ \E c \in Nat :
              /\ Row(A', c, Offset(chunk) + batch * IstftBatchN * HopSize, "clean")
              /\ chunkOut' = chunkOut \o S!Samples(A', c, HopSize)
              /\ \/ pc' = "istft" /\ batch' * IstftBatchN = batch * IstftBatchN + c
                 \/ pc' = "keep" /\ batch * IstftBatchN + c = TotalFrames
<1> DEFINE base == Offset(chunk)
           p == batch * IstftBatchN
           c == S!FramesOf(batch, IstftBatchN)
<1>1. /\ pc = "istft" /\ A' = S!Made(A, 0, B, p, c, "mixed", "clean")
      /\ chunkOut' = chunkOut \o S!Samples(A', c, HopSize)
      /\ UNCHANGED <<n, tvm, chunk, B, out, pos, dir>>
      /\ \/ batch + 1 < S!Batches(TotalFrames, IstftBatchN) /\ batch' = batch + 1 /\ pc' = "istft"
         \/ ~(batch + 1 < S!Batches(TotalFrames, IstftBatchN)) /\ batch' = 0 /\ pc' = "keep"
   BY DEF S!Istft
<1>2. pc \in Stages /\ pc' \in Stages BY <1>1 DEF Stages
<1>3. /\ \A count \in 0..IstftBatchN : Covers(A, count)
      /\ Typed(A) /\ Typed(B)
      /\ base \in Nat /\ batch \in Nat
   BY <1>2, StageTypes
<1>4. p < TotalFrames /\ Row(B, TotalFrames, base, "mixed") BY <1>1 DEF Buffers, Holds
<1>5. /\ p \in Nat /\ c \in 1..IstftBatchN /\ p + c <= TotalFrames
      /\ batch + 1 < S!Batches(TotalFrames, IstftBatchN) =>
           (batch + 1) * IstftBatchN < TotalFrames /\ p + c = (batch + 1) * IstftBatchN
      /\ ~(batch + 1 < S!Batches(TotalFrames, IstftBatchN)) => p + c = TotalFrames
   BY <1>3, <1>4, BatchFacts, SpeechFacts DEF S!FramesOf
<1> HIDE DEF base, p, c
<1>6. RowFrom(B, p, c, base + p * HopSize, "mixed") /\ base + p * HopSize \in Nat
   BY <1>3, <1>4, <1>5, RowParts, SpeechFacts
<1>7. /\ DOMAIN A' = DOMAIN A /\ Typed(A')
      /\ Row(A', c, base + p * HopSize, "clean")
  <2>1. Covers(A, c) BY <1>3, <1>5, SpeechFacts
  <2>2. "mixed" \in Kinds /\ "clean" \in Kinds /\ c \in Nat BY <1>5 DEF Kinds
  <2> DEFINE M == S!Made(A, 0, B, p, c, "mixed", "clean")
  <2>3. /\ DOMAIN M = DOMAIN A /\ Typed(M)
        /\ Row(M, c, base + p * HopSize, "clean")
     BY <1>3, <1>5, <1>6, <2>1, <2>2, WholeRow
  <2> QED BY <1>1, <2>3
<1>8. batch' \in Nat BY <1>1, <1>3
<1>9. SpeechTypes' BY <1>1, <1>2, <1>3, <1>7, <1>8, TypesStay
<1>10. Row(B', TotalFrames, Offset(chunk'), "mixed") BY <1>1, <1>4 DEF base
<1>11. CASE batch + 1 < S!Batches(TotalFrames, IstftBatchN)
  <2>1. batch' = batch + 1 /\ pc' = "istft" BY <1>1, <1>11
  <2>2. batch' * IstftBatchN < TotalFrames /\ batch' * IstftBatchN = p + c BY <1>5, <1>11, <2>1
  <2>3. Buffers' BY <1>10, <2>1, <2>2 DEF Buffers, Holds
  <2>4. c \in Nat BY <1>5
  <2> QED BY <1>1, <1>7, <1>9, <2>1, <2>2, <2>3, <2>4 DEF base, p
<1>12. CASE ~(batch + 1 < S!Batches(TotalFrames, IstftBatchN))
  <2>1. batch' = 0 /\ pc' = "keep" BY <1>1, <1>12
  <2>2. Buffers' BY <2>1 DEF Buffers
  <2>3. c \in Nat /\ p + c = TotalFrames BY <1>5, <1>12
  <2> QED BY <1>1, <1>7, <1>9, <2>1, <2>2, <2>3 DEF base, p
<1> QED BY <1>11, <1>12

----------------------------------------------------------------------------
(* What a chunk leaves in the processed audio. *)

LEMMA Joined ==
  ASSUME NEW a \in Nat, NEW stage, NEW s \in Seq(S!Frame), NEW t \in Seq(S!Frame),
         Follows(s, a, stage), Follows(t, a + Len(s), stage)
  PROVE  /\ s \o t \in Seq(S!Frame) /\ Len(s \o t) = Len(s) + Len(t)
         /\ Follows(s \o t, a, stage)
<1> DEFINE u == s \o t
<1>1. /\ u \in Seq(S!Frame) /\ Len(u) = Len(s) + Len(t)
      /\ \A i \in 1..(Len(s) + Len(t)) : u[i] = IF i <= Len(s) THEN s[i] ELSE t[i - Len(s)]
   BY ConcatProperties
<1>2. /\ Len(s) \in Nat /\ Len(t) \in Nat /\ DOMAIN s = 1..Len(s) /\ DOMAIN t = 1..Len(t)
      /\ DOMAIN u = 1..(Len(s) + Len(t))
   BY <1>1, LenProperties
<1> HIDE DEF u
<1>3. ASSUME NEW i \in DOMAIN u PROVE u[i] = Piece(a + i - 1, stage)
  <2>1. i \in 1..(Len(s) + Len(t)) BY <1>2
  <2>2. CASE i <= Len(s)
    <3>1. i \in DOMAIN s /\ u[i] = s[i] BY <1>1, <1>2, <2>1, <2>2
    <3> QED BY <3>1 DEF Follows
  <2>3. CASE ~(i <= Len(s))
    <3> DEFINE k == i - Len(s)
    <3>1. k \in DOMAIN t /\ u[i] = t[k] BY <1>1, <1>2, <2>1, <2>3
    <3>2. t[k] = Piece(a + Len(s) + k - 1, stage) BY <3>1 DEF Follows
    <3>3. a + Len(s) + k - 1 = a + i - 1 BY <1>2, <2>1
    <3> QED BY <3>1, <3>2, <3>3
  <2> QED BY <2>2, <2>3
<1>4. Follows(u, a, stage) BY <1>3 DEF Follows
<1> QED BY <1>1, <1>4 DEF u

LEMMA Cut ==
  ASSUME NEW a \in Nat, NEW stage, NEW s \in Seq(S!Frame), Follows(s, a, stage),
         NEW i \in Nat, NEW j \in Nat, i <= j, j <= Len(s)
  PROVE  /\ SubSeq(s, i + 1, j) \in Seq(S!Frame) /\ Len(SubSeq(s, i + 1, j)) = j - i
         /\ Follows(SubSeq(s, i + 1, j), a + i, stage)
<1> DEFINE u == SubSeq(s, i + 1, j)
           m == i + 1
<1>1. Len(s) \in Nat /\ DOMAIN s = 1..Len(s) /\ s \in [1..Len(s) -> S!Frame] BY LenProperties
<1>2. m \in Int /\ j \in Int /\ \A k \in m..j : s[k] \in S!Frame BY <1>1
<1>3. /\ u \in Seq(S!Frame) /\ Len(u) = (IF m <= j THEN j - m + 1 ELSE 0)
      /\ \A k \in 1..(j - m + 1) : u[k] = s[m + k - 1]
  <2> HIDE DEF m
  <2>1. /\ SubSeq(s, m, j) \in Seq(S!Frame)
        /\ Len(SubSeq(s, m, j)) = (IF m <= j THEN j - m + 1 ELSE 0)
        /\ \A k \in 1..(j - m + 1) : SubSeq(s, m, j)[k] = s[m + k - 1]
     BY <1>2, SubSeqProperties
  <2> QED BY <2>1 DEF m
<1>4. Len(u) = j - i /\ DOMAIN u = 1..(j - i)
  <2>1. DOMAIN u = 1..Len(u) BY <1>3, LenProperties
  <2> QED BY <1>3, <2>1
<1> HIDE DEF u
<1>5. ASSUME NEW k \in DOMAIN u PROVE u[k] = Piece(a + i + k - 1, stage)
  <2>1. k \in 1..(j - m + 1) /\ m + k - 1 = i + k /\ i + k \in DOMAIN s BY <1>1, <1>4
  <2>2. u[k] = s[i + k] BY <1>3, <2>1
  <2>3. s[i + k] = Piece(a + (i + k) - 1, stage) BY <2>1 DEF Follows
  <2>4. a + (i + k) - 1 = a + i + k - 1 BY <2>1
  <2> QED BY <2>2, <2>3, <2>4
<1>6. Follows(u, a + i, stage) BY <1>5 DEF Follows
<1> QED BY <1>3, <1>4, <1>6 DEF u

LEMMA EmptyFollows ==
  /\ <<>> \in Seq(S!Frame) /\ Len(<<>>) = 0
  /\ \A a, stage : Follows(<<>>, a, stage)
BY EmptySeq DEF Follows

InChunk == {"stft", "deinterleave", "infer", "interleave", "istft"}

LEMMA QuietOut ==
  ASSUME OutInv, pc \in InChunk, pc' \in InChunk, ChunkDone' = ChunkDone,
         UNCHANGED <<n, chunk, chunkOut, out, dir>>
  PROVE  OutInv'
<1>1. /\ Len(chunkOut) = ChunkDone /\ Follows(chunkOut, Offset(chunk), "clean")
      /\ chunkOut \in Seq(S!Frame) /\ out \in Seq(S!Frame) /\ Follows(out, 0, "clean") /\ Len(out) <= n
      /\ Len(out) = Offset(chunk) + Begin(chunk) /\ dir = 0
   BY DEF OutInv, InChunk, Stages
<1>2. /\ Len(chunkOut') = ChunkDone' /\ Follows(chunkOut', Offset(chunk'), "clean")
      /\ chunkOut' \in Seq(S!Frame) /\ out' \in Seq(S!Frame) /\ Follows(out', 0, "clean") /\ Len(out') <= n'
      /\ Len(out') = Offset(chunk') + Begin(chunk') /\ dir' = 0
   BY <1>1
<1> QED BY <1>2 DEF OutInv, InChunk

LEMMA StagesOut ==
  ASSUME SpeechTypes, Buffers, OutInv, S!Stft \/ S!Deinterleave \/ S!Infer \/ S!Interleave
  PROVE  OutInv'
<1>1. /\ pc \in InChunk \ {"istft"} /\ pc' \in InChunk /\ (pc' = "istft" => batch' = 0)
      /\ UNCHANGED <<n, chunk, chunkOut, out, dir>>
  <2>1. CASE S!Stft BY <2>1 DEF S!Stft, InChunk
  <2>2. CASE S!Deinterleave BY <2>2 DEF S!Deinterleave, InChunk
  <2>3. CASE S!Infer BY <2>3 DEF S!Infer, InChunk
  <2>4. CASE S!Interleave BY <2>4 DEF S!Interleave, InChunk, Buffers
  <2> QED BY <2>1, <2>2, <2>3, <2>4
<1>2. ChunkDone = 0 /\ ChunkDone' = 0
  <2>1. ChunkDone = 0 BY <1>1 DEF ChunkDone, InChunk
  <2>2. 0 * IstftBatchN * HopSize = 0 BY SpeechFacts
  <2>3. ChunkDone' = 0 BY <1>1, <2>2 DEF ChunkDone, InChunk
  <2> QED BY <2>1, <2>3
<1> QED BY <1>1, <1>2, QuietOut

LEMMA IstftOut ==
  ASSUME SpeechTypes, Buffers, OutInv, S!Istft
  PROVE  OutInv'
<1> DEFINE base == Offset(chunk)
           p == batch * IstftBatchN
<1>1. pc = "istft" /\ UNCHANGED <<n, chunk, out, dir>> BY DEF S!Istft
<1>2. PICK c \in Nat :
        /\ Row(A', c, base + p * HopSize, "clean")
        /\ chunkOut' = chunkOut \o S!Samples(A', c, HopSize)
        /\ \/ pc' = "istft" /\ batch' * IstftBatchN = p + c
           \/ pc' = "keep" /\ p + c = TotalFrames
   BY IstftKeeps
<1> DEFINE more == S!Samples(A', c, HopSize)
<1>3. base \in Nat /\ p \in Nat /\ p * HopSize \in Nat
  <2>1. base \in Nat /\ batch \in Nat BY OffsetFacts DEF SpeechTypes
  <2>2. p \in Nat BY <2>1, SpeechFacts, Times
  <2> QED BY <2>1, <2>2, SpeechFacts, Times
<1>4. /\ chunkOut \in Seq(S!Frame) /\ Len(chunkOut) = p * HopSize /\ Follows(chunkOut, base, "clean")
      /\ out \in Seq(S!Frame) /\ Follows(out, 0, "clean") /\ Len(out) <= n
      /\ Len(out) = Offset(chunk) + Begin(chunk) /\ dir = 0
   BY <1>1 DEF OutInv, Stages, ChunkDone
<1> HIDE DEF base, p
<1>5. "clean" \in Kinds \ {"nothing"} /\ base + p * HopSize \in Nat BY <1>3 DEF Kinds
<1>6. /\ more \in Seq(S!Frame) /\ Len(more) = c * HopSize
      /\ Follows(more, base + p * HopSize, "clean")
   BY <1>2, <1>5, Sampled
<1> HIDE DEF more
<1>7. Follows(more, base + Len(chunkOut), "clean") BY <1>4, <1>6
<1>8. /\ chunkOut \o more \in Seq(S!Frame) /\ Len(chunkOut \o more) = Len(chunkOut) + Len(more)
      /\ Follows(chunkOut \o more, base, "clean")
   BY <1>3, <1>4, <1>6, <1>7, Joined
<1>9. chunkOut' = chunkOut \o more BY <1>2 DEF more
<1>10. Len(chunkOut') = (p + c) * HopSize
  <2>1. Len(chunkOut') = p * HopSize + c * HopSize BY <1>4, <1>6, <1>8, <1>9
  <2>2. (p + c) * HopSize = p * HopSize + c * HopSize BY <1>3, SpeechFacts, Times
  <2> QED BY <2>1, <2>2
<1>11. /\ chunkOut' \in Seq(S!Frame) /\ Follows(chunkOut', Offset(chunk'), "clean")
       /\ out' \in Seq(S!Frame) /\ Follows(out', 0, "clean") /\ Len(out') <= n'
       /\ Len(out') = Offset(chunk') + Begin(chunk') /\ dir' = 0
   BY <1>1, <1>4, <1>8, <1>9 DEF base
<1>12. pc' \in {"istft", "keep"} /\ Len(chunkOut') = ChunkDone'
  <2>1. CASE pc' = "istft"
    <3>1. batch' * IstftBatchN * HopSize = (p + c) * HopSize BY <1>2, <2>1
    <3> QED BY <1>10, <2>1, <3>1 DEF ChunkDone
  <2>2. CASE pc' # "istft"
    <3>1. pc' = "keep" /\ p + c = TotalFrames BY <1>2, <2>2
    <3> QED BY <1>10, <3>1 DEF ChunkDone, ChunkSamples
  <2> QED BY <1>2, <2>1, <2>2
<1> QED BY <1>11, <1>12 DEF OutInv

\* What Keep and Publish take for the end of what a chunk keeps.
LEMMA KeepsTo ==
  ASSUME SpeechTypes, OutInv, pc \in {"keep", "publish"}
  PROVE  /\ S!KeepEnd = Last /\ S!Begin(chunk) = Begin(chunk) /\ S!Offset(chunk) = Offset(chunk)
         /\ Len(chunkOut) = ChunkSamples /\ Last \in Nat /\ Last <= ChunkSamples
         /\ Begin(chunk) \in Nat /\ Offset(chunk) \in Nat /\ Begin(chunk) <= Last
         /\ n \in Nat /\ Offset(chunk) + Last <= n
<1>1. n \in Nat /\ chunk \in 0..(Chunks(n) - 1) BY OffsetFacts
<1>2. /\ Last \in Nat /\ Last <= ChunkSamples /\ Begin(chunk) \in Nat /\ Offset(chunk) \in Nat
      /\ Begin(chunk) <= Last /\ Offset(chunk) + Last <= n
   BY <1>1, Ends DEF Last
<1>3. Len(chunkOut) = ChunkSamples /\ ChunkSamples \in Nat BY Geometry DEF OutInv, Stages, ChunkDone
<1>4. S!KeepEnd = S!Smaller(Last, Len(chunkOut)) BY SpeechSame DEF S!KeepEnd
<1>5. S!KeepEnd = Last BY <1>2, <1>3, <1>4 DEF S!Smaller
<1> QED BY <1>1, <1>2, <1>3, <1>5, SpeechSame

LEMMA KeepOut ==
  ASSUME SpeechTypes, OutInv, S!Keep
  PROVE  /\ OutInv' /\ Len(out') = Offset(chunk) + Last
         /\ pc' = "publish" => pos' = Begin(chunk)
<1>1. /\ pc = "keep" /\ UNCHANGED <<n, chunk, chunkOut, dir>>
      /\ \/ /\ S!Begin(chunk) < S!KeepEnd /\ pc' = "publish" /\ pos' = S!Begin(chunk)
            /\ out' = out \o SubSeq(chunkOut, S!Begin(chunk) + 1, S!KeepEnd)
         \/ ~(S!Begin(chunk) < S!KeepEnd) /\ pc' = "next" /\ out' = out
   BY DEF S!Keep
<1>2. /\ S!KeepEnd = Last /\ S!Begin(chunk) = Begin(chunk)
      /\ Len(chunkOut) = ChunkSamples /\ Last \in Nat /\ Last <= ChunkSamples
      /\ Begin(chunk) \in Nat /\ Offset(chunk) \in Nat /\ Begin(chunk) <= Last
      /\ n \in Nat /\ Offset(chunk) + Last <= n
   BY <1>1, KeepsTo
<1>3. /\ chunkOut \in Seq(S!Frame) /\ Follows(chunkOut, Offset(chunk), "clean")
      /\ out \in Seq(S!Frame) /\ Follows(out, 0, "clean") /\ Len(out) = Offset(chunk) + Begin(chunk) /\ dir = 0
   BY <1>1 DEF OutInv, Stages
<1>4. Last' = Last BY <1>1 DEF Last
<1>5. /\ Len(chunkOut') = ChunkSamples /\ Follows(chunkOut', Offset(chunk'), "clean")
      /\ chunkOut' \in Seq(S!Frame) /\ dir' = 0
   BY <1>1, <1>2, <1>3
<1>6. ASSUME out' \in Seq(S!Frame), Follows(out', 0, "clean"), Len(out') = Offset(chunk) + Last,
             pc' = "next" \/ (pc' = "publish" /\ Begin(chunk') <= pos' /\ pos' < Last')
      PROVE  OutInv' /\ Len(out') = Offset(chunk) + Last
  <2>1. Len(out') = Offset(chunk') + Last' /\ Len(out') <= n' BY <1>1, <1>2, <1>4, <1>6
  <2>2. Len(chunkOut') = ChunkDone' BY <1>5, <1>6 DEF ChunkDone
  <2> QED BY <1>5, <1>6, <2>1, <2>2 DEF OutInv
<1>7. CASE Begin(chunk) < Last
  <2> DEFINE more == SubSeq(chunkOut, Begin(chunk) + 1, Last)
  <2>1. pc' = "publish" /\ pos' = Begin(chunk) /\ out' = out \o more BY <1>1, <1>2, <1>7
  <2>2. /\ more \in Seq(S!Frame) /\ Len(more) = Last - Begin(chunk)
        /\ Follows(more, Offset(chunk) + Begin(chunk), "clean")
     BY <1>2, <1>3, Cut
  <2> HIDE DEF more
  <2>3. Follows(more, 0 + Len(out), "clean") BY <1>2, <1>3, <2>2
  <2>4. /\ out \o more \in Seq(S!Frame) /\ Len(out \o more) = Len(out) + Len(more)
        /\ Follows(out \o more, 0, "clean")
     BY <1>3, <2>2, <2>3, Joined
  <2>5. Len(out') = Offset(chunk) + Last BY <1>2, <1>3, <2>1, <2>2, <2>4
  <2>6. Begin(chunk') <= pos' /\ pos' < Last' BY <1>1, <1>2, <1>4, <1>7, <2>1
  <2> QED BY <1>6, <2>1, <2>4, <2>5, <2>6
<1>8. CASE ~(Begin(chunk) < Last)
  <2>1. pc' = "next" /\ out' = out /\ Begin(chunk) = Last BY <1>1, <1>2, <1>8
  <2> QED BY <1>3, <1>6, <2>1
<1> QED BY <1>7, <1>8

LEMMA PublishOut ==
  ASSUME SpeechTypes, OutInv, S!Publish
  PROVE  OutInv'
<1>1. /\ pc = "publish" /\ UNCHANGED <<n, chunk, chunkOut, out>> /\ dir' = 1 - dir
      /\ pos' = IF dir = 0 THEN pos ELSE pos + StreamFrame
      /\ pc' = IF dir = 1 /\ pos + StreamFrame >= S!KeepEnd THEN "next" ELSE "publish"
   BY DEF S!Publish, S!Advance
<1>2. S!KeepEnd = Last /\ Last \in Nat /\ Begin(chunk) \in Nat BY <1>1, KeepsTo
<1>3. /\ chunkOut \in Seq(S!Frame) /\ Follows(chunkOut, Offset(chunk), "clean")
      /\ Len(chunkOut) = ChunkSamples
      /\ out \in Seq(S!Frame) /\ Follows(out, 0, "clean") /\ Len(out) = Offset(chunk) + Last
      /\ Len(out) <= n /\ Begin(chunk) <= pos /\ pos < Last
   BY <1>1 DEF OutInv, Stages, ChunkDone
<1>4. Last' = Last BY <1>1 DEF Last
<1>5. dir \in {0, 1} /\ pos \in Nat /\ StreamFrame \in Nat BY SpeechFacts DEF SpeechTypes
<1>6. pc' \in {"publish", "next"} /\ (pc' = "publish" => Begin(chunk) <= pos' /\ pos' < Last)
      /\ (pc' = "next" => dir' = 0)
  <2>1. CASE dir = 0 BY <1>1, <1>3, <2>1
  <2>2. CASE dir # 0
    <3>1. dir = 1 /\ dir' = 0 BY <1>1, <1>5, <2>2
    <3>2. CASE pos + StreamFrame >= Last BY <1>1, <1>2, <3>1, <3>2
    <3>3. CASE ~(pos + StreamFrame >= Last)
      <4>1. pc' = "publish" /\ pos' = pos + StreamFrame BY <1>1, <1>2, <3>1, <3>3
      <4> QED BY <1>2, <1>3, <1>5, <3>3, <4>1
    <3> QED BY <3>2, <3>3
  <2> QED BY <2>1, <2>2
<1>7. /\ Len(chunkOut') = ChunkSamples /\ Follows(chunkOut', Offset(chunk'), "clean")
      /\ chunkOut' \in Seq(S!Frame) /\ out' \in Seq(S!Frame) /\ Follows(out', 0, "clean")
      /\ Len(out') = Offset(chunk') + Last' /\ Len(out') <= n'
      /\ (pc' = "publish" => Begin(chunk') <= pos' /\ pos' < Last')
   BY <1>1, <1>3, <1>4, <1>6
<1> QED BY <1>6, <1>7 DEF OutInv, ChunkDone

LEMMA NextChunkOut ==
  ASSUME SpeechTypes, OutInv, S!NextChunk
  PROVE  OutInv'
<1>1. /\ pc = "next" /\ chunk' = chunk + 1 /\ chunkOut' = <<>> /\ pc' = "stft"
      /\ chunk + 1 < Chunks(n) /\ UNCHANGED <<n, out, dir>>
   BY SpeechSame DEF S!NextChunk
<1>2. n \in Nat /\ chunk \in 0..(Chunks(n) - 1) /\ Chunks(n) \in Nat BY OffsetFacts, Reach
<1>3. chunk < Chunks(n) - 1 BY <1>1, <1>2
<1>4. Offset(chunk) + Last = Offset(chunk + 1) + Begin(chunk + 1) BY <1>2, <1>3, Ends DEF Last
<1>5. /\ out \in Seq(S!Frame) /\ Follows(out, 0, "clean") /\ Len(out) = Offset(chunk) + Last
      /\ Len(out) <= n /\ dir = 0
   BY <1>1 DEF OutInv
<1>6. /\ out' \in Seq(S!Frame) /\ Follows(out', 0, "clean") /\ Len(out') = Offset(chunk') + Begin(chunk')
      /\ Len(out') <= n' /\ dir' = 0
   BY <1>1, <1>4, <1>5
<1>7. /\ chunkOut' \in Seq(S!Frame) /\ Len(chunkOut') = 0 /\ Follows(chunkOut', Offset(chunk'), "clean")
   BY <1>1, EmptyFollows
<1> QED BY <1>1, <1>6, <1>7 DEF OutInv, ChunkDone

LEMMA SaveOut ==
  ASSUME SpeechTypes, OutInv, S!Save
  PROVE  OutInv' /\ out' = out
<1>1. /\ pc = "next" /\ chunk + 1 = Chunks(n) /\ out' = SubSeq(out, 1, S!Smaller(Len(out), n))
      /\ pc' \in {"saved", "failed"} /\ UNCHANGED <<n, chunk, chunkOut, dir>>
   BY SpeechSame DEF S!Save
<1>2. n \in Nat /\ chunk \in 0..(Chunks(n) - 1) /\ Chunks(n) \in Nat BY OffsetFacts, Reach
<1>3. chunk = Chunks(n) - 1 BY <1>1, <1>2
<1>4. Offset(chunk) + Last = n BY <1>2, <1>3, Ends DEF Last
<1>5. /\ out \in Seq(S!Frame) /\ Follows(out, 0, "clean") /\ Len(out) = n /\ dir = 0
      /\ chunkOut \in Seq(S!Frame)
   BY <1>1, <1>4 DEF OutInv
<1>6. S!Smaller(Len(out), n) = Len(out) BY <1>2, <1>5 DEF S!Smaller
<1>7. out' = out BY <1>1, <1>5, <1>6, SubSeqFull
<1> QED BY <1>1, <1>2, <1>5, <1>7 DEF OutInv, Stages

----------------------------------------------------------------------------
(* The rest of a speech run keeps types and buffers. *)

LEMMA RestKeeps ==
  ASSUME SpeechTypes, Buffers, OutInv, S!Keep \/ S!Publish \/ S!NextChunk \/ S!Save \/ S!StageFails
  PROVE  SpeechTypes' /\ Buffers'
<1>1. UNCHANGED <<n, tvm, batch, A, B>>
   BY DEF S!Keep, S!Publish, S!NextChunk, S!Save, S!StageFails
<1>2. n \in Nat /\ chunk \in 0..(Chunks(n) - 1) /\ Chunks(n) \in Nat BY OffsetFacts, Reach
<1>3. CASE S!Keep \/ S!Publish
  <2>1. pc \in {"keep", "publish"} /\ pc' \in {"publish", "next"} /\ chunk' = chunk
     BY <1>3 DEF S!Keep, S!Publish, S!Advance
  <2>2. pos' \in Nat /\ dir' \in {0, 1}
    <3>1. pos \in Nat /\ dir \in {0, 1} BY DEF SpeechTypes
    <3>2. CASE S!Keep
      <4>1. Begin(chunk) \in Nat BY <2>1, KeepsTo
      <4> QED BY <3>1, <3>2, <4>1, SpeechSame DEF S!Keep
    <3>3. CASE S!Publish BY <3>1, <3>3, SpeechFacts DEF S!Publish, S!Advance
    <3> QED BY <1>3, <3>2, <3>3
  <2> QED BY <1>1, <2>1, <2>2 DEF SpeechTypes, Buffers, Stages
<1>4. CASE S!NextChunk
  <2>1. pc = "next" /\ pc' = "stft" /\ chunk' = chunk + 1 /\ chunk + 1 < Chunks(n) /\ UNCHANGED <<pos, dir>>
     BY <1>4, SpeechSame DEF S!NextChunk
  <2>2. chunk' \in 0..(Chunks(n') - 1) BY <1>1, <1>2, <2>1
  <2>3. batch = 0 BY <2>1 DEF Buffers
  <2>4. batch' * BatchN = 0 BY <1>1, <2>3, SpeechFacts
  <2>5. batch' * BatchN < TotalFrames BY <2>4, SpeechFacts
  <2>6. Row(B', batch' * BatchN, Offset(chunk'), "stft") BY <2>4 DEF Row
  <2>7. SpeechTypes' BY <1>1, <2>1, <2>2 DEF SpeechTypes, Stages
  <2>8. Buffers' BY <2>1, <2>5, <2>6 DEF Buffers, Holds
  <2> QED BY <2>7, <2>8
<1>5. CASE S!Save \/ S!StageFails
  <2>1. pc' \in {"saved", "failed"} /\ (pc' = "saved" => pc = "next") /\ UNCHANGED <<chunk, pos, dir>>
     BY <1>5 DEF S!Save, S!StageFails
  <2> QED BY <1>1, <2>1 DEF SpeechTypes, Buffers, Stages
<1> QED BY <1>3, <1>4, <1>5

LEMMA FailsOut ==
  ASSUME SpeechTypes, OutInv, S!StageFails
  PROVE  OutInv' /\ UNCHANGED <<n, chunk, out, pos>>
<1>1. pc # "publish" /\ pc' = "failed" /\ UNCHANGED <<n, chunk, chunkOut, out, dir, pos>> BY DEF S!StageFails
<1> QED BY <1>1 DEF OutInv, Stages

----------------------------------------------------------------------------
(* What a viewer of a speech run was sent. *)

\* The samples sent in direction d, and how far that is.
SentAs(d, seq, front, open) ==
  \E a \in 0..(front - Len(seq)) :
    /\ Follows(seq, a, Kind(d))
    /\ open /\ seq # <<>> => a + Len(seq) = front

LEMMA SentMeans ==
  SentInv <=> /\ sent \in [{0, 1} -> Seq(S!Frame)]
              /\ \A d \in {0, 1} : SentAs(d, sent[d], Front(d), Attached)
BY DEF SentInv, SentAs, Attached

LEMMA SentStays ==
  ASSUME SentInv, sent' = sent, \A d \in {0, 1} : Front(d)' = Front(d),
         viewer' = viewer \/ viewer' \in {"away", "left"}
  PROVE  SentInv'
<1>1. ASSUME NEW d \in {0, 1} PROVE SentAs(d, sent'[d], Front(d)', Attached')
  <2>1. SentAs(d, sent[d], Front(d), Attached) BY SentMeans
  <2>2. Attached' => Attached BY DEF Attached
  <2>3. sent'[d] = sent[d] /\ Front(d)' = Front(d) BY <1>1
  <2>4. ASSUME NEW f, NEW o \in BOOLEAN, NEW p \in BOOLEAN, p => o, SentAs(d, sent[d], f, o)
        PROVE  SentAs(d, sent[d], f, p)
     BY <2>4 DEF SentAs
  <2>5. Attached \in BOOLEAN /\ Attached' \in BOOLEAN BY DEF Attached
  <2>6. SentAs(d, sent[d], Front(d), Attached') BY <2>1, <2>2, <2>4, <2>5
  <2> QED BY <2>3, <2>6
<1>2. sent' \in [{0, 1} -> Seq(S!Frame)] BY DEF SentInv
<1> QED BY <1>1, <1>2 DEF SentInv, SentAs, Attached

\* The samples a viewer is sent begin where those before them ended.
LEMMA SentMore ==
  ASSUME NEW d, NEW seq \in Seq(S!Frame), NEW more \in Seq(S!Frame), NEW front \in Nat,
         SentAs(d, seq, front, TRUE), Follows(more, front, Kind(d))
  PROVE  seq \o more \in Seq(S!Frame) /\ SentAs(d, seq \o more, front + Len(more), TRUE)
<1>1. Len(seq) \in Nat /\ Len(more) \in Nat BY LenProperties
<1>2. CASE seq = <<>>
  <2>1. seq \o more = more BY <1>2, ConcatEmptySeq
  <2>2. front \in 0..(front + Len(more) - Len(more)) BY <1>1
  <2>3. SentAs(d, more, front + Len(more), TRUE) BY <2>2 DEF SentAs
  <2> QED BY <2>1, <2>3
<1>3. CASE seq # <<>>
  <2>1. PICK a \in 0..(front - Len(seq)) : Follows(seq, a, Kind(d)) /\ a + Len(seq) = front
     BY <1>3 DEF SentAs
  <2>2. a \in Nat OBVIOUS
  <2> DEFINE u == seq \o more
             stage == Kind(d)
  <2>3. Follows(more, a + Len(seq), stage) /\ Follows(seq, a, stage) BY <2>1
  <2>4. u \in Seq(S!Frame) /\ Len(u) = Len(seq) + Len(more) /\ Follows(u, a, stage)
    <3> HIDE DEF stage
    <3> QED BY <2>2, <2>3, Joined
  <2> HIDE DEF u
  <2>5. a + Len(u) = front + Len(more) /\ a \in 0..(front + Len(more) - Len(u)) BY <1>1, <2>1, <2>2, <2>4
  <2>6. SentAs(d, u, front + Len(more), TRUE) BY <2>4, <2>5 DEF SentAs
  <2> QED BY <2>4, <2>6 DEF u
<1> QED BY <1>2, <1>3

\* What was not sent was not sent: the front may pass a viewer that is away.
LEMMA SentPast ==
  ASSUME NEW d, NEW seq \in Seq(S!Frame), NEW front \in Nat, NEW count \in Nat, NEW open,
         SentAs(d, seq, front, open)
  PROVE  SentAs(d, seq, front + count, FALSE)
<1>1. Len(seq) \in Nat BY LenProperties
<1>2. PICK a \in 0..(front - Len(seq)) : Follows(seq, a, Kind(d)) BY DEF SentAs
<1>3. a \in 0..(front + count - Len(seq)) BY <1>1
<1> QED BY <1>2, <1>3 DEF SentAs

\* One message, of which the viewer gets all or nothing.
LEMMA SentMessage ==
  ASSUME SentInv, NEW d \in {0, 1}, NEW pcm \in Seq(S!Frame), S!SendFrame(d, pcm),
         Front(d) \in Nat, Follows(pcm, Front(d), Kind(d)),
         Front(d)' = Front(d) + Len(pcm), Front(1 - d)' = Front(1 - d)
  PROVE  SentInv'
<1>1. /\ sent \in [{0, 1} -> Seq(S!Frame)] /\ 1 - d \in {0, 1}
      /\ SentAs(d, sent[d], Front(d), Attached) /\ SentAs(1 - d, sent[1 - d], Front(1 - d), Attached)
      /\ \A e \in {0, 1} : e = d \/ e = 1 - d
   BY SentMeans
<1>2. Len(pcm) \in Nat BY LenProperties
<1>3. CASE viewer \in {"waiting", "accepted"}
  <2>1. viewer' = "accepted" /\ sent' = [sent EXCEPT ![d] = @ \o pcm] BY <1>3 DEF S!SendFrame
  <2>2. Attached = TRUE /\ Attached' = TRUE BY <1>3, <2>1 DEF Attached
  <2> DEFINE u == sent[d] \o pcm
  <2>3. u \in Seq(S!Frame) /\ SentAs(d, u, Front(d) + Len(pcm), TRUE)
    <3>1. sent[d] \in Seq(S!Frame) BY <1>1
    <3>2. SentAs(d, sent[d], Front(d), TRUE) BY <1>1, <2>2
    <3> QED BY <3>1, <3>2, SentMore
  <2>4. sent' = [sent EXCEPT ![d] = u] BY <2>1
  <2> HIDE DEF u
  <2>5. sent' \in [{0, 1} -> Seq(S!Frame)] /\ sent'[d] = u /\ sent'[1 - d] = sent[1 - d]
     BY <1>1, <2>3, <2>4
  <2>6. SentAs(d, sent'[d], Front(d)', Attached') BY <2>2, <2>3, <2>5
  <2>7. SentAs(1 - d, sent'[1 - d], Front(1 - d)', Attached') BY <1>1, <2>2, <2>5
  <2>8. \A e \in {0, 1} : SentAs(e, sent'[e], Front(e)', Attached') BY <1>1, <2>6, <2>7
  <2> QED BY <2>5, <2>8 DEF SentInv, SentAs, Attached
<1>4. CASE viewer \notin {"waiting", "accepted"}
  <2>1. sent' = sent /\ viewer' = "away" BY <1>4 DEF S!SendFrame
  <2>2. Attached = FALSE /\ Attached' = FALSE BY <1>4, <2>1 DEF Attached
  <2>3. SentAs(d, sent[d], Front(d) + Len(pcm), FALSE)
    <3>1. sent[d] \in Seq(S!Frame) BY <1>1
    <3> QED BY <1>1, <1>2, <3>1, SentPast
  <2>4. SentAs(d, sent'[d], Front(d)', Attached') BY <2>1, <2>2, <2>3
  <2>5. SentAs(1 - d, sent'[1 - d], Front(1 - d)', Attached') BY <1>1, <2>1, <2>2
  <2>6. \A e \in {0, 1} : SentAs(e, sent'[e], Front(e)', Attached') BY <1>1, <2>4, <2>5
  <2>7. sent' \in [{0, 1} -> Seq(S!Frame)] BY <1>1, <2>1
  <2> QED BY <2>6, <2>7 DEF SentInv, SentAs, Attached
<1> QED BY <1>3, <1>4

LEMMA FrontFacts ==
  ASSUME SpeechTypes, OutInv, NEW d \in {0, 1}
  PROVE  Front(d) \in Nat /\ Front(d) <= Len(out) /\ Len(out) \in Nat /\ Len(out) <= n /\ n \in Nat
<1>1. n \in Nat /\ chunk \in 0..(Chunks(n) - 1) /\ Offset(chunk) \in Nat BY OffsetFacts
<1>2. out \in Seq(S!Frame) /\ Len(out) \in Nat /\ Len(out) <= n BY LenProperties DEF OutInv
<1>3. CASE pc = "publish"
  <2>1. Last \in Nat /\ Len(out) = Offset(chunk) + Last /\ pos < Last BY <1>3, KeepsTo DEF OutInv
  <2>2. pos \in Nat /\ StreamFrame \in Nat BY SpeechFacts DEF SpeechTypes
  <2>3. S!Smaller(pos + StreamFrame, Last) \in Nat /\ S!Smaller(pos + StreamFrame, Last) <= Last
     BY <2>1, <2>2 DEF S!Smaller
  <2> QED BY <1>1, <1>2, <1>3, <2>1, <2>2, <2>3 DEF Front
<1>4. CASE pc # "publish" BY <1>1, <1>2, <1>4 DEF Front
<1> QED BY <1>3, <1>4

LEMMA PublishSent ==
  ASSUME SpeechTypes, OutInv, SentInv, S!Publish
  PROVE  SentInv'
<1> DEFINE o == Offset(chunk)
           count == S!Smaller(StreamFrame, Last - pos)
<1>1. /\ pc = "publish" /\ UNCHANGED <<n, chunk, chunkOut, out>> /\ dir' = 1 - dir
      /\ pos' = (IF dir = 0 THEN pos ELSE pos + StreamFrame)
      /\ pc' = (IF dir = 1 /\ pos + StreamFrame >= S!KeepEnd THEN "next" ELSE "publish")
      /\ S!SendFrame(dir, S!Pcm)
   BY DEF S!Publish, S!Advance
<1>2. /\ S!KeepEnd = Last /\ Last \in Nat /\ o \in Nat /\ S!Offset(chunk) = o
      /\ Last <= ChunkSamples /\ Len(chunkOut) = ChunkSamples /\ ChunkSamples \in Nat
   BY <1>1, KeepsTo, Geometry
<1>3. chunkOut \in Seq(S!Frame) /\ Follows(chunkOut, o, "clean") /\ pos < Last /\ Len(out) = o + Last
   BY <1>1 DEF OutInv, Stages
<1>4. dir \in {0, 1} /\ pos \in Nat /\ StreamFrame \in Nat \ {0} BY SpeechFacts DEF SpeechTypes
<1>5. Last' = Last /\ Offset(chunk') = o BY <1>1 DEF Last
<1>6. count \in Nat /\ pos + count = S!Smaller(pos + StreamFrame, Last) /\ pos + count <= Last
   BY <1>2, <1>3, <1>4 DEF S!Smaller
<1> HIDE DEF o, count
<1>7. S!Pcm \in Seq(S!Frame) /\ Len(S!Pcm) = count /\ Follows(S!Pcm, o + pos, Kind(dir))
  <2>1. S!Pcm = IF dir = 0 THEN S!Input(pos, count) ELSE SubSeq(chunkOut, pos + 1, pos + count)
     BY <1>2 DEF S!Pcm, count
  <2>2. CASE dir = 0
    <3> DEFINE p == S!Input(pos, count)
    <3>1. p = [s \in 1..count |-> Piece(o + pos + s - 1, "pcm")] BY <1>2 DEF S!Input, Piece
    <3>2. \A s \in 1..count : Piece(o + pos + s - 1, "pcm") \in S!Frame
      <4>1. \A s \in 1..count : o + pos + s - 1 \in Nat BY <1>2, <1>4, <1>6
      <4>2. "pcm" \in Kinds BY DEF Kinds
      <4> QED BY <4>1, <4>2, FrameFacts
    <3> HIDE DEF p
    <3>3. p \in [1..count -> S!Frame] BY <3>1, <3>2
    <3>4. p \in Seq(S!Frame) /\ Len(p) = count /\ DOMAIN p = 1..count BY <1>6, <3>3
    <3>5. Follows(p, o + pos, "pcm") BY <3>1, <3>4 DEF Follows
    <3>6. S!Pcm = p /\ Kind(dir) = "pcm" BY <2>1, <2>2 DEF p, Kind
    <3> QED BY <3>4, <3>5, <3>6
  <2>3. CASE dir # 0
    <3> DEFINE e == pos + count
               p == SubSeq(chunkOut, pos + 1, e)
    <3>1. e \in Nat /\ pos <= e /\ e <= Len(chunkOut) /\ e - pos = count BY <1>2, <1>4, <1>6
    <3>2. S!Pcm = p /\ Kind(dir) = "clean" BY <1>4, <2>1, <2>3 DEF Kind
    <3> HIDE DEF e
    <3>3. o \in Nat /\ pos \in Nat /\ chunkOut \in Seq(S!Frame) BY <1>2, <1>3, <1>4
    <3>4. /\ p \in Seq(S!Frame) /\ Len(p) = e - pos /\ Follows(p, o + pos, "clean")
       BY <1>3, <3>1, <3>3, Cut
    <3> QED BY <3>1, <3>2, <3>4
  <2> QED BY <2>2, <2>3
<1> PICK d \in {0, 1} : d = dir BY <1>4
<1>8. Front(d) = o + pos /\ d = dir /\ 1 - d \in {0, 1} BY <1>1, <1>4 DEF Front, o
<1>9. Front(d)' = Front(d) + count /\ Front(1 - d)' = Front(1 - d)
  <2>1. CASE dir = 0
    <3>1. dir' = 1 /\ pos' = pos /\ pc' = "publish" BY <1>1, <2>1
    <3>2. Front(0)' = Offset(chunk') + S!Smaller(pos' + StreamFrame, Last') BY <3>1 DEF Front
    <3>3. Front(0)' = o + (pos + count) BY <1>5, <1>6, <3>1, <3>2
    <3>4. Front(1) = o + pos BY <1>1 DEF Front, o
    <3>5. Front(1)' = Offset(chunk') + pos' BY <3>1 DEF Front
    <3>6. o + (pos + count) = (o + pos) + count BY <1>2, <1>4, <1>6
    <3> QED BY <1>5, <1>8, <2>1, <3>1, <3>3, <3>4, <3>5, <3>6
  <2>2. CASE dir = 1
    <3>1. dir' = 0 /\ pos' = pos + StreamFrame /\ 1 - dir = 0 BY <1>1, <2>2
    <3>2. Front(0) = o + (pos + count) BY <1>1, <1>6, <2>2 DEF Front, o
    <3>3. (o + pos) + count = o + (pos + count) BY <1>2, <1>4, <1>6
    <3>4. CASE pos + StreamFrame >= Last
      <4>1. pc' = "next" BY <1>1, <1>2, <2>2, <3>4
      <4>2. Front(0)' = Len(out') /\ Front(1)' = Len(out') BY <4>1 DEF Front
      <4>3. pos + count = Last BY <1>2, <1>4, <1>6, <3>4 DEF S!Smaller
      <4> QED BY <1>1, <1>3, <1>8, <2>2, <3>1, <3>2, <3>3, <4>2, <4>3
    <3>5. CASE ~(pos + StreamFrame >= Last)
      <4>1. pc' = "publish" BY <1>1, <1>2, <2>2, <3>5
      <4>2. Front(0)' = Offset(chunk') + pos' /\ Front(1)' = Offset(chunk') + pos' BY <3>1, <4>1 DEF Front
      <4>3. pos + count = pos + StreamFrame BY <1>2, <1>4, <1>6, <3>5 DEF S!Smaller
      <4> QED BY <1>5, <1>8, <2>2, <3>1, <3>2, <3>3, <4>2, <4>3
    <3> QED BY <3>4, <3>5
  <2> QED BY <1>4, <2>1, <2>2
<1>10. Front(d) \in Nat BY FrontFacts
<1>11. Follows(S!Pcm, Front(d), Kind(d)) BY <1>7, <1>8
<1>12. Front(d)' = Front(d) + Len(S!Pcm) BY <1>7, <1>9
<1>13. S!SendFrame(d, S!Pcm) BY <1>1, <1>8
<1> QED BY <1>7, <1>9, <1>10, <1>11, <1>12, <1>13, SentMessage

\* The rest of a run leaves the fronts where they are.
LEMMA FrontStays ==
  ASSUME SpeechTypes, Buffers, OutInv, S!Step \/ S!StageFails, ~S!Publish
  PROVE  /\ \A d \in {0, 1} : Front(d)' = Front(d)
         /\ sent' = sent /\ viewer' \in {viewer, "away"}
<1>1. CASE S!Stft \/ S!Deinterleave \/ S!Infer \/ S!Interleave \/ S!Istft \/ S!NextChunk
  <2>1. pc # "publish" /\ pc' # "publish" /\ out' = out /\ sent' = sent /\ viewer' = viewer
     BY <1>1 DEF S!Stft, S!Deinterleave, S!Infer, S!Interleave, S!Istft, S!NextChunk, S!stream
  <2> QED BY <2>1 DEF Front
<1>2. CASE S!Keep
  <2>1. pc = "keep" /\ UNCHANGED <<chunk, dir, sent, viewer>> /\ pc' \in {"publish", "next"}
        /\ (pc' = "next" => out' = out)
     BY <1>2 DEF S!Keep, S!stream
  <2>2. pc' = "publish" => pos' = Begin(chunk) BY <1>2, KeepOut
  <2>3. Len(out) = Offset(chunk) + Begin(chunk) /\ dir = 0 BY <2>1 DEF OutInv
  <2>4. CASE pc' = "next" BY <2>1, <2>4 DEF Front
  <2>5. CASE pc' = "publish"
    <3>1. dir' = 0 /\ Offset(chunk') + pos' = Len(out) BY <2>1, <2>2, <2>3, <2>5
    <3> QED BY <2>1, <2>5, <3>1 DEF Front
  <2> QED BY <2>1, <2>4, <2>5
<1>3. CASE S!Save
  <2>1. out' = out BY <1>3, SaveOut
  <2>2. pc # "publish" /\ pc' # "publish" /\ sent' = sent /\ viewer' = "away"
     BY <1>3 DEF S!Save, S!CloseStream
  <2> QED BY <2>1, <2>2 DEF Front
<1>4. CASE S!StageFails
  <2>1. pc # "publish" /\ pc' # "publish" /\ out' = out /\ sent' = sent /\ viewer' = "away"
     BY <1>4 DEF S!StageFails, S!CloseStream
  <2> QED BY <2>1 DEF Front
<1> QED BY <1>1, <1>2, <1>3, <1>4 DEF S!Step

LEMMA SpeechKeeps ==
  ASSUME SpeechInv, S!Step \/ S!StageFails
  PROVE  SpeechInv'
<1> USE DEF SpeechInv
<1>1. SpeechTypes' /\ Buffers'
   BY StftKeeps, SpectraKeep, IstftKeeps, RestKeeps DEF S!Step
<1>2. OutInv'
   BY StagesOut, IstftOut, KeepOut, PublishOut, NextChunkOut, SaveOut, FailsOut DEF S!Step
<1>3. SentInv'
  <2>1. CASE S!Publish BY <2>1, PublishSent
  <2>2. CASE ~S!Publish
    <3>1. /\ \A d \in {0, 1} : Front(d)' = Front(d)
          /\ sent' = sent /\ (viewer' = viewer \/ viewer' \in {"away", "left"})
       BY <2>2, FrontStays
    <3> QED BY <3>1, SentStays
  <2> QED BY <2>1, <2>2
<1> QED BY <1>1, <1>2, <1>3

LEMMA BlankFacts ==
  ASSUME NEW size
  PROVE  DOMAIN S!Blank(size) = 0..(size - 1) /\ \A f \in DOMAIN S!Blank(size) : S!Blank(size)[f] = S!NoFrame
BY DEF S!Blank

LEMMA NothingSent ==
  ASSUME sent = S!Nothing
  PROVE  /\ sent \in [{0, 1} -> Seq(S!Frame)] /\ sent[0] = <<>> /\ sent[1] = <<>>
BY EmptySeq DEF S!Nothing

LEMMA SpeechBegins ==
  ASSUME Fresh, pc = "start"
  PROVE  SpeechInv
<1>1. Chunks(0) \in Nat \ {0} BY Reach
<1>2. Offset(0) = 0 BY Geometry DEF Offset
<1>3. 0 \in 0..(Chunks(0) - 1) BY <1>1
<1>4. Last \in Nat /\ Offset(0) + Last <= 0 BY <1>3, Ends DEF Last, Fresh
<1>5. SpeechTypes
  <2>1. \A f \in DOMAIN S!Blank(0) : S!Blank(0)[f] \in S!Frame BY BlankFacts, FrameFacts
  <2> QED BY <1>3, <2>1 DEF SpeechTypes, Fresh, Stages
<1>6. Buffers BY DEF Buffers, Fresh
<1>7. OutInv BY EmptyFollows DEF OutInv, Fresh, Stages
<1>8. SentInv
  <2>1. sent \in [{0, 1} -> Seq(S!Frame)] /\ sent[0] = <<>> /\ sent[1] = <<>> BY NothingSent DEF Fresh
  <2>2. \A d \in {0, 1} : Front(d) = 0 BY EmptyFollows DEF Front, Fresh
  <2>3. ASSUME NEW d \in {0, 1} PROVE SentAs(d, sent[d], Front(d), Attached)
    <3>1. sent[d] = <<>> /\ Front(d) = 0 /\ 0 \in 0..(0 - 0) BY <2>1, <2>2
    <3>2. SentAs(d, <<>>, 0, Attached) BY <3>1, EmptyFollows DEF SentAs
    <3> QED BY <3>1, <3>2
  <2> QED BY <2>1, <2>3, SentMeans
<1> QED BY <1>5, <1>6, <1>7, <1>8 DEF SpeechInv

LEMMA SpeechStarts ==
  ASSUME SpeechInv, Fresh, NEW hasModel \in BOOLEAN, S!Start(hasModel)
  PROVE  SpeechInv'
<1>1. /\ n' \in Lengths /\ tvm' = hasModel /\ A' = S!Blank(S!ASize) /\ B' = S!Blank(TotalFrames)
      /\ pc' = "stft" /\ UNCHANGED <<chunk, batch, chunkOut, out, pos, dir, viewer, sent>>
   BY DEF S!Start, S!stream
<1>2. /\ chunk = 0 /\ batch = 0 /\ chunkOut = <<>> /\ out = <<>> /\ pos = 0 /\ dir = 0
      /\ sent = S!Nothing /\ viewer = "away" /\ pc # "publish"
   BY DEF Fresh, S!Start
<1>3. n' \in Nat BY <1>1, PipelinesAssumption
<1>4. Chunks(n') \in Nat \ {0} /\ Offset(0) = 0 /\ Begin(0) = 0 BY <1>3, Reach, Geometry DEF Offset, Begin
<1>5. SpeechTypes'
  <2>1. (\A f \in DOMAIN A' : A'[f] \in S!Frame) /\ (\A f \in DOMAIN B' : B'[f] \in S!Frame)
     BY <1>1, BlankFacts, FrameFacts
  <2>2. DOMAIN A' = 0..(S!ASize - 1) /\ DOMAIN B' = 0..(TotalFrames - 1) BY <1>1, BlankFacts
  <2>3. chunk' \in 0..(Chunks(n') - 1) /\ n' \in Lengths \cup {0} /\ tvm' \in BOOLEAN /\ batch' \in Nat
        /\ pos' \in Nat /\ dir' \in {0, 1}
     BY <1>1, <1>2, <1>4
  <2> QED BY <1>1, <2>1, <2>2, <2>3 DEF SpeechTypes, Stages
<1>6. Buffers'
  <2>1. batch' * BatchN = 0 /\ 0 < TotalFrames BY <1>1, <1>2, SpeechFacts
  <2>2. Row(B', batch' * BatchN, Offset(chunk'), "stft") BY <2>1 DEF Row
  <2> QED BY <1>1, <2>1, <2>2 DEF Buffers, Holds
<1>7. OutInv'
  <2>1. Len(out') = 0 /\ Len(out') <= n' /\ Len(out') = Offset(chunk') + Begin(chunk')
     BY <1>1, <1>2, <1>3, <1>4, EmptyFollows
  <2>2. chunkOut' \in Seq(S!Frame) /\ Len(chunkOut') = 0 /\ Follows(chunkOut', Offset(chunk'), "clean")
        /\ out' \in Seq(S!Frame) /\ Follows(out', 0, "clean") /\ dir' = 0
     BY <1>1, <1>2, EmptyFollows
  <2> QED BY <1>1, <2>1, <2>2 DEF OutInv, ChunkDone
<1>8. SentInv'
  <2>1. \A d \in {0, 1} : Front(d)' = Front(d) BY <1>1, <1>2 DEF Front
  <2> QED BY <1>1, <2>1, SentStays DEF SpeechInv
<1> QED BY <1>5, <1>6, <1>7, <1>8 DEF SpeechInv

\* A viewer that connects was sent nothing yet.
LEMMA SpeechViewed ==
  ASSUME SpeechInv, S!ViewerConnects \/ S!ViewerReads \/ S!ViewerLeaves, UNCHANGED <<loop, speech>>
  PROVE  SpeechInv'
<1>1. UNCHANGED <<n, tvm, pc, chunk, batch, A, B, chunkOut, out, pos, dir>> BY DEF loop, speech
<1>2. SpeechTypes' /\ Buffers' /\ OutInv'
  <2>1. SpeechTypes' BY <1>1 DEF SpeechInv, SpeechTypes
  <2>2. Planar' = Planar /\ Last' = Last /\ ChunkDone' = ChunkDone BY <1>1 DEF Planar, Last, ChunkDone
  <2>3. Buffers' BY <1>1, <2>2 DEF SpeechInv, Buffers, Holds
  <2>4. OutInv' BY <1>1, <2>2 DEF SpeechInv, OutInv
  <2> QED BY <2>1, <2>3, <2>4
<1>3. \A d \in {0, 1} : Front(d)' = Front(d)
  <2>1. Last' = Last BY <1>1 DEF Last
  <2> QED BY <1>1, <2>1 DEF Front
<1>4. SentInv'
  <2>1. CASE S!ViewerConnects
    <3>1. sent' = S!Nothing BY <2>1 DEF S!ViewerConnects
    <3>2. sent' \in [{0, 1} -> Seq(S!Frame)] /\ sent'[0] = <<>> /\ sent'[1] = <<>>
       BY <3>1, EmptySeq DEF S!Nothing
    <3>3. ASSUME NEW d \in {0, 1} PROVE SentAs(d, sent'[d], Front(d)', Attached')
      <4>1. Front(d)' \in Nat /\ sent'[d] = <<>> BY <1>3, <3>2, FrontFacts DEF SpeechInv
      <4>2. 0 \in 0..(Front(d)' - 0) BY <4>1
      <4>3. SentAs(d, <<>>, Front(d)', Attached') BY <4>2, EmptyFollows DEF SentAs
      <4> QED BY <4>1, <4>3
    <3> QED BY <3>2, <3>3 DEF SentInv, SentAs, Attached
  <2>2. CASE S!ViewerReads \/ S!ViewerLeaves
    <3>1. sent' = sent /\ (viewer' = viewer \/ viewer' \in {"away", "left"})
       BY <2>2 DEF S!ViewerReads, S!ViewerLeaves
    <3> QED BY <1>3, <3>1, SentStays DEF SpeechInv
  <2> QED BY <2>1, <2>2
<1> QED BY <1>2, <1>4 DEF SpeechInv

----------------------------------------------------------------------------
(* Whose step it is. *)

Begun(p) == Runs(p) /\ pc # "start"

LEMMA Whose ==
  ASSUME [Next]_vars, NEW CONSTANT p, Begun(p)'
  PROVE  /\ Runs(p)
         /\ \/ p = "speech_enhancement" /\ (SpeechStart \/ SpeechStep \/ SpeechFails)
            \/ p = "stft_istft" /\ (TripStart \/ TripStep \/ TripFails)
            \/ p = "audio_classification" /\ (ClassifyStart \/ ClassifyStep \/ ClassifyFault)
            \/ p = "tvm_only" /\ (TvmStep \/ TvmFails)
            \/ /\ ViewerConnects \/ ViewerReads \/ ViewerLeaves
               /\ UNCHANGED <<manager, doc, loop, speech, trip, listener>>
            \/ UNCHANGED vars
<1>1. step' = "run" /\ pipeline' = p /\ pc' # "start" BY DEF Begun, Runs
<1>2. CASE Manage
   BY <1>1, <1>2 DEF Manage, Open, Artifacts, Dispatch, Rejected, Return
<1>3. CASE SpeechStart \/ SpeechStep \/ SpeechFails
  <2>1. UNCHANGED manager /\ Runs("speech_enhancement") BY <1>3 DEF SpeechStart, SpeechStep, SpeechFails
  <2> QED BY <1>1, <1>3, <2>1 DEF Runs, manager
<1>4. CASE TripStart \/ TripStep \/ TripFails
  <2>1. UNCHANGED manager /\ Runs("stft_istft") BY <1>4 DEF TripStart, TripStep, TripFails
  <2> QED BY <1>1, <1>4, <2>1 DEF Runs, manager
<1>5. CASE ClassifyStart \/ ClassifyStep \/ ClassifyFault
  <2>1. UNCHANGED <<step, pipeline>> /\ Runs("audio_classification")
     BY <1>5 DEF ClassifyStart, ClassifyStep, ClassifyFault, manager
  <2> QED BY <1>1, <1>5, <2>1 DEF Runs
<1>6. CASE TvmStep \/ TvmFails
  <2>1. UNCHANGED manager /\ Runs("tvm_only") BY <1>6 DEF TvmStep, TvmFails, TvmStage
  <2> QED BY <1>1, <1>6, <2>1 DEF Runs, manager
<1>7. CASE ViewerConnects \/ ViewerReads \/ ViewerLeaves
  <2>1. UNCHANGED <<manager, doc, loop, speech, trip, listener>>
     BY <1>7 DEF ViewerConnects, ViewerReads, ViewerLeaves
  <2> QED BY <1>1, <1>7, <2>1 DEF Runs, manager
<1>8. CASE Done \/ UNCHANGED vars
  <2>1. UNCHANGED vars BY <1>8 DEF Done
  <2>2. UNCHANGED manager BY <2>1 DEF vars
  <2> QED BY <1>1, <2>1, <2>2 DEF Runs, manager
<1> QED BY <1>2, <1>3, <1>4, <1>5, <1>6, <1>7, <1>8 DEF Next

\* The invariant of a run that has begun; before, everything is fresh.
SpeechHeld == Begun("speech_enhancement") => SpeechInv

LEMMA SpeechHolds ==
  ASSUME ManagerInv, SpeechHeld, Runs("speech_enhancement")
  PROVE  SpeechInv
<1>1. pc = "start" => Fresh BY DEF ManagerInv
<1> QED BY <1>1, SpeechBegins DEF SpeechHeld, Begun

LEMMA SpeechInductive ==
  ManagerInv /\ SpeechHeld /\ [Next]_vars => SpeechHeld'
<1> SUFFICES ASSUME ManagerInv, SpeechHeld, [Next]_vars, Begun("speech_enhancement")' PROVE SpeechInv'
  BY DEF SpeechHeld
<1> DEFINE p == "speech_enhancement"
<1>1. /\ Runs(p)
      /\ \/ SpeechStart \/ SpeechStep \/ SpeechFails
         \/ /\ ViewerConnects \/ ViewerReads \/ ViewerLeaves
            /\ UNCHANGED <<manager, doc, loop, speech, trip, listener>>
         \/ UNCHANGED vars
   BY Whose
<1>2. SpeechInv BY <1>1, SpeechHolds
<1>3. CASE SpeechStart
  <2> DEFINE m == doc.tvm \in {"message", "both"} /\ configured
  <2>1. S!Start(m) /\ pc = "start" BY <1>3 DEF SpeechStart, S!Start
  <2>2. Fresh /\ m \in BOOLEAN BY <2>1 DEF ManagerInv
  <2> QED BY <1>2, <2>1, <2>2, SpeechStarts
<1>4. CASE SpeechStep \/ SpeechFails
  <2>1. S!Step \/ S!StageFails BY <1>4 DEF SpeechStep, SpeechFails
  <2> QED BY <1>2, <2>1, SpeechKeeps
<1>5. CASE /\ ViewerConnects \/ ViewerReads \/ ViewerLeaves
           /\ UNCHANGED <<manager, doc, loop, speech, trip, listener>>
  <2>1. (S!ViewerConnects \/ S!ViewerReads \/ S!ViewerLeaves) /\ UNCHANGED <<loop, speech>>
     BY <1>5 DEF ViewerConnects, ViewerReads, ViewerLeaves
  <2> QED BY <1>2, <2>1, SpeechViewed
<1>6. CASE UNCHANGED vars
  <2>1. UNCHANGED <<n, tvm, pc, chunk, batch, A, B, chunkOut, out, pos, dir, viewer, sent>>
     BY <1>6 DEF vars, loop, speech, stream
  <2>2. Planar' = Planar /\ Last' = Last /\ ChunkDone' = ChunkDone /\ \A d \in {0, 1} : Front(d)' = Front(d)
     BY <2>1 DEF Planar, Last, ChunkDone, Front
  <2>3. SpeechTypes' BY <1>2, <2>1 DEF SpeechInv, SpeechTypes
  <2>4. Buffers' BY <1>2, <2>1, <2>2 DEF SpeechInv, Buffers, Holds
  <2>5. OutInv' BY <1>2, <2>1, <2>2 DEF SpeechInv, OutInv
  <2>6. SentInv' BY <1>2, <2>1, <2>2, SentStays DEF SpeechInv
  <2> QED BY <2>3, <2>4, <2>5, <2>6 DEF SpeechInv
<1> QED BY <1>1, <1>3, <1>4, <1>5, <1>6

LEMMA SpeechAlways == Spec => [](ManagerInv /\ SpeechHeld)
<1>1. Init => SpeechHeld BY DEF Init, SpeechHeld, Begun, Runs
<1> QED BY <1>1, StartsFresh, ManagerInductive, SpeechInductive, PTL DEF Spec

\* The enhanced audio is the input's timeline without a gap, a repetition or a
\* value of another stage or chunk, for every geometry of chunks and batches
\* and every length of the input (Timeline).
THEOREM EnhancedTimeline == Spec => []Timeline
<1>1. ManagerInv /\ SpeechHeld => Timeline
  <2> SUFFICES ASSUME ManagerInv, SpeechHeld, Runs("speech_enhancement") PROVE S!Timeline
     BY DEF Timeline
  <2>1. SpeechInv BY SpeechHolds
  <2>2. Follows(out, 0, "clean") /\ (pc = "saved" => Len(out) = n) /\ out \in Seq(S!Frame)
     BY <2>1 DEF SpeechInv, OutInv
  <2>3. ASSUME NEW s \in DOMAIN out PROVE out[s] = [at |-> s - 1, by |-> "clean"]
    <3>1. out[s] = Piece(0 + s - 1, "clean") BY <2>2 DEF Follows
    <3>2. s \in Int BY <2>2, LenProperties
    <3>3. 0 + s - 1 = s - 1 BY <3>2
    <3>4. out[s] = Piece(s - 1, "clean") BY <3>1, <3>3
    <3> QED BY <3>4 DEF Piece
  <2> QED BY <2>2, <2>3 DEF S!Timeline
<1> QED BY <1>1, SpeechAlways, PTL

\* Part of a sequence that follows on.
LEMMA Within ==
  ASSUME NEW stage, NEW part \in Seq(S!Frame), NEW all \in Seq(S!Frame), NEW a \in Nat,
         Follows(part, a, stage), Follows(all, 0, stage), a + Len(part) <= Len(all)
  PROVE  S!PartOf(part, all)
<1>1. Len(part) \in Nat /\ Len(all) \in Nat BY LenProperties
<1> DEFINE e == a + Len(part)
           cut == SubSeq(all, a + 1, e)
<1>2. e \in Nat /\ a <= e /\ e <= Len(all) /\ 0 \in Nat /\ 0 + a = a /\ e - a = Len(part) BY <1>1
<1>3. cut \in Seq(S!Frame) /\ Len(cut) = e - a /\ Follows(cut, 0 + a, stage)
  <2> HIDE DEF e
  <2> QED BY <1>2, Cut
<1>4. DOMAIN cut = 1..Len(cut) /\ DOMAIN part = 1..Len(part) BY <1>3, LenProperties
<1> HIDE DEF cut, e
<1>5. \A i \in 1..Len(cut) : cut[i] = part[i] BY <1>2, <1>3, <1>4 DEF Follows
<1>6. cut = part BY <1>2, <1>3, <1>5, SeqEqual
<1>7. a \in 0..(Len(all) - Len(part)) BY <1>1, <1>2 DEF e
<1> QED BY <1>6, <1>7 DEF S!PartOf, cut, e

LEMMA SpeechHeard ==
  ASSUME SpeechInv
  PROVE  S!HeardInOrder
<1> USE DEF SpeechInv
<1> DEFINE input == [s \in 1..n |-> Piece(s - 1, "pcm")]
<1>1. n \in Nat BY OffsetFacts
<1>2. input \in Seq(S!Frame) /\ Len(input) = n /\ Follows(input, 0, "pcm")
  <2>1. \A s \in 1..n : Piece(s - 1, "pcm") \in S!Frame BY <1>1, FrameFacts DEF Kinds
  <2>2. \A s \in 1..n : 0 + s - 1 = s - 1 BY <1>1
  <2>3. input \in [1..n -> S!Frame] BY <2>1
  <2>4. DOMAIN input = 1..n /\ \A s \in 1..n : input[s] = Piece(s - 1, "pcm") OBVIOUS
  <2> HIDE DEF input
  <2>5. input \in Seq(S!Frame) /\ Len(input) = n BY <1>1, <2>3
  <2>6. Follows(input, 0, "pcm") BY <2>2, <2>4 DEF Follows
  <2> QED BY <2>5, <2>6
<1>3. out \in Seq(S!Frame) /\ Follows(out, 0, "clean") BY DEF OutInv
<1>4. sent \in [{0, 1} -> Seq(S!Frame)] BY SentMeans
<1> HIDE DEF input
<1>5. ASSUME NEW d \in {0, 1}, NEW all \in Seq(S!Frame), Follows(all, 0, Kind(d)), Front(d) <= Len(all)
      PROVE  S!PartOf(sent[d], all)
  <2>1. SentAs(d, sent[d], Front(d), Attached) BY SentMeans
  <2>2. PICK a \in 0..(Front(d) - Len(sent[d])) : Follows(sent[d], a, Kind(d)) BY <2>1 DEF SentAs
  <2>3. sent[d] \in Seq(S!Frame) /\ Len(sent[d]) \in Nat /\ Len(all) \in Nat BY <1>4, LenProperties
  <2>4. Front(d) \in Nat BY FrontFacts
  <2>5. a \in Nat /\ a + Len(sent[d]) <= Len(all) BY <1>5, <2>3, <2>4
  <2> QED BY <1>5, <2>2, <2>3, <2>5, Within
<1>6. S!PartOf(sent[1], out)
  <2>1. Follows(out, 0, Kind(1)) /\ Front(1) <= Len(out) BY <1>3, FrontFacts DEF Kind
  <2> QED BY <1>3, <1>5, <2>1
<1>7. S!PartOf(sent[0], input)
  <2>1. Follows(input, 0, Kind(0)) BY <1>2 DEF Kind
  <2>2. Front(0) <= Len(input) BY <1>2, FrontFacts
  <2> QED BY <1>2, <1>5, <2>1, <2>2
<1>8. input = [s \in 1..n |-> [at |-> s - 1, by |-> "pcm"]] BY DEF input, Piece
<1> QED BY <1>6, <1>7, <1>8 DEF S!HeardInOrder

----------------------------------------------------------------------------
(* The round trip: its arithmetic. *)

LEMMA Remainder ==
  ASSUME NEW a \in Nat, NEW q \in Nat, NEW d \in Nat \ {0}, NEW r \in 0..(d - 1), a = q * d + r
  PROVE  a % d = r
<1> DEFINE p == a \div d
           s == a % d
<1>1. p \in Nat /\ s \in 0..(d - 1) /\ a = p * d + s BY DivMod
<1> HIDE DEF p, s
<1>2. p * d \in Nat /\ q * d \in Nat BY <1>1, Times
<1>3. CASE p = q BY <1>1, <1>2, <1>3 DEF s
<1>4. CASE p < q
  <2>1. p * d + d <= q * d BY <1>1, <1>4, Monotone
  <2> QED BY <1>1, <1>2, <2>1
<1>5. CASE q < p
  <2>1. q * d + d <= p * d BY <1>1, <1>5, Monotone
  <2> QED BY <1>1, <1>2, <2>1
<1> QED BY <1>1, <1>3, <1>4, <1>5

\* The frames of a batch, of which the last has the remainder: none when the
\* batches divide the chunk.
LEMMA BatchWithRest ==
  ASSUME NEW total \in Nat \ {0}, NEW size \in Nat \ {0}, NEW b \in Nat, b * size < total,
         NEW c, c = IF b < S!Batches(total, size) - 1 THEN size ELSE total % size
  PROVE  /\ b * size \in Nat /\ c \in 0..size /\ b * size + c <= total
         /\ b + 1 < S!Batches(total, size) =>
              /\ (b + 1) * size < total
              /\ b * size + c = (b + 1) * size
         /\ ~(b + 1 < S!Batches(total, size)) /\ total % size # 0 => b * size + c = total
<1> DEFINE p == b * size
           k == S!Batches(total, size)
<1>1. p \in Nat /\ (b + 1) * size = p + size BY Times
<1>2. k \in Nat /\ (b + 1 < k <=> (b + 1) * size < total)
  <2>1. b + 1 \in Nat /\ total \in Nat OBVIOUS
  <2> QED BY <2>1, BatchesOf
<1>3. p < total OBVIOUS
<1> HIDE DEF p, k
<1>4. CASE b + 1 < k
  <2>1. c = size /\ p + size < total BY <1>1, <1>2, <1>4 DEF k
  <2> QED BY <1>1, <1>2, <1>4, <2>1 DEF p, k
<1>5. CASE ~(b + 1 < k)
  <2>1. c = total % size /\ total <= p + size BY <1>1, <1>2, <1>5 DEF k
  <2>2. CASE total = p + size
    <3>1. total = (b + 1) * size + 0 /\ b + 1 \in Nat /\ 0 \in 0..(size - 1) BY <1>1, <2>2
    <3>2. total % size = 0
      <4>1. total \in Nat OBVIOUS
      <4> QED BY <3>1, <4>1, Remainder
    <3> QED BY <1>1, <1>2, <1>3, <1>5, <2>1, <3>2 DEF p, k
  <2>3. CASE total # p + size
    <3>1. total = b * size + (total - p) /\ total - p \in 0..(size - 1) BY <1>1, <1>3, <2>1, <2>3 DEF p
    <3>2. total % size = total - p
      <4>1. total \in Nat OBVIOUS
      <4> QED BY <3>1, <4>1, Remainder
    <3> QED BY <1>1, <1>2, <1>3, <1>5, <2>1, <3>1, <3>2 DEF p, k
  <2> QED BY <2>2, <2>3
<1> QED BY <1>4, <1>5

\* The operators of the two pipelines are the same.
LEMMA TripSame ==
  /\ R!Frame = S!Frame /\ R!NoFrame = S!NoFrame /\ R!Nothing = S!Nothing
  /\ \A x, y : R!Smaller(x, y) = S!Smaller(x, y) /\ R!Batches(x, y) = S!Batches(x, y)
  /\ \A size : R!Blank(size) = S!Blank(size)
BY DEF R!Frame, S!Frame, R!NoFrame, S!NoFrame, R!Nothing, S!Nothing, R!Smaller, S!Smaller,
       R!Batches, S!Batches, R!Blank, S!Blank

LEMMA TripMade ==
  ASSUME NEW target, NEW to, NEW from, NEW buffer, NEW count, NEW takes, NEW stage
  PROVE  R!Made(target, to, buffer, from, count, takes, stage)
           = S!Made(target, to, buffer, from, count, takes, stage)
BY DEF R!Made, S!Made, R!NoFrame, S!NoFrame

LEMMA TripSamples ==
  ASSUME NEW buffer, NEW count
  PROVE  R!Samples(buffer, count, HopSize) = S!Samples(buffer, count, HopSize)
BY DEF R!Samples, S!Samples, R!NoFrame, S!NoFrame

LEMMA TripSends ==
  ASSUME NEW d, NEW pcm
  PROVE  R!SendFrame(d, pcm) <=> S!SendFrame(d, pcm)
BY DEF R!SendFrame, S!SendFrame

\* The parameters of a run.
LEMMA LayoutFacts ==
  ASSUME TripTypes
  PROVE  /\ n \in Nat /\ Total \in Nat \ {0} /\ layout.stft \in Nat \ {0} /\ layout.istft \in Nat \ {0}
         /\ R!FileFrames \in Nat /\ n <= R!FileFrames * HopSize /\ R!FileFrames * HopSize < n + HopSize
         /\ R!FileFrames * HopSize \in Nat
         /\ R!FileChunks \in Nat
         /\ \A k \in Nat : k < R!FileChunks <=> k * Total < R!FileFrames
<1>1. n \in Nat BY PipelinesAssumption DEF TripTypes
<1>2. Total \in Nat \ {0} /\ layout.stft \in Nat \ {0} /\ layout.istft \in Nat \ {0}
  <2>1. R!NoLayout \in [total : Nat \ {0}, stft : Nat \ {0}, istft : Nat \ {0}] BY DEF R!NoLayout
  <2>2. layout \in [total : Nat \ {0}, stft : Nat \ {0}, istft : Nat \ {0}]
     BY <2>1, PipelinesAssumption DEF TripTypes
  <2> QED BY <2>2 DEF Total
<1>3. /\ R!FileFrames \in Nat /\ R!FileFrames * HopSize \in Nat
      /\ n <= R!FileFrames * HopSize /\ R!FileFrames * HopSize < n + HopSize
  <2> DEFINE a == n + HopSize - 1
             q == a \div HopSize
  <2>1. R!FileFrames = q BY DEF R!FileFrames, R!Batches
  <2>2. a \in Nat /\ HopSize \in Nat \ {0} BY <1>1, SpeechFacts
  <2>3. q \in Nat /\ q * HopSize <= a /\ a < q * HopSize + HopSize BY <2>2, Division
  <2>4. q * HopSize \in Nat BY <2>2, <2>3, Times
  <2> HIDE DEF q
  <2>5. q * HopSize < n + HopSize /\ n <= q * HopSize BY <1>1, <2>2, <2>3, <2>4
  <2> QED BY <2>1, <2>3, <2>4, <2>5
<1>4. R!FileChunks = S!Batches(R!FileFrames, Total) BY TripSame DEF R!FileChunks, Total
<1> QED BY <1>1, <1>2, <1>3, <1>4, BatchesOf

\* The real frames of a chunk.
LEMMA RealFacts ==
  ASSUME TripTypes, chunk * Total < R!FileFrames
  PROVE  /\ R!RealFrames \in 1..Total /\ chunk * Total \in Nat /\ (chunk + 1) * Total = chunk * Total + Total
         /\ \A f \in 0..(Total - 1) : f < R!RealFrames <=> chunk * Total + f < R!FileFrames
         /\ chunk + 1 < R!FileChunks => R!RealFrames = Total
         /\ ~(chunk + 1 < R!FileChunks) =>
              chunk * Total + R!RealFrames = R!FileFrames /\ chunk + 1 = R!FileChunks
<1> DEFINE b == chunk * Total
<1>1. /\ Total \in Nat \ {0} /\ R!FileFrames \in Nat /\ chunk \in Nat /\ R!FileChunks \in Nat
      /\ \A k \in Nat : k < R!FileChunks <=> k * Total < R!FileFrames
   BY LayoutFacts DEF TripTypes
<1>2. b \in Nat /\ (chunk + 1) * Total = b + Total BY <1>1, Times
<1>3. R!RealFrames = IF Total < R!FileFrames - b THEN Total ELSE R!FileFrames - b
   BY DEF R!RealFrames, R!Smaller, Total
<1>4. chunk + 1 \in Nat /\ chunk < R!FileChunks BY <1>1
<1>5. chunk + 1 < R!FileChunks <=> b + Total < R!FileFrames BY <1>1, <1>2, <1>4
<1>6. b < R!FileFrames OBVIOUS
<1> HIDE DEF b
<1>7. /\ R!RealFrames \in 1..Total
      /\ \A f \in 0..(Total - 1) : f < R!RealFrames <=> b + f < R!FileFrames
   BY <1>1, <1>2, <1>3, <1>6
<1>8. chunk + 1 < R!FileChunks => R!RealFrames = Total BY <1>1, <1>2, <1>3, <1>5
<1>9. ~(chunk + 1 < R!FileChunks) => b + R!RealFrames = R!FileFrames /\ chunk + 1 = R!FileChunks
   BY <1>1, <1>2, <1>3, <1>4, <1>5, <1>6
<1> QED BY <1>2, <1>7, <1>8, <1>9 DEF b

----------------------------------------------------------------------------
(* The round trip: its buffers. *)

LEMMA DmaSet ==
  ASSUME DOMAIN dma = DmaNames, NEW b \in DmaNames, NEW x
  PROVE  /\ DOMAIN [dma EXCEPT ![b] = x] = DmaNames /\ [dma EXCEPT ![b] = x][b] = x
         /\ \A c \in DmaNames \ {b} : [dma EXCEPT ![b] = x][c] = dma[c]
OBVIOUS

LEMMA DmaNamed ==
  /\ dma.audio = dma["audio"] /\ dma.spectrum = dma["spectrum"] /\ dma.planar = dma["planar"]
  /\ dma.mixin = dma["mixin"] /\ dma.mixed = dma["mixed"] /\ dma.clean = dma["clean"]
OBVIOUS

LEMMA Sizes6 ==
  ASSUME NEW l
  PROVE  /\ R!SizeOf("audio", l) = l.stft /\ R!SizeOf("clean", l) = l.istft
         /\ \A b \in DmaNames \ {"audio", "clean"} : R!SizeOf(b, l) = l.total
BY DEF R!SizeOf, DmaNames

CoversFrom(buffer, from, count) == \A k \in 0..(count - 1) : from + k \in DOMAIN buffer

LEMMA MadeTyped ==
  ASSUME NEW target, NEW to \in Nat, NEW buffer, NEW from \in Nat, NEW count \in Nat,
         NEW takes \in Kinds, NEW stage \in Kinds,
         Typed(target), Typed(buffer), CoversFrom(buffer, from, count)
  PROVE  /\ DOMAIN S!Made(target, to, buffer, from, count, takes, stage) = DOMAIN target
         /\ Typed(S!Made(target, to, buffer, from, count, takes, stage))
<1>1. DOMAIN S!Made(target, to, buffer, from, count, takes, stage) = DOMAIN target BY MadeAt
<1>2. ASSUME NEW f \in DOMAIN target, to <= f, f < to + count
      PROVE  buffer[from + f - to] \in S!Frame
  <2>1. f - to \in 0..(count - 1) /\ from + (f - to) = from + f - to BY <1>2 DEF Typed
  <2>2. from + f - to \in DOMAIN buffer BY <2>1 DEF CoversFrom
  <2> QED BY <2>2 DEF Typed
<1>3. \A f \in DOMAIN target : target[f] \in S!Frame BY DEF Typed
<1>4. \A f \in DOMAIN target : S!Made(target, to, buffer, from, count, takes, stage)[f] \in S!Frame
   BY <1>2, <1>3, MadeType
<1> QED BY <1>1, <1>4 DEF Typed

LEMMA TurnedMark ==
  ASSUME NEW base \in Nat, NEW real, NEW f \in Nat, NEW takes \in Kinds \ {"nothing"}, NEW stage \in Kinds
  PROVE  Turned(Mark(base, real, f, takes), takes, stage) = Mark(base, real, f, stage)
<1>1. (base + f) * HopSize \in Nat BY SpeechFacts, Times
<1> QED BY <1>1, TurnedFacts DEF Mark

LEMMA MadeMarks ==
  ASSUME NEW target, NEW to \in Nat, NEW buffer, NEW from \in Nat, NEW count \in Nat, NEW base \in Nat,
         NEW real, NEW takes \in Kinds \ {"nothing"}, NEW stage \in Kinds,
         Covers(target, to + count), Marks(target, 0, 0, to, base, real, stage),
         Marks(buffer, from, to, count, base, real, takes)
  PROVE  Marks(S!Made(target, to, buffer, from, count, takes, stage), 0, 0, to + count, base, real, stage)
<1> DEFINE M == S!Made(target, to, buffer, from, count, takes, stage)
<1>1. SUFFICES ASSUME NEW f \in 0..(to + count - 1) PROVE M[0 + f] = Mark(base, real, 0 + f, stage)
   BY DEF Marks
<1>2. f \in DOMAIN target /\ f \in Nat /\ 0 + f = f BY DEF Covers
<1>3. M[f] = IF to <= f /\ f < to + count THEN Turned(buffer[from + f - to], takes, stage) ELSE target[f]
   BY <1>2, MadeAt
<1> HIDE DEF M
<1>4. CASE f < to
  <2>1. M[f] = target[0 + f] /\ f \in 0..(to - 1) BY <1>2, <1>3, <1>4
  <2> QED BY <1>2, <2>1 DEF Marks
<1>5. CASE to <= f
  <2>1. f - to \in 0..(count - 1) /\ from + f - to = from + (f - to) /\ to + (f - to) = f BY <1>2, <1>5
  <2>2. buffer[from + (f - to)] = Mark(base, real, to + (f - to), takes) BY <2>1 DEF Marks
  <2>3. M[f] = Turned(Mark(base, real, f, takes), takes, stage) BY <1>2, <1>3, <1>5, <2>1, <2>2
  <2> QED BY <1>2, <2>3, TurnedMark
<1> QED BY <1>2, <1>4, <1>5

\* The batch of a round trip.
LEMMA TripBatch ==
  ASSUME TripTypes, NEW size \in Nat \ {0}, batch * size < Total
  PROVE  /\ batch * size \in Nat /\ R!FramesOf(size) \in 0..size /\ batch * size + R!FramesOf(size) <= Total
         /\ batch + 1 < R!Batches(layout.total, size) =>
              /\ (batch + 1) * size < Total
              /\ batch * size + R!FramesOf(size) = (batch + 1) * size
         /\ ~(batch + 1 < R!Batches(layout.total, size)) /\ Total % size # 0 =>
              batch * size + R!FramesOf(size) = Total
<1>1. R!FramesOf(size) = IF batch < S!Batches(Total, size) - 1 THEN size ELSE Total % size
   BY TripSame DEF R!FramesOf, Total
<1>2. Total \in Nat \ {0} /\ batch \in Nat BY LayoutFacts DEF TripTypes
<1>3. R!Batches(layout.total, size) = S!Batches(Total, size) BY TripSame DEF Total
<1> QED BY <1>1, <1>2, <1>3, BatchWithRest

LEMMA SameChunk ==
  ASSUME UNCHANGED <<layout, n, chunk>>
  PROVE  /\ R!RealFrames' = R!RealFrames /\ R!FileFrames' = R!FileFrames /\ R!FileChunks' = R!FileChunks
         /\ (R!Uneven' <=> R!Uneven) /\ Total' = Total
BY DEF R!RealFrames, R!FileFrames, R!FileChunks, R!Uneven, Total

LEMMA TripTypesStay ==
  ASSUME TripTypes, pc \in TripStages, pc' \in TripStages, UNCHANGED <<layout, n, chunk>>,
         batch' \in Nat, left' \in Nat, taken' \in Nat,
         DOMAIN dma' = DmaNames, \A b \in DmaNames : Typed(dma'[b]) /\ DOMAIN dma'[b] = DOMAIN dma[b],
         pc' \in {"fill", "stft"} => batch' * layout.stft < Total,
         pc' \in {"istft", "send"} => batch' * layout.istft < Total,
         pc' \notin {"fill", "stft", "istft", "send"} => batch' = 0
  PROVE  TripTypes'
<1>1. Total' = Total /\ R!FileFrames' = R!FileFrames BY SameChunk
<1>2. \A b \in DmaNames : DOMAIN dma'[b] = 0..(R!SizeOf(b, layout') - 1) BY DEF TripTypes
<1>3. chunk' * Total' < R!FileFrames' BY <1>1 DEF TripTypes
<1>4. layout' \in Layouts \cup {R!NoLayout} /\ n' \in Lengths \cup {0} /\ chunk' \in Nat BY DEF TripTypes
<1> QED BY <1>1, <1>2, <1>3, <1>4 DEF TripTypes

\* What the stages find in a run that is in a chunk.
LEMMA TripStage ==
  ASSUME TripTypes, pc \in TripStages
  PROVE  /\ DOMAIN dma = DmaNames /\ \A b \in DmaNames : Typed(dma[b])
         /\ DOMAIN dma["audio"] = 0..(layout.stft - 1) /\ DOMAIN dma["clean"] = 0..(layout.istft - 1)
         /\ \A b \in DmaNames \ {"audio", "clean"} : DOMAIN dma[b] = 0..(Total - 1)
         /\ chunk * Total < R!FileFrames /\ chunk * Total \in Nat
         /\ batch \in Nat /\ left \in Nat /\ taken \in Nat
<1>1. \A b \in DmaNames : DOMAIN dma[b] = 0..(R!SizeOf(b, layout) - 1) BY DEF TripTypes
<1>2. DOMAIN dma["audio"] = 0..(layout.stft - 1) /\ DOMAIN dma["clean"] = 0..(layout.istft - 1)
   BY <1>1, Sizes6 DEF DmaNames
<1>3. \A b \in DmaNames \ {"audio", "clean"} : DOMAIN dma[b] = 0..(Total - 1) BY <1>1, Sizes6 DEF Total
<1>4. chunk * Total < R!FileFrames /\ DOMAIN dma = DmaNames /\ batch \in Nat /\ left \in Nat /\ taken \in Nat
      /\ \A b \in DmaNames : Typed(dma[b])
   BY DEF TripTypes
<1>5. chunk * Total \in Nat BY <1>4, RealFacts
<1> QED BY <1>2, <1>3, <1>4, <1>5

\* One buffer is written.
LEMMA DmaWritten ==
  ASSUME TripTypes, pc \in TripStages, NEW CONSTANT c \in DmaNames, NEW x, Typed(x), DOMAIN x = DOMAIN dma[c],
         dma' = [dma EXCEPT ![c] = x]
  PROVE  /\ DOMAIN dma' = DmaNames /\ \A b \in DmaNames : Typed(dma'[b]) /\ DOMAIN dma'[b] = DOMAIN dma[b]
         /\ dma'[c] = x /\ \A b \in DmaNames \ {c} : dma'[b] = dma[b]
<1>1. DOMAIN dma = DmaNames /\ \A b \in DmaNames : Typed(dma[b]) BY TripStage
<1>2. DOMAIN dma' = DmaNames /\ dma'[c] = x /\ \A b \in DmaNames \ {c} : dma'[b] = dma[b] BY <1>1, DmaSet
<1>3. ASSUME NEW b \in DmaNames PROVE Typed(dma'[b]) /\ DOMAIN dma'[b] = DOMAIN dma[b]
  <2>1. CASE b = c BY <1>2, <2>1
  <2>2. CASE b # c BY <1>1, <1>2, <2>2
  <2> QED BY <2>1, <2>2
<1> QED BY <1>2, <1>3

LEMMA FilledFacts ==
  ASSUME TripTypes, pc = "fill"
  PROVE  /\ DOMAIN R!Filled = DOMAIN dma["audio"] /\ Typed(R!Filled)
         /\ Marks(R!Filled, 0, batch * layout.stft, R!FramesOf(layout.stft), chunk * Total, R!RealFrames, "pcm")
<1> DEFINE b == chunk * Total
           p == batch * layout.stft
           c == R!FramesOf(layout.stft)
<1>1. /\ DOMAIN dma["audio"] = 0..(layout.stft - 1) /\ b < R!FileFrames /\ b \in Nat
      /\ layout.stft \in Nat \ {0} /\ p < Total /\ R!FileFrames \in Nat /\ Total \in Nat
   BY TripStage, LayoutFacts DEF TripTypes, TripStages
<1>2. p \in Nat /\ c \in 0..layout.stft /\ p + c <= Total BY <1>1, TripBatch
<1>3. \A f \in 0..(Total - 1) : f < R!RealFrames <=> b + f < R!FileFrames BY <1>1, RealFacts
<1>4. DOMAIN R!Filled = DOMAIN dma["audio"] BY DmaNamed DEF R!Filled
<1>5. \A f \in DOMAIN dma["audio"] :
        R!Filled[f] = IF f < c /\ b + p + f < R!FileFrames THEN Piece((b + p + f) * HopSize, "pcm") ELSE S!NoFrame
   BY DmaNamed DEF R!Filled, Piece, Total, R!NoFrame, S!NoFrame
<1> HIDE DEF b, p, c
<1>6. Typed(R!Filled)
  <2> SUFFICES ASSUME NEW f \in DOMAIN dma["audio"] PROVE f \in Int /\ R!Filled[f] \in S!Frame
     BY <1>4 DEF Typed
  <2>1. f \in Nat BY <1>1
  <2>2. (b + p + f) * HopSize \in Nat
    <3>1. b + p + f \in Nat BY <1>1, <1>2, <2>1
    <3> QED BY <3>1, SpeechFacts, Times
  <2>3. Piece((b + p + f) * HopSize, "pcm") \in S!Frame BY <2>2, FrameFacts DEF Kinds
  <2> QED BY <1>5, <2>1, <2>3, FrameFacts
<1>7. Marks(R!Filled, 0, p, c, b, R!RealFrames, "pcm")
  <2> SUFFICES ASSUME NEW k \in 0..(c - 1)
               PROVE  R!Filled[0 + k] = Mark(b, R!RealFrames, p + k, "pcm")
     BY DEF Marks
  <2>1. k \in Nat /\ 0 + k = k /\ k \in 0..(layout.stft - 1) /\ k < c /\ p + k \in 0..(Total - 1) BY <1>1, <1>2
  <2>2. R!Filled[k] = IF b + p + k < R!FileFrames THEN Piece((b + p + k) * HopSize, "pcm") ELSE S!NoFrame
     BY <1>1, <1>5, <2>1
  <2>3. b + (p + k) = b + p + k BY <1>1, <1>2, <2>1
  <2>4. p + k < R!RealFrames <=> b + p + k < R!FileFrames BY <1>3, <2>1, <2>3
  <2> QED BY <2>1, <2>2, <2>3, <2>4 DEF Mark
<1> QED BY <1>4, <1>6, <1>7 DEF b, p, c

LEMMA FillKeeps ==
  ASSUME TripTypes, TripBuffers, R!Fill
  PROVE  TripTypes' /\ TripBuffers'
<1>1. /\ pc = "fill" /\ dma' = [dma EXCEPT !["audio"] = R!Filled] /\ pc' = "stft"
      /\ UNCHANGED <<layout, n, chunk, batch, left, taken, out>>
   BY DEF R!Fill
<1>2. pc \in TripStages /\ pc' \in TripStages BY <1>1 DEF TripStages
<1>3. /\ DOMAIN R!Filled = DOMAIN dma["audio"] /\ Typed(R!Filled)
      /\ Marks(R!Filled, 0, batch * layout.stft, R!FramesOf(layout.stft), chunk * Total, R!RealFrames, "pcm")
   BY <1>1, FilledFacts
<1>4. /\ DOMAIN dma' = DmaNames /\ \A b \in DmaNames : Typed(dma'[b]) /\ DOMAIN dma'[b] = DOMAIN dma[b]
      /\ dma'["audio"] = R!Filled /\ \A b \in DmaNames \ {"audio"} : dma'[b] = dma[b]
  <2>1. "audio" \in DmaNames BY DEF DmaNames
  <2> QED BY <1>1, <1>2, <1>3, <2>1, DmaWritten
<1>5. batch \in Nat /\ left \in Nat /\ taken \in Nat /\ batch * layout.stft < Total BY <1>1 DEF TripTypes
<1>6. TripTypes' BY <1>1, <1>2, <1>4, <1>5, TripTypesStay
<1>7. R!RealFrames' = R!RealFrames /\ (R!Uneven' <=> R!Uneven) /\ Total' = Total BY <1>1, SameChunk
<1>8. R!FramesOf(layout.stft)' = R!FramesOf(layout.stft) BY <1>1 DEF R!FramesOf
<1>9. dma'.spectrum = dma.spectrum /\ dma'.audio = R!Filled
  <2>1. dma'["spectrum"] = dma["spectrum"] /\ dma'["audio"] = R!Filled BY <1>4 DEF DmaNames
  <2> QED BY <2>1
<1>10. R!Uneven => Marked(dma.spectrum, batch * layout.stft, "stft") BY <1>1 DEF TripBuffers
<1>11. R!Uneven => Marked(dma.spectrum, batch * layout.stft, "stft")' BY <1>1, <1>7, <1>9, <1>10 DEF Marked
<1>12. Marks(dma'.audio, 0, batch' * layout'.stft, R!FramesOf(layout.stft)', chunk' * Total', R!RealFrames', "pcm")
   BY <1>1, <1>3, <1>7, <1>8, <1>9
<1>13. TripBuffers' BY <1>1, <1>7, <1>11, <1>12 DEF TripBuffers
<1> QED BY <1>6, <1>13

LEMMA TripStftKeeps ==
  ASSUME TripTypes, TripBuffers, R!Stft
  PROVE  TripTypes' /\ TripBuffers'
<1> DEFINE b == chunk * Total
           p == batch * layout.stft
           c == R!FramesOf(layout.stft)
           M == S!Made(dma["spectrum"], p, dma["audio"], 0, c, "pcm", "stft")
<1>1. /\ pc = "stft" /\ dma' = [dma EXCEPT !["spectrum"] = M]
      /\ UNCHANGED <<layout, n, chunk, left, taken>>
      /\ \/ batch + 1 < R!Batches(layout.total, layout.stft) /\ batch' = batch + 1 /\ pc' = "fill"
         \/ ~(batch + 1 < R!Batches(layout.total, layout.stft)) /\ batch' = 0 /\ pc' = "deinterleave"
   BY TripMade, DmaNamed DEF R!Stft, R!Onward
<1>2. pc \in TripStages /\ pc' \in TripStages BY <1>1 DEF TripStages
<1>3. /\ \A x \in DmaNames : Typed(dma[x])
      /\ DOMAIN dma["audio"] = 0..(layout.stft - 1) /\ DOMAIN dma["spectrum"] = 0..(Total - 1)
      /\ b \in Nat /\ batch \in Nat /\ left \in Nat /\ taken \in Nat
   BY <1>2, TripStage DEF DmaNames
<1>4. Total \in Nat \ {0} /\ layout.stft \in Nat \ {0} BY LayoutFacts
<1>5. p < Total BY <1>1 DEF TripTypes
<1>6. /\ p \in Nat /\ c \in 0..layout.stft /\ p + c <= Total
      /\ batch + 1 < R!Batches(layout.total, layout.stft) =>
           /\ (batch + 1) * layout.stft < Total
           /\ p + c = (batch + 1) * layout.stft
      /\ ~(batch + 1 < R!Batches(layout.total, layout.stft)) /\ R!Uneven => p + c = Total
   BY <1>4, <1>5, TripBatch DEF R!Uneven, Total
<1> HIDE DEF b, p, c
<1>7. DOMAIN M = DOMAIN dma["spectrum"] /\ Typed(M)
  <2>1. CoversFrom(dma["audio"], 0, c) BY <1>3, <1>4, <1>6 DEF CoversFrom
  <2>2. "pcm" \in Kinds /\ "stft" \in Kinds /\ c \in Nat /\ 0 \in Nat BY <1>6 DEF Kinds
  <2>3. Typed(dma["spectrum"]) /\ Typed(dma["audio"]) BY <1>3 DEF DmaNames
  <2> QED BY <1>6, <2>1, <2>2, <2>3, MadeTyped
<1>8. R!Uneven => Marks(M, 0, 0, p + c, b, R!RealFrames, "stft")
  <2> SUFFICES ASSUME R!Uneven PROVE Marks(M, 0, 0, p + c, b, R!RealFrames, "stft") OBVIOUS
  <2>1. /\ Marks(dma["spectrum"], 0, 0, p, b, R!RealFrames, "stft")
        /\ Marks(dma["audio"], 0, p, c, b, R!RealFrames, "pcm")
     BY <1>1, DmaNamed DEF TripBuffers, Marked, b, p, c
  <2>2. Covers(dma["spectrum"], p + c) BY <1>3, <1>4, <1>6 DEF Covers
  <2>3. "pcm" \in Kinds \ {"nothing"} /\ "stft" \in Kinds /\ c \in Nat /\ 0 \in Nat BY <1>6 DEF Kinds
  <2> QED BY <1>3, <1>6, <2>1, <2>2, <2>3, MadeMarks
<1> HIDE DEF M
<1>9. /\ DOMAIN dma' = DmaNames /\ \A x \in DmaNames : Typed(dma'[x]) /\ DOMAIN dma'[x] = DOMAIN dma[x]
      /\ dma'["spectrum"] = M
  <2>1. "spectrum" \in DmaNames BY DEF DmaNames
  <2> QED BY <1>1, <1>2, <1>7, <2>1, DmaWritten
<1>10. R!RealFrames' = R!RealFrames /\ (R!Uneven' <=> R!Uneven) /\ Total' = Total BY <1>1, SameChunk
<1>11. dma'.spectrum = M BY <1>9
<1>12. CASE batch + 1 < R!Batches(layout.total, layout.stft)
  <2>1. batch' = batch + 1 /\ pc' = "fill" BY <1>1, <1>12
  <2>2. batch' * layout.stft = p + c /\ batch' * layout.stft < Total /\ batch' \in Nat BY <1>3, <1>6, <1>12, <2>1
  <2>3. TripTypes' BY <1>1, <1>2, <1>3, <1>9, <2>1, <2>2, TripTypesStay
  <2>4. R!Uneven => Marked(dma.spectrum, batch * layout.stft, "stft")'
     BY <1>1, <1>8, <1>10, <1>11, <2>2 DEF Marked, b
  <2>5. TripBuffers' BY <1>10, <2>1, <2>4 DEF TripBuffers
  <2> QED BY <2>3, <2>5
<1>13. CASE ~(batch + 1 < R!Batches(layout.total, layout.stft))
  <2>1. batch' = 0 /\ pc' = "deinterleave" BY <1>1, <1>13
  <2>2. TripTypes' BY <1>1, <1>2, <1>3, <1>9, <2>1, TripTypesStay
  <2>3. R!Uneven => Marked(dma.spectrum, Total, "stft")'
     BY <1>1, <1>6, <1>8, <1>10, <1>11, <1>13 DEF Marked, b
  <2>4. TripBuffers' BY <1>10, <2>1, <2>3 DEF TripBuffers
  <2> QED BY <2>2, <2>4
<1> QED BY <1>12, <1>13

\* A buffer for all frames of a chunk, and a stage over it.
Full(buffer) == Typed(buffer) /\ DOMAIN buffer = 0..(Total - 1)

LEMMA WholeChunk ==
  ASSUME TripTypes, pc \in TripStages, NEW target, NEW buffer,
         Full(target), Full(buffer),
         NEW takes \in Kinds \ {"nothing"}, NEW stage \in Kinds
  PROVE  /\ DOMAIN S!Made(target, 0, buffer, 0, Total, takes, stage) = DOMAIN target
         /\ Typed(S!Made(target, 0, buffer, 0, Total, takes, stage))
         /\ Marked(buffer, Total, takes) => Marked(S!Made(target, 0, buffer, 0, Total, takes, stage), Total, stage)
<1> DEFINE M == S!Made(target, 0, buffer, 0, Total, takes, stage)
           b == chunk * Total
<1>1. b \in Nat /\ Total \in Nat /\ 0 \in Nat BY TripStage, LayoutFacts
<1>2. CoversFrom(buffer, 0, Total) BY <1>1 DEF CoversFrom, Full
<1>3. Covers(target, 0 + Total) BY <1>1 DEF Covers, Full
<1>4. DOMAIN M = DOMAIN target /\ Typed(M)
  <2>1. Typed(target) /\ Typed(buffer) BY DEF Full
  <2> QED BY <1>1, <1>2, <2>1, MadeTyped
<1>5. ASSUME Marked(buffer, Total, takes) PROVE Marked(M, Total, stage)
  <2>1. Marks(buffer, 0, 0, Total, b, R!RealFrames, takes) BY <1>5 DEF Marked
  <2>2. Marks(target, 0, 0, 0, b, R!RealFrames, stage) BY DEF Marks
  <2> HIDE DEF b
  <2>3. Marks(M, 0, 0, 0 + Total, b, R!RealFrames, stage) BY <1>1, <1>3, <2>1, <2>2, MadeMarks
  <2>4. 0 + Total = Total BY <1>1
  <2> HIDE DEF M
  <2> QED BY <2>3, <2>4 DEF Marked, b
<1> QED BY <1>4, <1>5

LEMMA TripDeinterleaveKeeps ==
  ASSUME TripTypes, TripBuffers, R!Deinterleave
  PROVE  TripTypes' /\ TripBuffers'
<1> DEFINE M == S!Made(dma["planar"], 0, dma["spectrum"], 0, Total, "stft", "planar")
<1>1. /\ pc = "deinterleave" /\ dma' = [dma EXCEPT !["planar"] = M] /\ pc' = "interleave"
      /\ UNCHANGED <<layout, n, chunk, batch, left, taken>>
   BY TripMade, DmaNamed DEF R!Deinterleave, Total
<1>2. pc \in TripStages /\ pc' \in TripStages BY <1>1 DEF TripStages
<1>3. /\ Full(dma["spectrum"]) /\ Full(dma["planar"])
      /\ batch \in Nat /\ left \in Nat /\ taken \in Nat /\ batch = 0
   BY <1>1, <1>2, TripStage DEF DmaNames, TripTypes, Full
<1>4. /\ DOMAIN M = DOMAIN dma["planar"] /\ Typed(M)
      /\ Marked(dma["spectrum"], Total, "stft") => Marked(M, Total, "planar")
  <2>1. "stft" \in Kinds \ {"nothing"} /\ "planar" \in Kinds BY DEF Kinds
  <2> QED BY <1>2, <1>3, <2>1, WholeChunk
<1> HIDE DEF M
<1>5. /\ DOMAIN dma' = DmaNames /\ \A x \in DmaNames : Typed(dma'[x]) /\ DOMAIN dma'[x] = DOMAIN dma[x]
      /\ dma'["planar"] = M
  <2>1. "planar" \in DmaNames BY DEF DmaNames
  <2> QED BY <1>1, <1>2, <1>4, <2>1, DmaWritten
<1>6. TripTypes' BY <1>1, <1>2, <1>3, <1>5, TripTypesStay
<1>7. R!RealFrames' = R!RealFrames /\ (R!Uneven' <=> R!Uneven) /\ Total' = Total BY <1>1, SameChunk
<1>8. R!Uneven => Marked(M, Total, "planar") BY <1>1, <1>4, DmaNamed DEF TripBuffers
<1>9. dma'.planar = M BY <1>5
<1>10. R!Uneven => Marked(dma.planar, Total, "planar")' BY <1>1, <1>7, <1>8, <1>9 DEF Marked
<1>11. TripBuffers' BY <1>1, <1>7, <1>10 DEF TripBuffers
<1> QED BY <1>6, <1>11

LEMMA TripInterleaveKeeps ==
  ASSUME TripTypes, TripBuffers, R!Interleave
  PROVE  TripTypes' /\ TripBuffers'
<1> DEFINE M == S!Made(dma["mixed"], 0, dma["planar"], 0, Total, "planar", "mixed")
<1>1. /\ pc = "interleave" /\ dma' = [dma EXCEPT !["mixin"] = dma["planar"], !["mixed"] = M] /\ pc' = "istft"
      /\ UNCHANGED <<layout, n, chunk, batch, taken>> /\ left' = R!RealFrames * HopSize
   BY TripMade, DmaNamed DEF R!Interleave, Total
<1>2. pc \in TripStages /\ pc' \in TripStages BY <1>1 DEF TripStages
<1>3. /\ DOMAIN dma = DmaNames /\ \A x \in DmaNames : Typed(dma[x])
      /\ DOMAIN dma["mixed"] = 0..(Total - 1) /\ DOMAIN dma["mixin"] = 0..(Total - 1)
      /\ DOMAIN dma["planar"] = 0..(Total - 1)
      /\ chunk * Total < R!FileFrames /\ taken \in Nat /\ batch = 0
   BY <1>1, <1>2, TripStage DEF DmaNames, TripTypes
<1>4. /\ DOMAIN M = DOMAIN dma["mixed"] /\ Typed(M)
      /\ Marked(dma["planar"], Total, "planar") => Marked(M, Total, "mixed")
  <2>1. "planar" \in Kinds \ {"nothing"} /\ "mixed" \in Kinds BY DEF Kinds
  <2>2. Full(dma["mixed"]) /\ Full(dma["planar"]) BY <1>3 DEF DmaNames, Full
  <2> QED BY <1>2, <2>1, <2>2, WholeChunk
<1> HIDE DEF M
<1>5. /\ DOMAIN dma' = DmaNames /\ dma'["mixed"] = M /\ dma'["mixin"] = dma["planar"]
      /\ \A x \in DmaNames \ {"mixin", "mixed"} : dma'[x] = dma[x]
   BY <1>1, <1>3 DEF DmaNames
<1>6. ASSUME NEW x \in DmaNames PROVE Typed(dma'[x]) /\ DOMAIN dma'[x] = DOMAIN dma[x]
  <2>1. CASE x = "mixed" BY <1>4, <1>5, <2>1
  <2>2. CASE x = "mixin"
    <3>1. Typed(dma["planar"]) BY <1>3 DEF DmaNames
    <3> QED BY <1>3, <1>5, <2>2, <3>1
  <2>3. CASE x \notin {"mixin", "mixed"} BY <1>3, <1>5, <2>3
  <2> QED BY <2>1, <2>2, <2>3
<1>7. left' \in Nat /\ batch' = 0 /\ batch' \in Nat /\ taken' \in Nat
  <2>1. R!RealFrames \in Nat BY <1>3, RealFacts, LayoutFacts
  <2> QED BY <1>1, <1>3, <2>1, SpeechFacts, Times
<1>8. batch' * layout.istft < Total BY <1>7, LayoutFacts
<1>9. TripTypes' BY <1>1, <1>2, <1>5, <1>6, <1>7, <1>8, TripTypesStay
<1>10. R!RealFrames' = R!RealFrames /\ (R!Uneven' <=> R!Uneven) /\ Total' = Total BY <1>1, SameChunk
<1>11. R!Uneven => Marked(M, Total, "mixed") BY <1>1, <1>4, DmaNamed DEF TripBuffers
<1>12. dma'.mixed = M BY <1>5
<1>13. R!Uneven => Marked(dma.mixed, Total, "mixed")' BY <1>1, <1>10, <1>11, <1>12 DEF Marked
<1>14. TripBuffers' BY <1>1, <1>10, <1>13 DEF TripBuffers
<1> QED BY <1>9, <1>14

\* One batch of synthesis: the frames that it makes, and how many of their
\* samples are kept.
LEMMA TripIstftKeeps ==
  ASSUME TripTypes, TripBuffers, TripOut, R!Istft
  PROVE  /\ TripTypes' /\ TripBuffers'
         /\ R!FramesOf(layout.istft) \in 0..layout.istft
         /\ dma'.clean = dma'["clean"]
         /\ R!Uneven => Marks(dma'["clean"], 0, batch * layout.istft, R!FramesOf(layout.istft),
                              chunk * Total, R!RealFrames, "clean")
         /\ Typed(dma'["clean"]) /\ DOMAIN dma'["clean"] = 0..(layout.istft - 1)
<1> DEFINE b == chunk * Total
           p == batch * layout.istft
           c == R!FramesOf(layout.istft)
           M == S!Made(dma["clean"], 0, dma["mixed"], p, c, "mixed", "clean")
<1>1. /\ pc = "istft" /\ dma' = [dma EXCEPT !["clean"] = M] /\ pc' = "send"
      /\ UNCHANGED <<layout, n, chunk, batch>>
      /\ taken' = S!Smaller(c * HopSize, left) /\ left' = left - taken'
   BY TripMade, TripSame, DmaNamed DEF R!Istft
<1>2. pc \in TripStages /\ pc' \in TripStages BY <1>1 DEF TripStages
<1>3. /\ \A x \in DmaNames : Typed(dma[x])
      /\ DOMAIN dma["clean"] = 0..(layout.istft - 1) /\ DOMAIN dma["mixed"] = 0..(Total - 1)
      /\ b \in Nat /\ batch \in Nat /\ left \in Nat
   BY <1>2, TripStage DEF DmaNames
<1>4. Total \in Nat \ {0} /\ layout.istft \in Nat \ {0} BY LayoutFacts
<1>5. p < Total BY <1>1 DEF TripTypes
<1>6. p \in Nat /\ c \in 0..layout.istft /\ p + c <= Total BY <1>4, <1>5, TripBatch
<1>7. taken' \in Nat /\ left' \in Nat
  <2>1. c * HopSize \in Nat BY <1>6, <1>4, SpeechFacts, Times
  <2> QED BY <1>1, <1>3, <2>1 DEF S!Smaller
<1> HIDE DEF b, p, c
<1>8. DOMAIN M = DOMAIN dma["clean"] /\ Typed(M)
  <2>1. CoversFrom(dma["mixed"], p, c) BY <1>3, <1>4, <1>6 DEF CoversFrom
  <2>2. "mixed" \in Kinds /\ "clean" \in Kinds /\ c \in Nat /\ 0 \in Nat BY <1>6, <1>4 DEF Kinds
  <2>3. Typed(dma["clean"]) /\ Typed(dma["mixed"]) BY <1>3 DEF DmaNames
  <2> QED BY <1>6, <2>1, <2>2, <2>3, MadeTyped
<1>9. R!Uneven => Marks(M, 0, p, c, b, R!RealFrames, "clean")
  <2> SUFFICES ASSUME R!Uneven, NEW k \in 0..(c - 1)
               PROVE  M[0 + k] = Mark(b, R!RealFrames, p + k, "clean")
     BY DEF Marks
  <2>1. Marks(dma["mixed"], 0, 0, Total, b, R!RealFrames, "mixed")
     BY <1>1, DmaNamed DEF TripBuffers, Marked, b
  <2>2. k \in Nat /\ 0 + k = k /\ k \in DOMAIN dma["clean"] /\ 0 <= k /\ k < 0 + c /\ p + k - 0 = p + k
        /\ p + k \in 0..(Total - 1) /\ 0 + (p + k) = p + k /\ p + k \in Nat
     BY <1>3, <1>4, <1>6
  <2>3. M[k] = Turned(dma["mixed"][p + k], "mixed", "clean") BY <2>2, MadeAt
  <2>4. dma["mixed"][p + k] = Mark(b, R!RealFrames, p + k, "mixed") BY <2>1, <2>2 DEF Marks
  <2>5. "mixed" \in Kinds \ {"nothing"} /\ "clean" \in Kinds BY DEF Kinds
  <2> HIDE DEF M
  <2> QED BY <1>3, <2>2, <2>3, <2>4, <2>5, TurnedMark
<1> HIDE DEF M
<1>10. /\ DOMAIN dma' = DmaNames /\ \A x \in DmaNames : Typed(dma'[x]) /\ DOMAIN dma'[x] = DOMAIN dma[x]
       /\ dma'["clean"] = M /\ \A x \in DmaNames \ {"clean"} : dma'[x] = dma[x]
  <2>1. "clean" \in DmaNames BY DEF DmaNames
  <2> QED BY <1>1, <1>2, <1>8, <2>1, DmaWritten
<1>11. TripTypes' BY <1>1, <1>2, <1>3, <1>5, <1>7, <1>10, TripTypesStay DEF p
<1>12. R!RealFrames' = R!RealFrames /\ (R!Uneven' <=> R!Uneven) /\ Total' = Total BY <1>1, SameChunk
<1>13. dma'.mixed = dma.mixed
  <2>1. dma'["mixed"] = dma["mixed"] BY <1>10 DEF DmaNames
  <2> QED BY <2>1
<1>14. R!Uneven => Marked(dma.mixed, Total, "mixed")' BY <1>1, <1>12, <1>13 DEF TripBuffers, Marked
<1>15. TripBuffers' BY <1>1, <1>12, <1>14 DEF TripBuffers
<1>16. dma'.clean = dma'["clean"] OBVIOUS
<1> QED BY <1>3, <1>6, <1>8, <1>9, <1>10, <1>11, <1>15, <1>16 DEF b, p, c

----------------------------------------------------------------------------
(* The round trip: what it collects. *)

LEMMA SamplesType ==
  ASSUME NEW buffer, NEW count \in Nat, Typed(buffer), Covers(buffer, count)
  PROVE  /\ S!Samples(buffer, count, HopSize) \in Seq(S!Frame)
         /\ Len(S!Samples(buffer, count, HopSize)) = count * HopSize
<1> DEFINE s == S!Samples(buffer, count, HopSize)
           len == count * HopSize
           q(k) == (k - 1) \div HopSize
           r(k) == (k - 1) % HopSize
           sample(k) == IF buffer[q(k)].by = "nothing" THEN S!NoFrame
                        ELSE [buffer[q(k)] EXCEPT !.at = @ + r(k)]
<1>1. len \in Nat BY SpeechFacts, Times
<1>2. s = [k \in 1..len |-> sample(k)] BY DEF S!Samples
<1>3. ASSUME NEW k \in 1..len PROVE sample(k) \in S!Frame
  <2>1. k - 1 \in Nat /\ k - 1 < count * HopSize BY <1>1
  <2>2. q(k) \in 0..(count - 1) BY <2>1, Under, SpeechFacts
  <2>3. r(k) \in 0..(HopSize - 1) BY <2>1, DivMod, SpeechFacts
  <2>4. buffer[q(k)] \in S!Frame BY <2>2 DEF Covers, Typed
  <2>5. r(k) \in Nat BY <2>3, SpeechFacts
  <2> HIDE DEF q, r
  <2>6. ASSUME NEW x \in S!Frame, NEW y \in Nat PROVE [x EXCEPT !.at = @ + y] \in S!Frame
     BY FrameFacts
  <2> QED BY <2>4, <2>5, <2>6, FrameFacts
<1> HIDE DEF len, sample
<1>4. s \in [1..len -> S!Frame] BY <1>2, <1>3
<1>5. s \in Seq(S!Frame) /\ Len(s) = len
  <2> HIDE DEF s
  <2> QED BY <1>1, <1>4
<1> QED BY <1>5 DEF len

LEMMA SamplesFirst ==
  ASSUME NEW buffer, NEW total \in Nat, Typed(buffer), Covers(buffer, total), NEW k \in Nat, k <= total
  PROVE  SubSeq(S!Samples(buffer, total, HopSize), 1, k * HopSize) = S!Samples(buffer, k, HopSize)
<1> DEFINE s == S!Samples(buffer, total, HopSize)
           t == S!Samples(buffer, k, HopSize)
           len == k * HopSize
           cut == SubSeq(s, 1, len)
<1>1. len \in Nat /\ len <= total * HopSize /\ total * HopSize \in Nat BY SpeechFacts, Times, Order
<1>2. s \in Seq(S!Frame) /\ Len(s) = total * HopSize BY SamplesType
<1>3. Covers(buffer, k) BY DEF Covers
<1>4. t \in Seq(S!Frame) /\ Len(t) = len BY <1>3, SamplesType
<1>5. \A i \in 1..len : s[i] = t[i]
  <2> SUFFICES ASSUME NEW i \in 1..len PROVE s[i] = t[i] OBVIOUS
  <2>1. i \in 1..(total * HopSize) /\ i \in 1..(k * HopSize) BY <1>1
  <2> QED BY <2>1 DEF S!Samples
<1> HIDE DEF s, t, len
<1>6. 1 \in Int /\ len \in Int /\ \A i \in 1..len : s[i] \in S!Frame BY <1>1, <1>4, <1>5
<1>7. cut \in Seq(S!Frame) /\ Len(cut) = (IF 1 <= len THEN len - 1 + 1 ELSE 0)
      /\ \A i \in 1..(len - 1 + 1) : cut[i] = s[1 + i - 1]
   BY <1>6, SubSeqProperties
<1>8. Len(cut) = len /\ \A i \in 1..len : cut[i] = s[i] BY <1>1, <1>7
<1> HIDE DEF cut
<1>9. cut = t BY <1>4, <1>5, <1>7, <1>8, SeqEqual
<1> QED BY <1>9 DEF cut, s, t, len

\* Of a batch of count frames from frame p on, those of real frames are kept.
LEMMA KeptFrames ==
  ASSUME NEW real \in Nat, NEW p \in Nat, NEW count \in Nat,
         NEW k, k = S!Smaller(count, real - S!Smaller(real, p))
  PROVE  /\ k \in 0..count /\ (k > 0 => p + k <= real /\ S!Smaller(real, p) = p)
         /\ S!Smaller(real, p) \in 0..real /\ S!Smaller(real, p) + k = S!Smaller(real, p + count)
         /\ S!Smaller(real, p + count) \in 0..real
         /\ S!Smaller(count * HopSize, (real - S!Smaller(real, p)) * HopSize) = k * HopSize
<1> DEFINE m == real - S!Smaller(real, p)
<1>1. m \in Nat /\ S!Smaller(real, p) \in 0..real /\ S!Smaller(real, p + count) \in 0..real
   BY DEF S!Smaller
<1>2. k \in 0..count /\ (k > 0 => p + k <= real /\ S!Smaller(real, p) = p)
      /\ S!Smaller(real, p) + k = S!Smaller(real, p + count)
   BY DEF S!Smaller
<1>3. S!Smaller(count * HopSize, m * HopSize) = S!Smaller(count, m) * HopSize
  <2> HIDE DEF m
  <2>1. count * HopSize \in Nat /\ m * HopSize \in Nat BY <1>1, SpeechFacts, Times
  <2>2. CASE count < m
    <3>1. count * HopSize + HopSize <= m * HopSize BY <1>1, <2>2, SpeechFacts, Monotone
    <3>2. count * HopSize < m * HopSize BY <2>1, <3>1, SpeechFacts
    <3> QED BY <2>2, <3>2 DEF S!Smaller
  <2>3. CASE ~(count < m)
    <3>1. m * HopSize <= count * HopSize BY <1>1, <2>3, SpeechFacts, Order
    <3>2. ~(count * HopSize < m * HopSize) BY <2>1, <3>1
    <3> QED BY <2>3, <3>2 DEF S!Smaller
  <2> QED BY <2>2, <2>3
<1> QED BY <1>1, <1>2, <1>3

LEMMA QuietTripOut ==
  ASSUME TripTypes, TripOut, R!Fill \/ R!Stft \/ R!Deinterleave \/ R!Interleave
  PROVE  TripOut'
<1>1. /\ pc \in {"fill", "stft", "deinterleave", "interleave"}
      /\ UNCHANGED <<layout, n, chunk, out>>
      /\ pc' \in {"fill", "stft", "deinterleave", "interleave", "istft"}
      /\ pc' = "istft" => left' = R!RealFrames * HopSize /\ batch' = batch /\ batch = 0
  <2>1. CASE R!Fill BY <2>1 DEF R!Fill
  <2>2. CASE R!Stft BY <2>2 DEF R!Stft, R!Onward
  <2>3. CASE R!Deinterleave BY <2>3 DEF R!Deinterleave
  <2>4. CASE R!Interleave BY <2>4 DEF R!Interleave, TripTypes
  <2> QED BY <2>1, <2>2, <2>3, <2>4
<1>2. pc \in TripStages /\ pc' \in TripStages BY <1>1 DEF TripStages
<1>3. R!RealFrames' = R!RealFrames /\ (R!Uneven' <=> R!Uneven) /\ Total' = Total BY <1>1, SameChunk
<1>4. chunk * Total \in Nat /\ R!RealFrames \in Nat BY <1>2, TripStage, RealFacts, LayoutFacts
<1>5. Collected = chunk * Total * HopSize /\ Collected' = Collected
  <2>1. Collected = chunk * Total * HopSize BY <1>1 DEF Collected
  <2>2. CASE pc' = "istft"
    <3>1. Collected' = (chunk * Total + R!RealFrames) * HopSize - R!RealFrames * HopSize
       BY <1>1, <1>3, <2>2 DEF Collected
    <3>2. (chunk * Total + R!RealFrames) * HopSize = chunk * Total * HopSize + R!RealFrames * HopSize
       BY <1>4, SpeechFacts, Times
    <3>3. chunk * Total * HopSize \in Int /\ R!RealFrames * HopSize \in Int BY <1>4, SpeechFacts, Times
    <3> QED BY <2>1, <3>1, <3>2, <3>3
  <2>3. CASE pc' # "istft" BY <1>1, <1>3, <2>1, <2>3 DEF Collected
  <2> QED BY <2>1, <2>2, <2>3
<1>6. R!Uneven' => Whole(out', Collected') \/ Short(out', Collected')
   BY <1>1, <1>2, <1>3, <1>5 DEF TripOut
<1>7. pc' = "istft" => left' = (R!RealFrames' - S!Smaller(R!RealFrames', Synthesised')) * HopSize
  <2> SUFFICES ASSUME pc' = "istft"
               PROVE  left' = (R!RealFrames' - S!Smaller(R!RealFrames', Synthesised')) * HopSize
     OBVIOUS
  <2>1. Synthesised' = 0 BY <1>1, LayoutFacts DEF Synthesised
  <2>2. S!Smaller(R!RealFrames, 0) = 0 BY <1>4 DEF S!Smaller
  <2>3. R!RealFrames - 0 = R!RealFrames BY <1>4
  <2> QED BY <1>1, <1>3, <2>1, <2>2, <2>3
<1>8. out' \in Seq(S!Frame) BY <1>1 DEF TripOut
<1> QED BY <1>1, <1>6, <1>7, <1>8 DEF TripOut, R!Restored

LEMMA TripIstftOut ==
  ASSUME TripTypes, TripBuffers, TripOut, R!Istft
  PROVE  /\ TripOut' /\ Len(out') = Len(out) + taken'
         /\ \A i \in DOMAIN out : out'[i] = out[i]
<1> DEFINE b == chunk * Total
           real == R!RealFrames
           p == batch * layout.istft
           c == R!FramesOf(layout.istft)
           m == S!Smaller(real, p)
           k == S!Smaller(c, real - m)
           clean == dma'["clean"]
           more == S!Samples(clean, k, HopSize)
<1>1. /\ pc = "istft" /\ pc' = "send" /\ UNCHANGED <<layout, n, chunk, batch>>
      /\ taken' = S!Smaller(c * HopSize, left) /\ left' = left - taken'
      /\ out' = out \o SubSeq(R!Samples(dma'.clean, layout.istft, HopSize), 1, taken')
   BY TripSame DEF R!Istft
<1>2. /\ c \in 0..layout.istft /\ dma'.clean = clean
      /\ R!Uneven => Marks(clean, 0, p, c, b, real, "clean")
      /\ Typed(clean) /\ DOMAIN clean = 0..(layout.istft - 1)
   BY TripIstftKeeps
<1>3. pc \in TripStages BY <1>1 DEF TripStages
<1>4. /\ b \in Nat /\ real \in Nat /\ p \in Nat /\ c \in Nat /\ layout.istft \in Nat
  <2>1. b < R!FileFrames /\ b \in Nat /\ batch \in Nat BY <1>3, TripStage
  <2>2. layout.istft \in Nat /\ Total \in Nat BY LayoutFacts
  <2>3. real \in Nat BY <2>1, <2>2, RealFacts
  <2> QED BY <1>2, <2>1, <2>2, <2>3, Times
<1>5. left = (real - m) * HopSize BY <1>1 DEF TripOut, Synthesised
<1> HIDE DEF b, real, p, c, clean
<1>6. /\ k \in 0..c /\ (k > 0 => p + k <= real /\ m = p) /\ m \in 0..real
      /\ m + k = S!Smaller(real, p + c) /\ S!Smaller(real, p + c) \in 0..real
      /\ S!Smaller(c * HopSize, (real - m) * HopSize) = k * HopSize
  <2>1. k = S!Smaller(c, real - S!Smaller(real, p)) /\ m = S!Smaller(real, p) OBVIOUS
  <2> HIDE DEF k, m
  <2>2. /\ k \in 0..c /\ (k > 0 => p + k <= real /\ S!Smaller(real, p) = p)
        /\ S!Smaller(real, p) \in 0..real /\ S!Smaller(real, p) + k = S!Smaller(real, p + c)
        /\ S!Smaller(real, p + c) \in 0..real
        /\ S!Smaller(c * HopSize, (real - S!Smaller(real, p)) * HopSize) = k * HopSize
     BY <1>4, <2>1, KeptFrames
  <2> QED BY <2>1, <2>2
<1>7. taken' = k * HopSize BY <1>1, <1>5, <1>6
<1>8. k \in Nat /\ k <= layout.istft /\ Covers(clean, layout.istft) /\ Covers(clean, k)
   BY <1>2, <1>4, <1>6 DEF Covers
<1>9. SubSeq(R!Samples(dma'.clean, layout.istft, HopSize), 1, taken') = more
   BY <1>2, <1>4, <1>7, <1>8, TripSamples, SamplesFirst
<1>10. more \in Seq(S!Frame) /\ Len(more) = k * HopSize BY <1>2, <1>8, SamplesType
<1>11. k * HopSize \in Nat /\ m * HopSize \in Nat /\ b * HopSize \in Nat /\ (b + m) * HopSize = b * HopSize + m * HopSize
       /\ (b + real) * HopSize = b * HopSize + real * HopSize /\ real * HopSize \in Nat
       /\ (real - m) * HopSize = real * HopSize - m * HopSize
       /\ (m + k) * HopSize = m * HopSize + k * HopSize
       /\ (real - (m + k)) * HopSize = real * HopSize - (m + k) * HopSize
   BY <1>4, <1>6, <1>8, SpeechFacts, Times
<1>12. R!Uneven => Follows(more, (b + m) * HopSize, "clean")
  <2> SUFFICES ASSUME R!Uneven PROVE Follows(more, (b + m) * HopSize, "clean") OBVIOUS
  <2>1. CASE k = 0
    <3>1. DOMAIN more = 1..0
      <4>1. k * HopSize = 0 BY <2>1, SpeechFacts
      <4> HIDE DEF more
      <4> QED BY <1>10, <4>1, LenProperties
    <3> HIDE DEF more
    <3> QED BY <3>1 DEF Follows
  <2>2. CASE k # 0
    <3>1. p + k <= real /\ m = p BY <1>6, <1>8, <2>2
    <3>2. Row(clean, k, (b + p) * HopSize, "clean")
      <4> SUFFICES ASSUME NEW f \in 0..(k - 1)
                   PROVE  clean[f] = Piece((b + p) * HopSize + f * HopSize, "clean")
         BY DEF Row
      <4>1. f \in 0..(c - 1) /\ 0 + f = f /\ f \in Nat /\ p + f < real BY <1>4, <1>6, <1>8, <3>1
      <4>2. clean[f] = Mark(b, real, p + f, "clean") BY <1>2, <4>1 DEF Marks
      <4>3. (b + (p + f)) * HopSize = (b + p) * HopSize + f * HopSize
        <5>1. b + (p + f) = (b + p) + f /\ b + p \in Int /\ f \in Int BY <1>4, <4>1
        <5>2. ((b + p) + f) * HopSize = (b + p) * HopSize + f * HopSize BY <5>1, SpeechFacts, Times
        <5> QED BY <5>1, <5>2
      <4> QED BY <4>1, <4>2, <4>3 DEF Mark
    <3>3. (b + p) * HopSize \in Nat
      <4>1. b + p \in Nat BY <1>4
      <4> QED BY <4>1, SpeechFacts, Times
    <3>4. "clean" \in Kinds \ {"nothing"} BY DEF Kinds
    <3>5. Follows(more, (b + p) * HopSize, "clean") BY <1>8, <3>2, <3>3, <3>4, Sampled
    <3> QED BY <3>1, <3>5
  <2> QED BY <2>1, <2>2
<1> HIDE DEF more, k, m
<1>13. out \in Seq(S!Frame) /\ Len(out) \in Nat /\ out' = out \o more /\ DOMAIN out = 1..Len(out)
  <2>1. out \in Seq(S!Frame) BY DEF TripOut
  <2> QED BY <1>1, <1>9, <2>1, LenProperties
<1>14. /\ out' \in Seq(S!Frame) /\ Len(out') = Len(out) + taken'
       /\ \A i \in 1..(Len(out) + Len(more)) : out'[i] = IF i <= Len(out) THEN out[i] ELSE more[i - Len(out)]
   BY <1>7, <1>10, <1>13, ConcatProperties
<1>15. \A i \in DOMAIN out : out'[i] = out[i] BY <1>10, <1>11, <1>13, <1>14
<1>16. R!RealFrames' = real /\ (R!Uneven' <=> R!Uneven) /\ Total' = Total /\ chunk' * Total' = b
   BY <1>1, SameChunk DEF b, real
<1>17. left' = (real - (m + k)) * HopSize BY <1>5, <1>7, <1>1, <1>11
<1>18. Synthesised' = p + c BY <1>1 DEF Synthesised, R!FramesOf, p, c
<1>19. left' = (R!RealFrames' - S!Smaller(R!RealFrames', Synthesised')) * HopSize
   BY <1>6, <1>16, <1>17, <1>18 DEF m, k
<1>20. /\ Collected = (b + m) * HopSize /\ Collected \in Nat
       /\ Collected' = Collected + k * HopSize
  <2>1. Collected = (b + real) * HopSize - left BY <1>1 DEF Collected, b, real
  <2>2. Collected' = (b + real) * HopSize - left' BY <1>1, <1>16 DEF Collected
  <2> QED BY <1>5, <1>11, <1>17, <2>1, <2>2
<1>21. R!Uneven => Whole(out', Collected') \/ Short(out', Collected')
  <2> SUFFICES ASSUME R!Uneven PROVE Whole(out', Collected') \/ Short(out', Collected') OBVIOUS
  <2>1. Whole(out, Collected) \/ Short(out, Collected) BY <1>3 DEF TripOut
  <2>2. CASE Whole(out, Collected)
    <3>1. Len(out) = (b + m) * HopSize /\ Follows(out, 0, "clean") BY <1>20, <2>2 DEF Whole
    <3>2. 0 + Len(out) = (b + m) * HopSize /\ 0 \in Nat BY <1>13, <3>1
    <3>3. Follows(more, 0 + Len(out), "clean") BY <1>12, <3>2
    <3>4. Follows(out \o more, 0, "clean") BY <1>10, <1>13, <3>1, <3>2, <3>3, Joined
    <3> QED BY <1>7, <1>13, <1>14, <1>20, <3>1, <3>4 DEF Whole
  <2>3. CASE Short(out, Collected)
    <3>1. Len(out) + HopSize <= Collected BY <2>3 DEF Short
    <3> DEFINE size == k * HopSize
    <3>2. size \in Nat /\ Len(out') = Len(out) + size /\ Collected' = Collected + size
       BY <1>7, <1>11, <1>14, <1>20
    <3>3. Len(out) \in Nat /\ HopSize \in Nat /\ Collected \in Nat BY <1>13, <1>20, SpeechFacts
    <3> HIDE DEF size
    <3>4. Len(out') + HopSize <= Collected' BY <3>1, <3>2, <3>3
    <3> QED BY <3>4 DEF Short
  <2> QED BY <2>1, <2>2, <2>3
<1>22. taken' <= Len(out') BY <1>7, <1>11, <1>13, <1>14
<1> QED BY <1>1, <1>14, <1>15, <1>16, <1>19, <1>21, <1>22 DEF TripOut, R!Restored

LEMMA TripSendKeeps ==
  ASSUME TripTypes, TripBuffers, TripOut, R!Send
  PROVE  TripTypes' /\ TripBuffers' /\ TripOut' /\ out' = out
<1> DEFINE real == R!RealFrames
           p == batch * layout.istft
           c == R!FramesOf(layout.istft)
           more == batch + 1 < R!Batches(layout.total, layout.istft)
<1>1. /\ pc = "send" /\ UNCHANGED <<layout, n, chunk, dma, left, taken, out>>
      /\ \/ more /\ batch' = batch + 1 /\ pc' = "istft"
         \/ ~more /\ batch' = 0 /\ pc' = "next"
   BY DEF R!Send, R!Onward
<1>2. pc \in TripStages /\ pc' \in TripStages BY <1>1 DEF TripStages
<1>3. /\ DOMAIN dma = DmaNames /\ \A b \in DmaNames : Typed(dma[b])
      /\ chunk * Total < R!FileFrames /\ chunk * Total \in Nat
      /\ batch \in Nat /\ left \in Nat /\ taken \in Nat
   BY <1>2, TripStage
<1>4. Total \in Nat \ {0} /\ layout.istft \in Nat \ {0} BY LayoutFacts
<1>5. p < Total BY <1>1 DEF TripTypes
<1>6. /\ p \in Nat /\ c \in 0..layout.istft
      /\ more => (batch + 1) * layout.istft < Total /\ p + c = (batch + 1) * layout.istft
   BY <1>4, <1>5, TripBatch
<1>7. real \in 1..Total BY <1>3, RealFacts
<1>8. left = (real - S!Smaller(real, p + c)) * HopSize BY <1>1 DEF TripOut, Synthesised
<1>9. R!RealFrames' = R!RealFrames /\ (R!Uneven' <=> R!Uneven) /\ Total' = Total BY <1>1, SameChunk
<1> HIDE DEF real, p, c, more
<1>10. batch' \in Nat BY <1>1, <1>3
<1>11. pc' = "istft" => batch' * layout.istft < Total BY <1>1, <1>6
<1>12. TripTypes' BY <1>1, <1>2, <1>3, <1>10, <1>11, TripTypesStay
<1>13. TripBuffers'
  <2>1. R!Uneven => Marked(dma.mixed, Total, "mixed") BY <1>1 DEF TripBuffers
  <2>2. R!Uneven => Marked(dma.mixed, Total, "mixed")' BY <1>1, <1>9, <2>1 DEF Marked
  <2> QED BY <1>1, <1>9, <2>2 DEF TripBuffers
<1>14. Collected' = Collected BY <1>1, <1>9 DEF Collected
<1>15. R!Uneven' => Whole(out', Collected') \/ Short(out', Collected')
   BY <1>1, <1>2, <1>9, <1>14 DEF TripOut
<1>16. pc' = "istft" => left' = (R!RealFrames' - S!Smaller(R!RealFrames', Synthesised')) * HopSize
  <2> SUFFICES ASSUME pc' = "istft"
               PROVE  left' = (R!RealFrames' - S!Smaller(R!RealFrames', Synthesised')) * HopSize
     OBVIOUS
  <2>1. Synthesised' = p + c BY <1>1, <1>6 DEF Synthesised
  <2> QED BY <1>1, <1>8, <1>9, <2>1 DEF real
<1>17. pc' = "next" => left' = 0 \/ left' >= HopSize
  <2> DEFINE k == real - S!Smaller(real, p + c)
  <2>1. k \in Nat BY <1>4, <1>6, <1>7 DEF S!Smaller
  <2>2. left = k * HopSize BY <1>8
  <2> HIDE DEF k
  <2>3. CASE k = 0 BY <1>1, <2>2, <2>3, SpeechFacts
  <2>4. CASE k # 0
    <3>1. 0 * HopSize + HopSize <= k * HopSize BY <2>1, <2>4, SpeechFacts, Monotone
    <3> QED BY <1>1, <1>3, <2>2, <3>1, SpeechFacts
  <2> QED BY <2>3, <2>4
<1>18. out' \in Seq(S!Frame) BY <1>1 DEF TripOut
<1> QED BY <1>1, <1>12, <1>13, <1>15, <1>16, <1>17, <1>18 DEF TripOut, R!Restored

\* The next chunk finds all samples of those before it, or too few for good.
LEMMA TripNextKeeps ==
  ASSUME TripTypes, TripBuffers, TripOut, R!NextChunk
  PROVE  TripTypes' /\ TripBuffers' /\ TripOut' /\ out' = out
<1> DEFINE b == chunk * Total
           real == R!RealFrames
<1>1. /\ pc = "next" /\ chunk' = chunk + 1 /\ UNCHANGED <<layout, n, batch, dma, left, taken, out>>
      /\ pc' = (IF chunk' < R!FileChunks THEN "fill" ELSE "save")
   BY DEF R!NextChunk
<1>2. pc \in TripStages BY <1>1 DEF TripStages
<1>3. /\ DOMAIN dma = DmaNames /\ \A x \in DmaNames : Typed(dma[x])
      /\ b < R!FileFrames /\ b \in Nat /\ left \in Nat /\ taken \in Nat
   BY <1>2, TripStage
<1>4. /\ Total \in Nat \ {0} /\ layout.stft \in Nat \ {0} /\ R!FileFrames \in Nat
      /\ \A k \in Nat : k < R!FileChunks <=> k * Total < R!FileFrames
   BY LayoutFacts
<1>5. /\ real \in 1..Total /\ (chunk + 1) * Total = b + Total
      /\ chunk + 1 < R!FileChunks => real = Total
      /\ ~(chunk + 1 < R!FileChunks) => b + real = R!FileFrames /\ chunk + 1 = R!FileChunks
   BY <1>3, RealFacts
<1>6. chunk + 1 \in Nat /\ batch = 0 BY <1>1 DEF TripTypes
<1>7. /\ Total' = Total /\ R!FileFrames' = R!FileFrames /\ R!FileChunks' = R!FileChunks
      /\ (R!Uneven' <=> R!Uneven)
   BY <1>1 DEF Total, R!FileFrames, R!FileChunks, R!Uneven
<1>8. pc' \in TripStages => chunk' * Total' < R!FileFrames'
   BY <1>1, <1>4, <1>6, <1>7 DEF TripStages
<1>9. batch' * layout'.stft < Total' BY <1>1, <1>4, <1>6, <1>7
<1>10. TripTypes'
  <2>1. layout \in Layouts \cup {R!NoLayout} /\ n \in Lengths \cup {0} BY DEF TripTypes
  <2>2. \A x \in DmaNames : DOMAIN dma[x] = 0..(R!SizeOf(x, layout) - 1) BY <1>2 DEF TripTypes
  <2>3. pc' \in {"fill", "save"} BY <1>1
  <2> QED BY <1>1, <1>3, <1>6, <1>8, <1>9, <2>1, <2>2, <2>3 DEF TripTypes, TripStages
<1>11. TripBuffers'
  <2>1. pc' = "fill" => Marked(dma.spectrum, batch * layout.stft, "stft")'
    <3>1. batch' * layout'.stft = 0 BY <1>1, <1>4, <1>6
    <3> QED BY <3>1 DEF Marked, Marks
  <2> QED BY <1>1, <2>1 DEF TripBuffers
<1>12. Collected' = Collected + left /\ Collected \in Int
  <2>1. Collected = (b + real) * HopSize - left BY <1>1 DEF Collected
  <2>2. (b + real) * HopSize \in Int
    <3>1. b + real \in Int BY <1>3, <1>4, <1>5
    <3> QED BY <3>1, SpeechFacts, Times
  <2>3. Collected' = (b + real) * HopSize
    <3>1. CASE chunk + 1 < R!FileChunks
      <4>1. Collected' = chunk' * Total' * HopSize BY <1>1, <1>7, <3>1 DEF Collected
      <4>2. chunk' * Total' = b + real BY <1>1, <1>5, <1>7, <3>1
      <4> QED BY <4>1, <4>2
    <3>2. CASE ~(chunk + 1 < R!FileChunks)
      <4>1. Collected' = R!FileFrames' * HopSize BY <1>1, <1>7, <3>2 DEF Collected
      <4> QED BY <1>5, <1>7, <3>2, <4>1
    <3> QED BY <3>1, <3>2
  <2> HIDE DEF b, real
  <2> QED BY <1>3, <2>1, <2>2, <2>3
<1>13. R!Uneven => Whole(out', Collected') \/ Short(out', Collected')
  <2> SUFFICES ASSUME R!Uneven PROVE Whole(out', Collected') \/ Short(out', Collected') OBVIOUS
  <2>1. /\ Whole(out, Collected) \/ Short(out, Collected)
        /\ left = 0 \/ left >= HopSize
     BY <1>1, <1>2 DEF TripOut
  <2>2. Len(out) \in Nat BY LenProperties DEF TripOut
  <2> QED BY <1>1, <1>3, <1>12, <2>1, <2>2, SpeechFacts DEF Whole, Short
<1>14. pc' = "save" => chunk' = R!FileChunks' BY <1>1, <1>5, <1>7
<1>15. out' \in Seq(S!Frame) BY <1>1 DEF TripOut
<1>16. pc' \in {"fill", "save"} BY <1>1
<1> QED BY <1>1, <1>7, <1>10, <1>11, <1>13, <1>14, <1>15, <1>16 DEF TripOut, R!Restored

\* What is saved is what was collected of every chunk: one sample too few is
\* a frame too few, and then the run fails.
LEMMA TripSaveKeeps ==
  ASSUME TripTypes, TripOut, R!Save
  PROVE  TripTypes' /\ TripBuffers' /\ TripOut'
<1>1. /\ pc = "save" /\ Len(out) >= n /\ out' = SubSeq(out, 1, n) /\ pc' \in {"saved", "failed"}
      /\ UNCHANGED <<layout, n, chunk, batch, dma, left, taken>>
   BY DEF R!Save
<1>2. /\ n \in Nat /\ R!FileFrames * HopSize \in Nat /\ R!FileFrames * HopSize < n + HopSize
   BY LayoutFacts
<1>3. out \in Seq(S!Frame) /\ Len(out) \in Nat BY LenProperties DEF TripOut
<1>4. TripTypes' BY <1>1 DEF TripTypes, TripStages
<1>5. TripBuffers' BY <1>1 DEF TripBuffers
<1>6. /\ out' \in Seq(S!Frame) /\ Len(out') = n /\ \A i \in 1..n : out'[i] = out[i]
  <2>1. 1 \in Int /\ n \in Int /\ \A i \in 1..n : out[i] \in S!Frame BY <1>1, <1>2, <1>3, ElementOfSeq
  <2>2. /\ out' \in Seq(S!Frame) /\ Len(out') = (IF 1 <= n THEN n - 1 + 1 ELSE 0)
        /\ \A i \in 1..(n - 1 + 1) : out'[i] = out[1 + i - 1]
     BY <1>1, <2>1, SubSeqProperties
  <2>3. n - 1 + 1 = n /\ (~(1 <= n) => n = 0) /\ \A i \in 1..n : 1 + i - 1 = i BY <1>2
  <2> QED BY <2>2, <2>3
<1>7. R!Uneven => out' = [s \in 1..n |-> [at |-> s - 1, by |-> "clean"]]
  <2> SUFFICES ASSUME R!Uneven PROVE out' = [s \in 1..n |-> [at |-> s - 1, by |-> "clean"]] OBVIOUS
  <2>1. Collected = R!FileFrames * HopSize BY <1>1 DEF Collected
  <2>2. Whole(out, Collected) \/ Short(out, Collected) BY <1>1 DEF TripOut
  <2>3. ~Short(out, Collected) BY <1>1, <1>2, <1>3, <2>1, SpeechFacts DEF Short
  <2>4. Follows(out, 0, "clean") BY <2>2, <2>3 DEF Whole
  <2>5. DOMAIN out = 1..Len(out) /\ DOMAIN out' = 1..n BY <1>3, <1>6, LenProperties
  <2>6. ASSUME NEW s \in 1..n PROVE out'[s] = [at |-> s - 1, by |-> "clean"]
    <3>1. s \in DOMAIN out /\ 0 + s - 1 = s - 1 BY <1>1, <1>2, <1>3, <2>5
    <3>2. out[s] = Piece(0 + s - 1, "clean") BY <2>4, <3>1 DEF Follows
    <3>3. out[s] = Piece(s - 1, "clean") BY <3>1, <3>2
    <3> QED BY <1>6, <3>3 DEF Piece
  <2>7. out' = [s \in DOMAIN out' |-> out'[s]] BY <1>6
  <2> QED BY <2>5, <2>6, <2>7
<1>8. R!Restored' BY <1>1, <1>7 DEF R!Restored, R!Uneven
<1> QED BY <1>1, <1>4, <1>5, <1>6, <1>8 DEF TripOut, TripStages

LEMMA TripEndsKeep ==
  ASSUME TripTypes, TripOut, R!TooFew \/ R!StageFails
  PROVE  TripTypes' /\ TripBuffers' /\ TripOut'
<1>1. pc' = "failed" /\ UNCHANGED <<layout, n, chunk, batch, dma, left, taken, out>>
      /\ pc \in TripStages \cup {"start", "save"}
   BY DEF R!TooFew, R!StageFails, TripStages
<1> QED BY <1>1 DEF TripTypes, TripBuffers, TripOut, TripStages, R!Restored

----------------------------------------------------------------------------
(* What a viewer of a round trip was sent. *)

\* Two sequences that begin alike.
Alike(some, other, count) == \A i \in 1..count : some[i] = other[i]

LEMMA CutStays ==
  ASSUME NEW seq \in Seq(S!Frame), NEW all, NEW more, NEW front \in Int, Alike(more, all, front),
         NEW open \in BOOLEAN, NEW after \in BOOLEAN, after => open, CutFrom(seq, all, front, open)
  PROVE  CutFrom(seq, more, front, after)
<1>1. PICK a \in 0..(front - Len(seq)) :
        /\ \A j \in DOMAIN seq : seq[j] = all[a + j]
        /\ open /\ seq # <<>> => a + Len(seq) = front
   BY DEF CutFrom
<1>2. Len(seq) \in Nat /\ DOMAIN seq = 1..Len(seq) BY LenProperties
<1>3. ASSUME NEW j \in DOMAIN seq PROVE seq[j] = more[a + j]
  <2>1. a + j \in 1..front BY <1>2
  <2>2. more[a + j] = all[a + j] BY <2>1 DEF Alike
  <2> QED BY <1>1, <2>2
<1> QED BY <1>1, <1>3 DEF CutFrom

LEMMA CutMore ==
  ASSUME NEW seq \in Seq(S!Frame), NEW pcm \in Seq(S!Frame), NEW all, NEW front \in Nat,
         CutFrom(seq, all, front, TRUE), \A j \in DOMAIN pcm : pcm[j] = all[front + j]
  PROVE  seq \o pcm \in Seq(S!Frame) /\ CutFrom(seq \o pcm, all, front + Len(pcm), TRUE)
<1>1. Len(seq) \in Nat /\ Len(pcm) \in Nat BY LenProperties
<1>2. DOMAIN seq = 1..Len(seq) /\ DOMAIN pcm = 1..Len(pcm) BY LenProperties
<1>3. CASE seq = <<>>
  <2>1. seq \o pcm = pcm BY <1>3, ConcatEmptySeq
  <2>2. front \in 0..(front + Len(pcm) - Len(pcm)) BY <1>1
  <2>3. CutFrom(pcm, all, front + Len(pcm), TRUE) BY <2>2 DEF CutFrom
  <2> QED BY <2>1, <2>3
<1>4. CASE seq # <<>>
  <2>1. PICK a \in 0..(front - Len(seq)) : /\ \A j \in DOMAIN seq : seq[j] = all[a + j]
                                           /\ a + Len(seq) = front
     BY <1>4 DEF CutFrom
  <2> DEFINE u == seq \o pcm
  <2>2. /\ u \in Seq(S!Frame) /\ Len(u) = Len(seq) + Len(pcm)
        /\ \A i \in 1..(Len(seq) + Len(pcm)) : u[i] = IF i <= Len(seq) THEN seq[i] ELSE pcm[i - Len(seq)]
     BY ConcatProperties
  <2> HIDE DEF u
  <2>3. DOMAIN u = 1..(Len(seq) + Len(pcm)) BY <2>2, LenProperties
  <2>4. ASSUME NEW j \in DOMAIN u PROVE u[j] = all[a + j]
    <3>1. CASE j <= Len(seq)
      <4>1. j \in DOMAIN seq /\ u[j] = seq[j] BY <1>1, <1>2, <2>2, <2>3, <3>1
      <4> QED BY <2>1, <4>1
    <3>2. CASE ~(j <= Len(seq))
      <4>1. j - Len(seq) \in DOMAIN pcm /\ u[j] = pcm[j - Len(seq)] BY <1>1, <1>2, <2>2, <2>3, <3>2
      <4>2. front + (j - Len(seq)) = a + j BY <1>1, <2>1, <2>3
      <4>3. pcm[j - Len(seq)] = all[front + (j - Len(seq))] BY <4>1
      <4> QED BY <4>1, <4>2, <4>3
    <3> QED BY <3>1, <3>2
  <2>5. a + Len(u) = front + Len(pcm) /\ a \in 0..(front + Len(pcm) - Len(u)) BY <1>1, <2>1, <2>2
  <2>6. CutFrom(u, all, front + Len(pcm), TRUE) BY <2>4, <2>5 DEF CutFrom
  <2> QED BY <2>2, <2>6 DEF u
<1> QED BY <1>3, <1>4

LEMMA CutPast ==
  ASSUME NEW seq \in Seq(S!Frame), NEW all, NEW front \in Nat, NEW count \in Nat, NEW open,
         CutFrom(seq, all, front, open)
  PROVE  CutFrom(seq, all, front + count, FALSE)
<1>1. Len(seq) \in Nat BY LenProperties
<1>2. PICK a \in 0..(front - Len(seq)) : \A j \in DOMAIN seq : seq[j] = all[a + j] BY DEF CutFrom
<1>3. a \in 0..(front + count - Len(seq)) BY <1>1
<1> QED BY <1>2, <1>3 DEF CutFrom

\* A message extends what was sent in its direction, or nobody gets it.
LEMMA CutMessage ==
  ASSUME sent \in [{0, 1} -> Seq(S!Frame)], NEW d \in {0, 1}, NEW pcm \in Seq(S!Frame), S!SendFrame(d, pcm),
         NEW all, NEW front \in Nat, CutFrom(sent[d], all, front, Attached),
         \A j \in DOMAIN pcm : pcm[j] = all[front + j]
  PROVE  CutFrom(sent'[d], all, front + Len(pcm), Attached')
<1>1. sent[d] \in Seq(S!Frame) /\ Len(pcm) \in Nat BY LenProperties
<1>2. CASE viewer \in {"waiting", "accepted"}
  <2>1. viewer' = "accepted" /\ sent' = [sent EXCEPT ![d] = @ \o pcm] BY <1>2 DEF S!SendFrame
  <2>2. Attached = TRUE /\ Attached' = TRUE BY <1>2, <2>1 DEF Attached
  <2> DEFINE u == sent[d] \o pcm
  <2>3. CutFrom(u, all, front + Len(pcm), TRUE)
    <3>1. CutFrom(sent[d], all, front, TRUE) BY <2>2
    <3> QED BY <1>1, <3>1, CutMore
  <2>4. sent' = [sent EXCEPT ![d] = u] BY <2>1
  <2> HIDE DEF u
  <2>5. sent'[d] = u BY <2>4
  <2> QED BY <2>2, <2>3, <2>5
<1>3. CASE viewer \notin {"waiting", "accepted"}
  <2>1. sent' = sent /\ viewer' = "away" BY <1>3 DEF S!SendFrame
  <2>2. Attached' = FALSE BY <2>1 DEF Attached
  <2>3. CutFrom(sent[d], all, front + Len(pcm), FALSE) BY <1>1, CutPast
  <2> QED BY <2>1, <2>2, <2>3
<1> QED BY <1>2, <1>3

LEMMA OtherWay ==
  ASSUME sent \in [{0, 1} -> Seq(S!Frame)], NEW d \in {0, 1}, NEW e \in {0, 1}, d # e,
         NEW pcm \in Seq(S!Frame), S!SendFrame(d, pcm)
  PROVE  /\ sent' \in [{0, 1} -> Seq(S!Frame)] /\ sent'[e] = sent[e] /\ (Attached' => Attached)
<1>1. CASE viewer \in {"waiting", "accepted"}
  <2>1. sent' = [sent EXCEPT ![d] = @ \o pcm] BY <1>1 DEF S!SendFrame
  <2> DEFINE u == sent[d] \o pcm
  <2>2. u \in Seq(S!Frame)
    <3>1. sent[d] \in Seq(S!Frame) OBVIOUS
    <3> QED BY <3>1, ConcatProperties
  <2>3. sent' = [sent EXCEPT ![d] = u] BY <2>1
  <2> HIDE DEF u
  <2>4. sent' \in [{0, 1} -> Seq(S!Frame)] /\ sent'[e] = sent[e] BY <2>2, <2>3
  <2> QED BY <1>1, <2>4 DEF Attached
<1>2. CASE viewer \notin {"waiting", "accepted"}
  <2>1. sent' = sent /\ viewer' = "away" BY <1>2 DEF S!SendFrame
  <2> QED BY <2>1 DEF Attached
<1> QED BY <1>1, <1>2

LEMMA CutPart ==
  ASSUME NEW seq \in Seq(S!Frame), NEW all \in Seq(S!Frame), NEW front \in Nat, front <= Len(all), NEW open,
         CutFrom(seq, all, front, open)
  PROVE  R!PartOf(seq, all)
<1>1. Len(seq) \in Nat /\ Len(all) \in Nat /\ DOMAIN seq = 1..Len(seq) BY LenProperties
<1>2. PICK a \in 0..(front - Len(seq)) : \A j \in DOMAIN seq : seq[j] = all[a + j] BY DEF CutFrom
<1> DEFINE e == a + Len(seq)
           cut == SubSeq(all, a + 1, e)
<1>3. a + 1 \in Int /\ e \in Int /\ e <= Len(all) /\ e - (a + 1) + 1 = Len(seq) /\ a \in Nat BY <1>1, <1>2
<1>4. \A i \in (a + 1)..e : all[i] \in S!Frame
  <2>1. \A i \in (a + 1)..e : i \in 1..Len(all) BY <1>1, <1>3
  <2> HIDE DEF e
  <2> QED BY <2>1, ElementOfSeq
<1>5. /\ cut \in Seq(S!Frame) /\ Len(cut) = (IF a + 1 <= e THEN e - (a + 1) + 1 ELSE 0)
      /\ \A i \in 1..(e - (a + 1) + 1) : cut[i] = all[a + 1 + i - 1]
  <2> HIDE DEF e
  <2> QED BY <1>3, <1>4, SubSeqProperties
<1>6. ~(a + 1 <= e) => Len(seq) = 0 BY <1>1, <1>3
<1> HIDE DEF cut, e
<1>7. Len(cut) = Len(seq) BY <1>1, <1>3, <1>5, <1>6
<1>8. \A i \in 1..Len(cut) : cut[i] = seq[i]
  <2> SUFFICES ASSUME NEW i \in 1..Len(cut) PROVE cut[i] = seq[i] OBVIOUS
  <2>1. i \in DOMAIN seq /\ i \in 1..(e - (a + 1) + 1) /\ a + 1 + i - 1 = a + i BY <1>1, <1>3, <1>7
  <2>2. cut[i] = all[a + i] BY <1>5, <2>1
  <2> QED BY <1>2, <2>1, <2>2
<1>9. cut = seq BY <1>5, <1>7, <1>8, SeqEqual
<1>10. a \in 0..(Len(all) - Len(seq)) BY <1>1, <1>3 DEF e
<1> QED BY <1>9, <1>10 DEF R!PartOf, cut, e

\* Frames and their samples in a sequence of samples.
LEMMA SampleOf ==
  ASSUME NEW f \in Nat, NEW limit \in Nat, NEW r \in 0..(HopSize - 1)
  PROVE  /\ f * HopSize + r \in Nat /\ limit * HopSize \in Nat
         /\ f * HopSize + r < limit * HopSize <=> f < limit
<1>1. f * HopSize \in Nat /\ limit * HopSize \in Nat /\ HopSize \in Nat \ {0} BY SpeechFacts, Times
<1>2. CASE f < limit
  <2>1. f * HopSize + HopSize <= limit * HopSize BY <1>1, <1>2, Monotone
  <2> QED BY <1>1, <1>2, <2>1
<1>3. CASE ~(f < limit)
  <2>1. limit * HopSize <= f * HopSize BY <1>1, <1>3, Order
  <2> QED BY <1>1, <1>3, <2>1
<1> QED BY <1>2, <1>3

LEMMA PaddedFacts ==
  ASSUME TripTypes
  PROVE  /\ R!Padded \in Seq(S!Frame) /\ Len(R!Padded) = R!FileChunks * Total * HopSize
         /\ Len(R!Padded) \in Nat
         /\ \A s \in 1..(R!FileChunks * Total * HopSize) :
              R!Padded[s] = IF s <= R!FileFrames * HopSize THEN Piece(s - 1, "pcm") ELSE S!NoFrame
<1> DEFINE count == R!FileChunks * Total * HopSize
<1>1. count \in Nat
  <2>1. R!FileChunks \in Nat /\ Total \in Nat BY LayoutFacts
  <2>2. R!FileChunks * Total \in Nat BY <2>1, Times
  <2> QED BY <2>2, SpeechFacts, Times
<1>2. R!Padded = [s \in 1..count |-> IF s <= R!FileFrames * HopSize THEN Piece(s - 1, "pcm") ELSE S!NoFrame]
   BY DEF R!Padded, Total, Piece, R!NoFrame, S!NoFrame
<1> HIDE DEF count
<1>3. ASSUME NEW s \in 1..count PROVE Piece(s - 1, "pcm") \in S!Frame /\ S!NoFrame \in S!Frame
  <2>1. s - 1 \in Nat BY <1>1
  <2> QED BY <2>1, FrameFacts DEF Kinds
<1>4. R!Padded \in [1..count -> S!Frame] BY <1>2, <1>3
<1>5. R!Padded \in Seq(S!Frame) /\ Len(R!Padded) = count BY <1>1, <1>4
<1> QED BY <1>1, <1>2, <1>5 DEF count

\* The samples of a frame of the chunk, where the padded input has them.
LEMMA PaddedAt ==
  ASSUME TripTypes, NEW f \in Nat, f < R!FileChunks * Total, NEW r \in 0..(HopSize - 1)
  PROVE  R!Padded[f * HopSize + r + 1]
           = IF f < R!FileFrames THEN Piece(f * HopSize + r, "pcm") ELSE S!NoFrame
<1> DEFINE spot == f * HopSize + r
           frames == R!FileChunks * Total
<1>1. R!FileChunks \in Nat /\ Total \in Nat /\ R!FileFrames \in Nat BY LayoutFacts
<1>2. frames \in Nat BY <1>1, Times
<1>3. spot \in Nat /\ frames * HopSize \in Nat /\ spot < frames * HopSize
  <2> HIDE DEF frames
  <2>1. f < frames BY DEF frames
  <2> QED BY <1>2, <2>1, SampleOf
<1>4. R!FileFrames * HopSize \in Nat /\ (spot < R!FileFrames * HopSize <=> f < R!FileFrames)
   BY <1>1, SampleOf
<1> HIDE DEF spot, frames
<1>5. spot + 1 \in 1..(frames * HopSize) /\ spot + 1 - 1 = spot /\ (spot + 1 <= R!FileFrames * HopSize <=> spot < R!FileFrames * HopSize)
   BY <1>3, <1>4
<1>6. R!Padded[spot + 1] = IF spot < R!FileFrames * HopSize THEN Piece(spot, "pcm") ELSE S!NoFrame
  <2> DEFINE total == frames * HopSize
             limit == R!FileFrames * HopSize
  <2>1. \A i \in 1..total : R!Padded[i] = IF i <= limit THEN Piece(i - 1, "pcm") ELSE S!NoFrame
     BY PaddedFacts DEF frames
  <2>2. spot + 1 \in 1..total /\ spot + 1 - 1 = spot /\ (spot + 1 <= limit <=> spot < limit) BY <1>5
  <2> HIDE DEF total, limit
  <2>3. PICK s \in 1..total : s = spot + 1 BY <2>2
  <2>4. R!Padded[s] = IF s <= limit THEN Piece(s - 1, "pcm") ELSE S!NoFrame BY <2>1
  <2>5. s - 1 = spot /\ (s <= limit <=> spot < limit) BY <1>3, <2>2, <2>3
  <2>6. R!Padded[s] = IF spot < limit THEN Piece(spot, "pcm") ELSE S!NoFrame BY <2>4, <2>5
  <2>7. R!Padded[spot + 1] = IF spot < limit THEN Piece(spot, "pcm") ELSE S!NoFrame BY <2>3, <2>6
  <2> QED BY <2>7 DEF limit
<1> QED BY <1>4, <1>6 DEF spot

\* The PCM of a batch is what the padded input has there.
LEMMA FilledSamples ==
  ASSUME TripTypes, pc = "fill",
         NEW pcm, pcm = R!Samples(R!Filled, R!FramesOf(layout.stft), HopSize),
         NEW front, front = (chunk * Total + batch * layout.stft) * HopSize
  PROVE  /\ pcm \in Seq(S!Frame) /\ front \in Nat
         /\ front + Len(pcm) = (chunk * Total + batch * layout.stft + R!FramesOf(layout.stft)) * HopSize
         /\ \A j \in DOMAIN pcm : pcm[j] = R!Padded[front + j]
<1> DEFINE b == chunk * Total
           p == batch * layout.stft
           c == R!FramesOf(layout.stft)
           real == R!RealFrames
<1>1. /\ DOMAIN dma["audio"] = 0..(layout.stft - 1) /\ b < R!FileFrames /\ b \in Nat
      /\ layout.stft \in Nat \ {0} /\ p < Total /\ R!FileFrames \in Nat /\ Total \in Nat
      /\ R!FileChunks \in Nat /\ \A k \in Nat : k < R!FileChunks <=> k * Total < R!FileFrames
   BY TripStage, LayoutFacts DEF TripTypes, TripStages
<1>2. p \in Nat /\ c \in 0..layout.stft /\ p + c <= Total BY <1>1, TripBatch
<1>3. /\ \A f \in 0..(Total - 1) : f < real <=> b + f < R!FileFrames
      /\ (chunk + 1) * Total = b + Total
   BY <1>1, RealFacts
<1>4. /\ DOMAIN R!Filled = DOMAIN dma["audio"] /\ Typed(R!Filled)
      /\ Marks(R!Filled, 0, p, c, b, real, "pcm")
   BY FilledFacts
<1>5. pcm = S!Samples(R!Filled, c, HopSize) BY TripSamples
<1>6. b + Total <= R!FileChunks * Total /\ R!FileChunks * Total \in Nat
  <2>1. chunk \in Nat BY DEF TripTypes
  <2>2. chunk + 1 <= R!FileChunks BY <1>1, <2>1
  <2>3. (chunk + 1) * Total <= R!FileChunks * Total BY <1>1, <2>1, <2>2, Order
  <2>4. R!FileChunks * Total \in Nat BY <1>1, Times
  <2> QED BY <1>3, <2>3, <2>4
<1> HIDE DEF b, p, c, real
<1>7. Covers(R!Filled, c) /\ c \in Nat
  <2>1. \A f \in 0..(c - 1) : f \in 0..(layout.stft - 1)
    <3>1. layout.stft \in Nat /\ c \in Nat /\ c <= layout.stft BY <1>1, <1>2
    <3> QED BY <3>1
  <2>2. DOMAIN R!Filled = 0..(layout.stft - 1) BY <1>1, <1>4
  <2>3. Covers(R!Filled, c) BY <2>1, <2>2 DEF Covers
  <2>4. c \in Nat BY <1>1, <1>2
  <2> QED BY <2>3, <2>4
<1>8. pcm \in Seq(S!Frame) /\ Len(pcm) = c * HopSize
  <2>1. /\ S!Samples(R!Filled, c, HopSize) \in Seq(S!Frame)
        /\ Len(S!Samples(R!Filled, c, HopSize)) = c * HopSize
     BY <1>4, <1>7, SamplesType
  <2> QED BY <1>5, <2>1
<1>9. front = (b + p) * HopSize BY DEF b, p
<1>10. /\ front \in Nat /\ c * HopSize \in Nat /\ front + c * HopSize = (b + p + c) * HopSize
   BY <1>1, <1>2, <1>7, <1>9, SpeechFacts, Times
<1>11. ASSUME NEW j \in DOMAIN pcm PROVE pcm[j] = R!Padded[front + j]
  <2> DEFINE f == (j - 1) \div HopSize
             r == (j - 1) % HopSize
  <2>1. j \in 1..(c * HopSize) BY <1>8, LenProperties
  <2>2. j - 1 \in Nat /\ j - 1 < c * HopSize BY <1>10, <2>1
  <2>3. f \in 0..(c - 1) BY <1>7, <2>2, Under, SpeechFacts
  <2>4. r \in 0..(HopSize - 1) /\ j - 1 = f * HopSize + r BY <2>2, DivMod, SpeechFacts
  <2>5. pcm[j] = IF R!Filled[f].by = "nothing" THEN S!NoFrame
                 ELSE [R!Filled[f] EXCEPT !.at = @ + r]
     BY <1>5, <2>1 DEF S!Samples
  <2> HIDE DEF f, r
  <2>6. f \in Nat /\ 0 + f = f /\ p + f \in 0..(Total - 1) /\ b + p + f \in Nat /\ b + (p + f) = b + p + f
     BY <1>1, <1>2, <2>3
  <2>7. R!Filled[f] = IF p + f < real THEN Piece((b + p + f) * HopSize, "pcm") ELSE S!NoFrame
    <3>1. R!Filled[0 + f] = Mark(b, real, p + f, "pcm") BY <1>4, <2>3 DEF Marks
    <3> QED BY <2>6, <3>1 DEF Mark
  <2>8. p + f < real <=> b + p + f < R!FileFrames BY <1>3, <2>6
  <2>9. b + p + f < R!FileChunks * Total BY <1>1, <1>2, <1>6, <2>6
  <2>10. R!Padded[(b + p + f) * HopSize + r + 1]
           = IF b + p + f < R!FileFrames THEN Piece((b + p + f) * HopSize + r, "pcm") ELSE S!NoFrame
     BY <2>4, <2>6, <2>9, PaddedAt
  <2>11. (b + p + f) * HopSize + r + 1 = front + j
    <3>1. (b + p + f) * HopSize = (b + p) * HopSize + f * HopSize
      <4>1. b + p \in Int /\ f \in Int BY <1>1, <1>2, <2>6
      <4> QED BY <4>1, SpeechFacts, Times
    <3>2. f * HopSize \in Int /\ r \in Int BY <2>4, <2>6, SpeechFacts, Times
    <3>3. j \in Int BY <1>10, <2>1
    <3> QED BY <1>9, <1>10, <2>4, <3>1, <3>2, <3>3
  <2>12. (b + p + f) * HopSize \in Nat /\ r \in Nat BY <2>4, <2>6, SpeechFacts, Times
  <2>13. ASSUME NEW x \in Nat
         PROVE  /\ Piece(x, "pcm").by = "pcm" /\ [Piece(x, "pcm") EXCEPT !.at = @ + r] = Piece(x + r, "pcm")
                /\ S!NoFrame.by = "nothing"
     BY DEF Piece, S!NoFrame
  <2>14. CASE p + f < real
    <3>1. pcm[j] = Piece((b + p + f) * HopSize + r, "pcm") BY <2>5, <2>7, <2>12, <2>13, <2>14
    <3> QED BY <2>8, <2>10, <2>11, <2>14, <3>1
  <2>15. CASE ~(p + f < real)
    <3>1. pcm[j] = S!NoFrame BY <2>5, <2>7, <2>12, <2>13, <2>15
    <3> QED BY <2>8, <2>10, <2>11, <2>15, <3>1
  <2> QED BY <2>14, <2>15
<1> QED BY <1>8, <1>10, <1>11 DEF b, p, c

\* A step that sends nothing, and leaves the fronts where they are.
LEMMA TripQuietSent ==
  ASSUME TripSent, pc \notin {"saved", "failed"}, sent' = sent, viewer' = viewer \/ viewer' \in {"away", "left"},
         out \in Seq(S!Frame), \A i \in DOMAIN out : out'[i] = out[i],
         TripFront(1) \in Nat, TripFront(1) <= Len(out), TripFront(1)' = TripFront(1),
         R!Padded' = R!Padded, R!Uneven' <=> R!Uneven,
         R!Uneven => TripFront(0) \in Int /\ TripFront(0)' = TripFront(0)
  PROVE  TripSent'
<1>1. /\ sent \in [{0, 1} -> Seq(S!Frame)] /\ sent[0] \in Seq(S!Frame) /\ sent[1] \in Seq(S!Frame)
      /\ CutFrom(sent[1], out, TripFront(1), Attached)
      /\ R!Uneven => CutFrom(sent[0], R!Padded, TripFront(0), Attached)
   BY DEF TripSent
<1>2. (Attached' => Attached) /\ Attached \in BOOLEAN /\ Attached' \in BOOLEAN BY DEF Attached
<1>3. \A i \in 1..TripFront(1) : out'[i] = out[i]
  <2>1. DOMAIN out = 1..Len(out) /\ Len(out) \in Nat BY LenProperties
  <2> QED BY <2>1
<1>4. CutFrom(sent[1], out', TripFront(1), Attached')
  <2> DEFINE front == TripFront(1)
             open == Attached
  <2>1. front \in Int OBVIOUS
  <2> HIDE DEF front, open
  <2>2. Alike(out', out, front) BY <1>3 DEF front, Alike
  <2>3. open \in BOOLEAN /\ (Attached' => open) /\ CutFrom(sent[1], out, front, open) BY <1>1, <1>2 DEF front, open
  <2>4. CutFrom(sent[1], out', front, Attached') BY <1>1, <1>2, <2>1, <2>2, <2>3, CutStays
  <2> QED BY <2>4 DEF front
<1>5. R!Uneven => CutFrom(sent[0], R!Padded, TripFront(0), Attached')
  <2> SUFFICES ASSUME R!Uneven PROVE CutFrom(sent[0], R!Padded, TripFront(0), Attached') OBVIOUS
  <2> DEFINE front == TripFront(0)
             open == Attached
             all == R!Padded
  <2>1. front \in Int OBVIOUS
  <2> HIDE DEF front, open, all
  <2>2. Alike(all, all, front) BY DEF Alike
  <2>3. open \in BOOLEAN /\ (Attached' => open) /\ CutFrom(sent[0], all, front, open)
     BY <1>1, <1>2 DEF front, open, all
  <2>4. CutFrom(sent[0], all, front, Attached') BY <1>1, <1>2, <2>1, <2>2, <2>3, CutStays
  <2> QED BY <2>4 DEF front, all
<1>6. sent' = sent /\ sent'[0] = sent[0] /\ sent'[1] = sent[1] OBVIOUS
<1>7. CutFrom(sent'[1], out', TripFront(1)', Attached') BY <1>4, <1>6
<1>8. R!Uneven' => CutFrom(sent'[0], R!Padded', TripFront(0)', Attached') BY <1>5, <1>6
<1>9. sent' \in [{0, 1} -> Seq(S!Frame)] BY <1>1, <1>6
<1> QED BY <1>7, <1>8, <1>9 DEF TripSent

LEMMA SamePadded ==
  ASSUME UNCHANGED <<layout, n>>
  PROVE  R!Padded' = R!Padded /\ (R!Uneven' <=> R!Uneven)
BY DEF R!Padded, R!Uneven, R!FileChunks, R!FileFrames

\* The fronts are within what is cut.
LEMMA TripFronts ==
  ASSUME TripTypes, TripOut, pc \in TripStages \cup {"save"}
  PROVE  /\ TripFront(1) \in Nat /\ TripFront(1) <= Len(out) /\ Len(out) \in Nat
         /\ TripFront(0) \in Nat /\ TripFront(0) <= Len(R!Padded)
<1>1. Len(out) \in Nat BY LenProperties DEF TripOut
<1>2. TripFront(1) \in Nat /\ TripFront(1) <= Len(out)
  <2>1. pc = "send" => taken \in Nat /\ taken <= Len(out) BY DEF TripOut, TripTypes
  <2> QED BY <1>1, <2>1 DEF TripFront
<1>3. /\ Total \in Nat \ {0} /\ layout.stft \in Nat \ {0} /\ R!FileChunks \in Nat /\ chunk \in Nat
      /\ \A k \in Nat : k < R!FileChunks <=> k * Total < R!FileFrames
   BY LayoutFacts DEF TripTypes
<1> DEFINE limit == R!FileChunks * Total
<1>4. limit \in Nat /\ Len(R!Padded) = limit * HopSize
  <2>1. limit \in Nat BY <1>3, Times
  <2> QED BY <2>1, PaddedFacts
<1> HIDE DEF limit
<1>5. ASSUME NEW f \in Nat, f <= limit PROVE f * HopSize \in Nat /\ f * HopSize <= Len(R!Padded)
   BY <1>4, <1>5, SpeechFacts, Times, Order
<1>6. CASE pc = "save"
  <2>1. chunk = R!FileChunks BY <1>6 DEF TripOut
  <2>2. chunk * Total \in Nat /\ chunk * Total <= limit BY <1>4, <2>1 DEF limit
  <2>3. TripFront(0) = chunk * Total * HopSize BY <1>6 DEF TripFront
  <2> QED BY <1>1, <1>2, <1>5, <2>2, <2>3
<1>7. CASE pc # "save"
  <2>1. chunk * Total < R!FileFrames /\ chunk * Total \in Nat /\ (chunk + 1) * Total = chunk * Total + Total
     BY <1>7, TripStage, RealFacts
  <2>2. chunk * Total + Total <= limit
    <3>1. chunk + 1 <= R!FileChunks /\ chunk + 1 \in Nat BY <1>3, <2>1
    <3>2. (chunk + 1) * Total <= R!FileChunks * Total BY <1>3, <3>1, Order
    <3> QED BY <2>1, <3>2 DEF limit
  <2> DEFINE b == chunk * Total
             p == batch * layout.stft
             c == R!FramesOf(layout.stft)
  <2>3. CASE pc \in {"fill", "stft"}
    <3>1. p < Total BY <2>3 DEF TripTypes
    <3>2. p \in Nat /\ c \in Nat /\ p + c <= Total
      <4>1. p \in Nat /\ c \in 0..layout.stft /\ p + c <= Total BY <1>3, <3>1, TripBatch
      <4> QED BY <1>3, <4>1
    <3>3. TripFront(0) = (IF pc = "fill" THEN b + p ELSE b + p + c) * HopSize BY <2>3 DEF TripFront
    <3> HIDE DEF b, p, c
    <3>4. b \in Nat /\ b + Total <= limit BY <2>1, <2>2 DEF b
    <3>5. b + p \in Nat /\ b + p + c \in Nat /\ b + p <= limit /\ b + p + c <= limit BY <1>3, <1>4, <3>2, <3>4
    <3> QED BY <1>1, <1>2, <1>5, <3>3, <3>5
  <2>4. CASE pc \notin {"fill", "stft"}
    <3>1. TripFront(0) = (chunk + 1) * Total * HopSize BY <1>7, <2>4 DEF TripFront, TripStages
    <3>2. (chunk + 1) * Total \in Nat /\ (chunk + 1) * Total <= limit BY <1>3, <2>1, <2>2
    <3> QED BY <1>1, <1>2, <1>5, <3>1, <3>2
  <2> QED BY <2>3, <2>4
<1> QED BY <1>6, <1>7

LEMMA TripFillSent ==
  ASSUME TripTypes, TripOut, TripSent, R!Fill
  PROVE  TripSent'
<1> DEFINE pcm == R!Samples(R!Filled, R!FramesOf(layout.stft), HopSize)
           front == (chunk * Total + batch * layout.stft) * HopSize
<1>1. /\ pc = "fill" /\ pc' = "stft" /\ UNCHANGED <<layout, n, chunk, batch, taken, out>>
      /\ S!SendFrame(0, pcm)
  <2>1. R!SendFrame(0, pcm) BY DEF R!Fill
  <2> QED BY <2>1, TripSends DEF R!Fill
<1>2. /\ pcm \in Seq(S!Frame) /\ front \in Nat
      /\ front + Len(pcm) = (chunk * Total + batch * layout.stft + R!FramesOf(layout.stft)) * HopSize
      /\ \A j \in DOMAIN pcm : pcm[j] = R!Padded[front + j]
   BY <1>1, FilledSamples
<1>3. TripFront(0) = front /\ TripFront(1) = Len(out) BY <1>1 DEF TripFront
<1>4. TripFront(0)' = front + Len(pcm) /\ TripFront(1)' = Len(out) /\ out' = out
   BY <1>1, <1>2 DEF TripFront, Total, R!FramesOf
<1> HIDE DEF pcm, front
<1>5. R!Padded' = R!Padded /\ (R!Uneven' <=> R!Uneven) BY <1>1, SamePadded
<1>6. /\ sent \in [{0, 1} -> Seq(S!Frame)] /\ sent[1] \in Seq(S!Frame)
      /\ CutFrom(sent[1], out, Len(out), Attached)
      /\ R!Uneven => CutFrom(sent[0], R!Padded, front, Attached)
   BY <1>1, <1>3 DEF TripSent
<1>7. sent' \in [{0, 1} -> Seq(S!Frame)] /\ sent'[1] = sent[1] /\ (Attached' => Attached)
   BY <1>1, <1>2, <1>6, OtherWay
<1>8. CutFrom(sent'[1], out', TripFront(1)', Attached')
  <2>1. Attached \in BOOLEAN /\ Attached' \in BOOLEAN BY DEF Attached
  <2>2. Len(out) \in Int BY LenProperties DEF TripOut
  <2> DEFINE open == Attached
  <2> HIDE DEF open
  <2>3. open \in BOOLEAN /\ (Attached' => open) /\ CutFrom(sent[1], out, Len(out), open) BY <1>6, <1>7, <2>1 DEF open
  <2>4. Alike(out, out, Len(out)) BY DEF Alike
  <2>5. CutFrom(sent[1], out, Len(out), Attached') BY <1>6, <2>1, <2>2, <2>3, <2>4, CutStays
  <2> QED BY <1>4, <1>7, <2>5
<1>9. R!Uneven => CutFrom(sent'[0], R!Padded, front + Len(pcm), Attached')
  <2> SUFFICES ASSUME R!Uneven PROVE CutFrom(sent'[0], R!Padded, front + Len(pcm), Attached') OBVIOUS
  <2> DEFINE all == R!Padded
  <2>1. CutFrom(sent[0], all, front, Attached) /\ \A j \in DOMAIN pcm : pcm[j] = all[front + j] BY <1>2, <1>6
  <2> HIDE DEF all
  <2>2. CutFrom(sent'[0], all, front + Len(pcm), Attached') BY <1>1, <1>2, <1>6, <2>1, CutMessage
  <2> QED BY <2>2 DEF all
<1>10. R!Uneven' => CutFrom(sent'[0], R!Padded', TripFront(0)', Attached') BY <1>4, <1>5, <1>9
<1> QED BY <1>7, <1>8, <1>10 DEF TripSent

LEMMA TripSendSent ==
  ASSUME TripTypes, TripOut, TripSent, R!Send
  PROVE  TripSent'
<1> DEFINE front == Len(out) - taken
           pcm == SubSeq(out, front + 1, Len(out))
<1>1. /\ pc = "send" /\ pc' \in {"istft", "next"} /\ UNCHANGED <<layout, n, chunk, out>>
      /\ S!SendFrame(1, pcm)
  <2>1. R!SendFrame(1, pcm) BY DEF R!Send
  <2> QED BY <2>1, TripSends DEF R!Send, R!Onward
<1>2. /\ out \in Seq(S!Frame) /\ Len(out) \in Nat /\ taken \in Nat /\ taken <= Len(out) /\ front \in Nat
   BY <1>1, LenProperties DEF TripOut, TripTypes
<1>3. pcm \in Seq(S!Frame) /\ Len(pcm) = taken /\ \A j \in DOMAIN pcm : pcm[j] = out[front + j]
  <2>1. /\ front + 1 \in Int /\ Len(out) \in Int /\ Len(out) - (front + 1) + 1 = taken
        /\ \A i \in (front + 1)..Len(out) : i \in 1..Len(out)
        /\ ~(front + 1 <= Len(out)) => taken = 0
     BY <1>2
  <2>2. \A i \in (front + 1)..Len(out) : out[i] \in S!Frame BY <1>2, <2>1, ElementOfSeq
  <2> HIDE DEF front
  <2>3. /\ pcm \in Seq(S!Frame)
        /\ Len(pcm) = (IF front + 1 <= Len(out) THEN Len(out) - (front + 1) + 1 ELSE 0)
        /\ \A i \in 1..(Len(out) - (front + 1) + 1) : pcm[i] = out[front + 1 + i - 1]
     BY <2>1, <2>2, SubSeqProperties
  <2> HIDE DEF pcm
  <2>4. Len(pcm) = taken /\ DOMAIN pcm = 1..taken BY <2>1, <2>3, LenProperties
  <2>5. ASSUME NEW j \in DOMAIN pcm PROVE pcm[j] = out[front + j]
    <3>1. j \in 1..(Len(out) - (front + 1) + 1) /\ front + 1 + j - 1 = front + j BY <1>2, <2>1, <2>4
    <3>2. pcm[j] = out[front + 1 + j - 1] BY <2>3, <3>1
    <3> QED BY <3>1, <3>2
  <2> QED BY <2>3, <2>4, <2>5
<1>4. TripFront(1) = front /\ TripFront(0) = (chunk + 1) * Total * HopSize BY <1>1 DEF TripFront
<1>5. TripFront(1)' = Len(out) /\ TripFront(0)' = TripFront(0) BY <1>1, <1>4 DEF TripFront, Total
<1>6. front + Len(pcm) = Len(out) BY <1>2, <1>3
<1> HIDE DEF pcm, front
<1>7. R!Padded' = R!Padded /\ (R!Uneven' <=> R!Uneven) BY <1>1, SamePadded
<1>8. /\ sent \in [{0, 1} -> Seq(S!Frame)] /\ sent[0] \in Seq(S!Frame)
      /\ CutFrom(sent[1], out, front, Attached)
      /\ R!Uneven => CutFrom(sent[0], R!Padded, TripFront(0), Attached)
   BY <1>1, <1>4 DEF TripSent
<1>9. sent' \in [{0, 1} -> Seq(S!Frame)] /\ sent'[0] = sent[0] /\ (Attached' => Attached)
   BY <1>1, <1>3, <1>8, OtherWay
<1>10. CutFrom(sent'[1], out', TripFront(1)', Attached')
  <2>1. CutFrom(sent'[1], out, front + Len(pcm), Attached') BY <1>1, <1>2, <1>3, <1>8, CutMessage
  <2> QED BY <1>1, <1>5, <1>6, <2>1
<1>11. R!Uneven' => CutFrom(sent'[0], R!Padded', TripFront(0)', Attached')
  <2> SUFFICES ASSUME R!Uneven PROVE CutFrom(sent[0], R!Padded, TripFront(0), Attached')
     BY <1>5, <1>7, <1>9
  <2>1. Attached \in BOOLEAN /\ Attached' \in BOOLEAN BY DEF Attached
  <2>2. TripFront(0) \in Int BY <1>1, TripFronts DEF TripStages
  <2> DEFINE open == Attached
             all == R!Padded
             at0 == TripFront(0)
  <2> HIDE DEF open, all, at0
  <2>3. open \in BOOLEAN /\ (Attached' => open) /\ CutFrom(sent[0], all, at0, open) /\ at0 \in Int
     BY <1>8, <1>9, <2>1, <2>2 DEF open, all, at0
  <2>4. Alike(all, all, at0) BY DEF Alike
  <2>5. CutFrom(sent[0], all, at0, Attached') BY <1>8, <2>1, <2>3, <2>4, CutStays
  <2> QED BY <2>5 DEF all, at0
<1> QED BY <1>9, <1>10, <1>11 DEF TripSent

\* The other steps send nothing, and the fronts stay.
LEMMA TripRestSent ==
  ASSUME TripTypes, TripBuffers, TripOut, TripSent,
         R!Stft \/ R!Deinterleave \/ R!Interleave \/ R!Istft \/ R!NextChunk
  PROVE  TripSent'
<1>1. /\ pc \in {"stft", "deinterleave", "interleave", "istft", "next"}
      /\ pc' \in {"fill", "deinterleave", "interleave", "istft", "send", "save"}
      /\ UNCHANGED <<layout, n, viewer, sent>>
  <2>1. CASE R!Stft BY <2>1 DEF R!Stft, R!Onward, R!stream
  <2>2. CASE R!Deinterleave BY <2>2 DEF R!Deinterleave, R!stream
  <2>3. CASE R!Interleave BY <2>3 DEF R!Interleave, R!stream
  <2>4. CASE R!Istft BY <2>4 DEF R!Istft, R!stream
  <2>5. CASE R!NextChunk BY <2>5 DEF R!NextChunk, R!stream
  <2> QED BY <2>1, <2>2, <2>3, <2>4, <2>5
<1>2. /\ TripFront(1) \in Nat /\ TripFront(1) <= Len(out) /\ Len(out) \in Nat /\ TripFront(0) \in Nat
      /\ out \in Seq(S!Frame)
   BY <1>1, TripFronts DEF TripStages, TripOut
<1>3. TripFront(1) = Len(out) BY <1>1 DEF TripFront
<1>4. R!Padded' = R!Padded /\ (R!Uneven' <=> R!Uneven) BY <1>1, SamePadded
<1>5. (\A i \in DOMAIN out : out'[i] = out[i]) /\ TripFront(1)' = TripFront(1)
  <2>1. CASE R!Istft
    <3>1. pc' = "send" BY <2>1 DEF R!Istft
    <3>2. Len(out') = Len(out) + taken' /\ (\A i \in DOMAIN out : out'[i] = out[i]) /\ TripTypes'
       BY <2>1, TripIstftOut, TripIstftKeeps
    <3>3. TripFront(1)' = Len(out') - taken' BY <3>1 DEF TripFront
    <3>4. taken' \in Nat BY <3>2 DEF TripTypes
    <3> QED BY <1>2, <1>3, <3>2, <3>3, <3>4
  <2>2. CASE R!Stft \/ R!Deinterleave \/ R!Interleave \/ R!NextChunk
    <3>1. out' = out /\ pc' # "send" BY <2>2 DEF R!Stft, R!Onward, R!Deinterleave, R!Interleave, R!NextChunk
    <3>2. TripFront(1)' = Len(out') BY <3>1 DEF TripFront
    <3> QED BY <1>3, <3>1, <3>2
  <2> QED BY <2>1, <2>2
<1>6. R!Uneven => TripFront(0)' = TripFront(0)
  <2> SUFFICES ASSUME R!Uneven PROVE TripFront(0)' = TripFront(0) OBVIOUS
  <2>1. Total' = Total /\ Total \in Nat \ {0} /\ layout.stft \in Nat \ {0} /\ chunk \in Nat
     BY <1>1, LayoutFacts DEF Total, TripTypes
  <2>2. CASE R!Stft
    <3> DEFINE b == chunk * Total
               p == batch * layout.stft
               c == R!FramesOf(layout.stft)
    <3>1. /\ pc = "stft" /\ UNCHANGED <<chunk, layout>>
          /\ \/ batch + 1 < R!Batches(layout.total, layout.stft) /\ batch' = batch + 1 /\ pc' = "fill"
             \/ ~(batch + 1 < R!Batches(layout.total, layout.stft)) /\ batch' = 0 /\ pc' = "deinterleave"
       BY <2>2 DEF R!Stft, R!Onward
    <3>2. p < Total BY <3>1 DEF TripTypes
    <3>3. /\ p \in Nat /\ c \in Nat
          /\ batch + 1 < R!Batches(layout.total, layout.stft) => p + c = (batch + 1) * layout.stft
          /\ ~(batch + 1 < R!Batches(layout.total, layout.stft)) => p + c = Total
      <4>1. p \in Nat /\ c \in 0..layout.stft
            /\ (batch + 1 < R!Batches(layout.total, layout.stft) => p + c = (batch + 1) * layout.stft)
            /\ (~(batch + 1 < R!Batches(layout.total, layout.stft)) /\ Total % layout.stft # 0 => p + c = Total)
         BY <2>1, <3>2, TripBatch
      <4>2. Total % layout.stft # 0 BY DEF R!Uneven, Total
      <4> HIDE DEF p, c
      <4> QED BY <2>1, <4>1, <4>2
    <3>4. TripFront(0) = (b + p + c) * HopSize BY <3>1 DEF TripFront
    <3>5. b \in Nat /\ (chunk + 1) * Total = b + Total BY <2>1, Times
    <3>6. CASE batch + 1 < R!Batches(layout.total, layout.stft)
      <4>1. TripFront(0)' = (chunk' * Total' + batch' * layout'.stft) * HopSize BY <3>1, <3>6 DEF TripFront
      <4>2. TripFront(0)' = (b + (p + c)) * HopSize BY <2>1, <3>1, <3>3, <3>6, <4>1
      <4> HIDE DEF b, p, c
      <4>3. b + (p + c) = b + p + c BY <3>3, <3>5
      <4> QED BY <3>4, <4>2, <4>3
    <3>7. CASE ~(batch + 1 < R!Batches(layout.total, layout.stft))
      <4>1. TripFront(0)' = (chunk' + 1) * Total' * HopSize BY <3>1, <3>7 DEF TripFront
      <4>2. TripFront(0)' = (b + Total) * HopSize BY <2>1, <3>1, <3>5, <4>1
      <4> HIDE DEF b, p, c
      <4>3. b + Total = b + p + c BY <3>3, <3>5, <3>7
      <4> QED BY <3>4, <4>2, <4>3
    <3> QED BY <3>6, <3>7
  <2>3. CASE R!Deinterleave \/ R!Interleave \/ R!Istft
    <3>1. /\ pc \in {"deinterleave", "interleave", "istft"} /\ pc' \in {"interleave", "istft", "send"}
          /\ chunk' = chunk
       BY <2>3 DEF R!Deinterleave, R!Interleave, R!Istft
    <3> QED BY <2>1, <3>1 DEF TripFront
  <2>4. CASE R!NextChunk
    <3>1. /\ pc = "next" /\ pc' \in {"fill", "save"} /\ chunk' = chunk + 1 /\ batch' = batch /\ batch = 0
          /\ layout' = layout
       BY <2>4 DEF R!NextChunk, TripTypes
    <3>2. TripFront(0) = (chunk + 1) * Total * HopSize BY <3>1 DEF TripFront
    <3>3. batch' * layout'.stft = 0 /\ (chunk + 1) * Total + 0 = (chunk + 1) * Total
      <4>1. (chunk + 1) * Total \in Int
        <5>1. chunk + 1 \in Int BY <2>1
        <5> QED BY <2>1, <5>1, Times
      <4>2. 0 * layout.stft = 0 BY <2>1
      <4> QED BY <3>1, <4>1, <4>2
    <3>4. CASE pc' = "fill"
      <4>1. TripFront(0)' = (chunk' * Total' + batch' * layout'.stft) * HopSize BY <3>4 DEF TripFront
      <4> QED BY <2>1, <3>1, <3>2, <3>3, <4>1
    <3>5. CASE pc' = "save"
      <4>1. TripFront(0)' = chunk' * Total' * HopSize BY <3>5 DEF TripFront
      <4> QED BY <2>1, <3>1, <3>2, <4>1
    <3> QED BY <3>1, <3>4, <3>5
  <2> QED BY <2>2, <2>3, <2>4
<1> QED BY <1>1, <1>2, <1>4, <1>5, <1>6, TripQuietSent

LEMMA TripKeeps ==
  ASSUME TripInv, R!Step \/ R!StageFails
  PROVE  TripInv'
<1> USE DEF TripInv
<1>1. CASE R!Fill BY <1>1, FillKeeps, QuietTripOut, TripFillSent
<1>2. CASE R!Stft BY <1>2, TripStftKeeps, QuietTripOut, TripRestSent
<1>3. CASE R!Deinterleave BY <1>3, TripDeinterleaveKeeps, QuietTripOut, TripRestSent
<1>4. CASE R!Interleave BY <1>4, TripInterleaveKeeps, QuietTripOut, TripRestSent
<1>5. CASE R!Istft BY <1>5, TripIstftKeeps, TripIstftOut, TripRestSent
<1>6. CASE R!Send BY <1>6, TripSendKeeps, TripSendSent
<1>7. CASE R!NextChunk BY <1>7, TripNextKeeps, TripRestSent
<1>8. CASE R!TooFew \/ R!Save \/ R!StageFails
  <2>1. pc' \in {"saved", "failed"} BY <1>8 DEF R!TooFew, R!Save, R!StageFails
  <2> QED BY <1>8, <2>1, TripSaveKeeps, TripEndsKeep DEF TripSent
<1> QED BY <1>1, <1>2, <1>3, <1>4, <1>5, <1>6, <1>7, <1>8 DEF R!Step

\* Nobody was sent anything yet.
LEMMA CutNothing ==
  ASSUME NEW all, NEW front \in Nat, NEW open
  PROVE  CutFrom(<<>>, all, front, open)
<1>1. Len(<<>>) = 0 /\ DOMAIN <<>> = {} BY EmptySeq
<1>2. 0 \in 0..(front - Len(<<>>)) BY <1>1
<1> QED BY <1>1, <1>2 DEF CutFrom

LEMMA TripBegins ==
  ASSUME Fresh, pc = "start"
  PROVE  TripInv
<1>1. /\ n = 0 /\ chunk = 0 /\ batch = 0 /\ out = <<>> /\ layout = R!NoLayout /\ dma = R!NoDma
      /\ left = 0 /\ taken = 0 /\ sent = S!Nothing
   BY DEF Fresh
<1>2. DOMAIN dma = DmaNames /\ \A b \in DmaNames : Typed(dma[b])
  <2>1. DOMAIN dma = DmaNames /\ \A b \in DmaNames : dma[b] = R!Blank(0) BY <1>1 DEF R!NoDma, DmaNames
  <2>2. Typed(R!Blank(0)) BY DEF R!Blank, Typed
  <2> QED BY <2>1, <2>2
<1>3. TripTypes BY <1>1, <1>2 DEF TripTypes, TripStages
<1>4. TripBuffers BY DEF TripBuffers
<1>5. out \in Seq(S!Frame) /\ Len(out) = 0 BY <1>1, EmptySeq
<1>6. TripOut BY <1>5 DEF TripOut, TripStages, R!Restored
<1>7. TripFront(1) = 0 /\ TripFront(0) = 0
  <2>1. TripFront(1) = Len(out) /\ TripFront(0) = 0 * Total * HopSize BY <1>1 DEF TripFront
  <2>2. Total \in Nat BY <1>3, LayoutFacts
  <2>3. 0 * Total = 0 /\ 0 * HopSize = 0 BY <2>2, SpeechFacts
  <2> QED BY <1>5, <2>1, <2>3
<1>8. TripSent
  <2>1. sent \in [{0, 1} -> Seq(S!Frame)] /\ sent[0] = <<>> /\ sent[1] = <<>> BY <1>1, NothingSent
  <2>2. 0 \in Nat OBVIOUS
  <2> QED BY <1>7, <2>1, <2>2, CutNothing DEF TripSent
<1> QED BY <1>3, <1>4, <1>6, <1>8 DEF TripInv

LEMMA NoneOf == ASSUME NEW d \in Nat PROVE 0 * d = 0
OBVIOUS

LEMMA NoBatches ==
  ASSUME NEW total \in Nat, NEW size \in Nat \ {0}
  PROVE  S!Batches(total, size) \in Nat /\ (0 < S!Batches(total, size) <=> 0 < total)
<1>1. 0 * size = 0 /\ 0 \in Nat BY NoneOf
<1> QED BY <1>1, BatchesOf

LEMMA TripStarts ==
  ASSUME Fresh, R!Start
  PROVE  TripInv'
<1>1. /\ layout' \in Layouts /\ n' \in Lengths /\ dma' = [b \in DOMAIN R!NoDma |-> R!Blank(R!SizeOf(b, layout'))]
      /\ pc' = (IF n' = 0 THEN "save" ELSE "fill")
      /\ UNCHANGED <<chunk, batch, left, taken, out, sent, viewer>>
   BY DEF R!Start, R!stream
<1>2. chunk = 0 /\ batch = 0 /\ out = <<>> /\ left = 0 /\ taken = 0 /\ sent = S!Nothing BY DEF Fresh
<1>3. /\ n' \in Nat /\ Total' \in Nat \ {0} /\ layout'.stft \in Nat \ {0} /\ layout'.istft \in Nat \ {0}
  <2>1. n' \in Nat BY <1>1, PipelinesAssumption
  <2>2. layout' \in [total : Nat \ {0}, stft : Nat \ {0}, istft : Nat \ {0}] BY <1>1, PipelinesAssumption
  <2> QED BY <2>1, <2>2 DEF Total
<1>4. /\ DOMAIN dma' = DmaNames
      /\ \A b \in DmaNames : Typed(dma'[b]) /\ DOMAIN dma'[b] = 0..(R!SizeOf(b, layout') - 1)
  <2>1. DOMAIN R!NoDma = DmaNames BY DEF R!NoDma, DmaNames
  <2>2. ASSUME NEW size PROVE Typed(S!Blank(size)) /\ DOMAIN S!Blank(size) = 0..(size - 1)
    <3>1. /\ DOMAIN S!Blank(size) = 0..(size - 1)
          /\ \A f \in DOMAIN S!Blank(size) : S!Blank(size)[f] = S!NoFrame
       BY BlankFacts
    <3>2. \A f \in 0..(size - 1) : f \in Int OBVIOUS
    <3>3. S!NoFrame \in S!Frame BY FrameFacts
    <3> QED BY <3>1, <3>2, <3>3 DEF Typed
  <2>3. ASSUME NEW b \in DmaNames PROVE dma'[b] = S!Blank(R!SizeOf(b, layout'))
     BY <1>1, <2>1, TripSame
  <2> QED BY <1>1, <2>1, <2>2, <2>3
<1>5. (0 < n' => 0 < R!FileFrames') /\ (n' = 0 => R!FileFrames' = 0 /\ R!FileChunks' = 0)
  <2>1. R!FileFrames' = S!Batches(n', HopSize) /\ R!FileChunks' = S!Batches(R!FileFrames', Total')
     BY TripSame DEF R!FileFrames, R!FileChunks, Total
  <2>2. HopSize \in Nat \ {0} BY SpeechFacts
  <2>3. R!FileFrames' \in Nat /\ (0 < R!FileFrames' <=> 0 < n') BY <1>3, <2>1, <2>2, NoBatches
  <2>4. R!FileChunks' \in Nat /\ (0 < R!FileChunks' <=> 0 < R!FileFrames') BY <1>3, <2>1, <2>3, NoBatches
  <2> QED BY <1>3, <2>3, <2>4
<1>6. chunk' = 0 /\ batch' = 0 /\ 0 * Total' = 0 /\ 0 * layout'.stft = 0 /\ 0 * HopSize = 0 /\ 0 + 0 = 0
  <2>1. Total' \in Nat /\ layout'.stft \in Nat /\ HopSize \in Nat BY <1>3, SpeechFacts
  <2>2. 0 * Total' = 0 /\ 0 * layout'.stft = 0 /\ 0 * HopSize = 0 BY <2>1, NoneOf
  <2> QED BY <1>1, <1>2, <2>2
<1>7. pc' \in {"fill", "save"} /\ (pc' = "fill" => 0 < n') /\ (pc' = "save" => n' = 0) BY <1>1, <1>3
<1>8. TripTypes'
  <2>1. pc' = "fill" => chunk' * Total' < R!FileFrames' /\ batch' * layout'.stft < Total'
     BY <1>3, <1>5, <1>6, <1>7
  <2> QED BY <1>1, <1>2, <1>4, <1>7, <2>1 DEF TripTypes, TripStages
<1>9. TripBuffers'
  <2>1. batch' * layout'.stft = 0 BY <1>6
  <2>2. Marked(dma.spectrum, batch * layout.stft, "stft")' BY <2>1 DEF Marked, Marks
  <2> QED BY <1>7, <2>2 DEF TripBuffers
<1>10. TripOut'
  <2>1. Collected' = 0
    <3>1. CASE pc' = "fill"
      <4>1. Collected' = chunk' * Total' * HopSize BY <3>1 DEF Collected
      <4> QED BY <1>6, <4>1
    <3>2. CASE pc' = "save"
      <4>1. Collected' = R!FileFrames' * HopSize BY <3>2 DEF Collected
      <4> QED BY <1>5, <1>6, <1>7, <3>2, <4>1
    <3> QED BY <1>7, <3>1, <3>2
  <2>2. out' \in Seq(S!Frame) /\ Len(out') = 0 /\ Follows(out', 0, "clean") BY <1>1, <1>2, EmptyFollows
  <2>3. Whole(out', Collected') BY <2>1, <2>2 DEF Whole
  <2>4. pc' = "save" => chunk' = R!FileChunks' BY <1>5, <1>6, <1>7
  <2> QED BY <1>7, <2>2, <2>3, <2>4 DEF TripOut, R!Restored
<1>11. TripSent'
  <2>1. sent' = S!Nothing BY <1>1, <1>2
  <2>2. sent' \in [{0, 1} -> Seq(S!Frame)] /\ sent'[0] = <<>> /\ sent'[1] = <<>>
     BY <2>1, EmptySeq DEF S!Nothing
  <2>3. TripFront(1)' = 0 /\ TripFront(0)' = 0
    <3>1. Len(out') = 0 BY <1>1, <1>2, EmptySeq
    <3>2. TripFront(1)' = Len(out') BY <1>7 DEF TripFront
    <3>3. CASE pc' = "fill"
      <4>1. TripFront(0)' = (chunk' * Total' + batch' * layout'.stft) * HopSize BY <3>3 DEF TripFront
      <4> QED BY <1>6, <3>1, <3>2, <4>1
    <3>4. CASE pc' = "save"
      <4>1. TripFront(0)' = chunk' * Total' * HopSize BY <3>4 DEF TripFront
      <4> QED BY <1>6, <3>1, <3>2, <4>1
    <3> QED BY <1>7, <3>3, <3>4
  <2>4. 0 \in Nat OBVIOUS
  <2>5. CutFrom(sent'[1], out', TripFront(1)', Attached') BY <2>2, <2>3, <2>4, CutNothing
  <2>6. CutFrom(sent'[0], R!Padded', TripFront(0)', Attached') BY <2>2, <2>3, <2>4, CutNothing
  <2> QED BY <2>2, <2>5, <2>6 DEF TripSent
<1> QED BY <1>8, <1>9, <1>10, <1>11 DEF TripInv

LEMMA TripViewed ==
  ASSUME TripInv, pc # "start", S!ViewerConnects \/ S!ViewerReads \/ S!ViewerLeaves, UNCHANGED <<loop, trip>>
  PROVE  TripInv'
<1> USE DEF TripInv
<1>1. UNCHANGED <<n, pc, chunk, batch, out, layout, dma, left, taken>> BY DEF loop, trip
<1>2. /\ R!RealFrames' = R!RealFrames /\ R!FileFrames' = R!FileFrames /\ R!FileChunks' = R!FileChunks
      /\ (R!Uneven' <=> R!Uneven) /\ Total' = Total
   BY <1>1, SameChunk
<1>3. R!FramesOf(layout.stft)' = R!FramesOf(layout.stft) /\ R!FramesOf(layout.istft)' = R!FramesOf(layout.istft)
   BY <1>1 DEF R!FramesOf
<1>4. TripTypes' BY <1>1, <1>2 DEF TripTypes
<1>5. TripBuffers' BY <1>1, <1>2, <1>3 DEF TripBuffers, Marked
<1>6. TripOut'
  <2>1. Synthesised' = Synthesised /\ Collected' = Collected BY <1>1, <1>2, <1>3 DEF Synthesised, Collected
  <2>2. R!Restored' <=> R!Restored BY <1>1, <1>2 DEF R!Restored
  <2> QED BY <1>1, <1>2, <2>1, <2>2 DEF TripOut
<1>7. TripFront(0)' = TripFront(0) /\ TripFront(1)' = TripFront(1) BY <1>1, <1>2, <1>3 DEF TripFront
<1>8. CASE pc \in {"saved", "failed"} BY <1>1, <1>4, <1>5, <1>6, <1>8 DEF TripSent
<1>9. CASE pc \notin {"saved", "failed"}
  <2>1. pc \in TripStages \cup {"save"} BY <1>9 DEF TripTypes
  <2>2. TripFront(1) \in Nat /\ TripFront(1) <= Len(out) /\ TripFront(0) \in Nat BY <2>1, TripFronts
  <2>3. CASE S!ViewerConnects
    <3>1. sent' = S!Nothing BY <2>3 DEF S!ViewerConnects
    <3>2. sent' \in [{0, 1} -> Seq(S!Frame)] /\ sent'[0] = <<>> /\ sent'[1] = <<>>
       BY <3>1, EmptySeq DEF S!Nothing
    <3>3. TripFront(0)' \in Nat /\ TripFront(1)' \in Nat BY <1>7, <2>2
    <3>4. CutFrom(sent'[1], out', TripFront(1)', Attached') BY <3>2, <3>3, CutNothing
    <3>5. CutFrom(sent'[0], R!Padded', TripFront(0)', Attached') BY <3>2, <3>3, CutNothing
    <3>6. TripSent' BY <3>2, <3>4, <3>5 DEF TripSent
    <3> QED BY <1>4, <1>5, <1>6, <3>6
  <2>4. CASE S!ViewerReads \/ S!ViewerLeaves
    <3>1. sent' = sent /\ (viewer' = viewer \/ viewer' \in {"away", "left"})
       BY <2>4 DEF S!ViewerReads, S!ViewerLeaves
    <3>2. out \in Seq(S!Frame) /\ \A i \in DOMAIN out : out'[i] = out[i] BY <1>1 DEF TripOut
    <3>3. R!Padded' = R!Padded BY <1>1, SamePadded
    <3>4. TripSent' BY <1>2, <1>7, <1>9, <2>2, <3>1, <3>2, <3>3, TripQuietSent
    <3> QED BY <1>4, <1>5, <1>6, <3>4
  <2> QED BY <2>3, <2>4
<1> QED BY <1>8, <1>9

TripHeld == Begun("stft_istft") => TripInv

LEMMA TripHolds ==
  ASSUME ManagerInv, TripHeld, Runs("stft_istft")
  PROVE  TripInv
<1>1. pc = "start" => Fresh BY DEF ManagerInv
<1> QED BY <1>1, TripBegins DEF TripHeld, Begun

LEMMA TripInductive ==
  ManagerInv /\ TripHeld /\ [Next]_vars => TripHeld'
<1> SUFFICES ASSUME ManagerInv, TripHeld, [Next]_vars, Begun("stft_istft")' PROVE TripInv'
  BY DEF TripHeld
<1> DEFINE p == "stft_istft"
<1>1. /\ Runs(p)
      /\ \/ TripStart \/ TripStep \/ TripFails
         \/ /\ ViewerConnects \/ ViewerReads \/ ViewerLeaves
            /\ UNCHANGED <<manager, doc, loop, speech, trip, listener>>
         \/ UNCHANGED vars
   BY Whose
<1>2. TripInv BY <1>1, TripHolds
<1>3. CASE TripStart
  <2>1. R!Start /\ pc = "start" BY <1>3 DEF TripStart, R!Start
  <2>2. Fresh BY <2>1 DEF ManagerInv
  <2> QED BY <2>1, <2>2, TripStarts
<1>4. CASE TripStep \/ TripFails
  <2>1. R!Step \/ R!StageFails BY <1>4 DEF TripStep, TripFails
  <2> QED BY <1>2, <2>1, TripKeeps
<1>5. CASE /\ ViewerConnects \/ ViewerReads \/ ViewerLeaves
           /\ UNCHANGED <<manager, doc, loop, speech, trip, listener>>
  <2>1. (S!ViewerConnects \/ S!ViewerReads \/ S!ViewerLeaves) /\ UNCHANGED <<loop, trip>>
     BY <1>5 DEF ViewerConnects, ViewerReads, ViewerLeaves
  <2>2. pc # "start" BY <2>1 DEF Begun, loop
  <2> QED BY <1>2, <2>1, <2>2, TripViewed
<1>6. CASE UNCHANGED vars
  <2>1. UNCHANGED <<n, pc, chunk, batch, out, layout, dma, left, taken, viewer, sent>>
     BY <1>6 DEF vars, loop, trip, stream
  <2>2. /\ R!RealFrames' = R!RealFrames /\ R!FileFrames' = R!FileFrames /\ R!FileChunks' = R!FileChunks
        /\ (R!Uneven' <=> R!Uneven) /\ Total' = Total
     BY <2>1, SameChunk
  <2>3. R!FramesOf(layout.stft)' = R!FramesOf(layout.stft) /\ R!FramesOf(layout.istft)' = R!FramesOf(layout.istft)
     BY <2>1 DEF R!FramesOf
  <2>4. TripTypes' BY <1>2, <2>1, <2>2 DEF TripInv, TripTypes
  <2>5. TripBuffers' BY <1>2, <2>1, <2>2, <2>3 DEF TripInv, TripBuffers, Marked
  <2>6. TripOut'
    <3>1. Synthesised' = Synthesised /\ Collected' = Collected BY <2>1, <2>2, <2>3 DEF Synthesised, Collected
    <3>2. R!Restored' <=> R!Restored BY <2>1, <2>2 DEF R!Restored
    <3> QED BY <1>2, <2>1, <2>2, <3>1, <3>2 DEF TripInv, TripOut
  <2>7. TripSent'
    <3>1. TripFront(0)' = TripFront(0) /\ TripFront(1)' = TripFront(1) BY <2>1, <2>2, <2>3 DEF TripFront
    <3>2. R!Padded' = R!Padded /\ Attached' = Attached BY <2>1, SamePadded DEF Attached
    <3> QED BY <1>2, <2>1, <2>2, <3>1, <3>2 DEF TripInv, TripSent
  <2> QED BY <2>4, <2>5, <2>6, <2>7 DEF TripInv
<1> QED BY <1>1, <1>3, <1>4, <1>5, <1>6

LEMMA TripAlways == Spec => [](ManagerInv /\ TripHeld)
<1>1. Init => TripHeld BY DEF Init, TripHeld, Begun, Runs
<1> QED BY <1>1, StartsFresh, ManagerInductive, TripInductive, PTL DEF Spec

\* A round trip whose STFT batches leave a remainder saves the input, sample
\* for sample, or fails, for every layout and every length (Restored).
THEOREM RoundTripRestores == Spec => []Restored
<1>1. ManagerInv /\ TripHeld => Restored
  <2> SUFFICES ASSUME ManagerInv, TripHeld, Runs("stft_istft") PROVE R!Restored
     BY DEF Restored
  <2> QED BY TripHolds DEF TripInv, TripOut
<1> QED BY <1>1, TripAlways, PTL

LEMMA TripHeard ==
  ASSUME TripInv, Runs("stft_istft"), ManagerInv
  PROVE  R!HeardInOrder
<1> USE DEF TripInv
<1> SUFFICES ASSUME pc \notin {"saved", "failed"}
             PROVE  /\ R!PartOf(sent[1], out)
                    /\ R!Uneven => R!PartOf(sent[0], R!Padded)
   BY DEF R!HeardInOrder
<1>1. sent[0] \in Seq(S!Frame) /\ sent[1] \in Seq(S!Frame) /\ out \in Seq(S!Frame) /\ R!Padded \in Seq(S!Frame)
   BY PaddedFacts DEF TripSent, TripOut
<1>2. CASE pc = "start"
  <2>1. sent[0] = <<>> /\ sent[1] = <<>> BY <1>2, NothingSent DEF ManagerInv, Fresh
  <2>2. CutFrom(sent[1], out, 0, TRUE) /\ CutFrom(sent[0], R!Padded, 0, TRUE)
    <3>1. 0 \in Nat OBVIOUS
    <3> QED BY <2>1, <3>1, CutNothing
  <2>3. 0 \in Nat /\ 0 <= Len(out) /\ 0 <= Len(R!Padded)
    <3>1. Len(out) \in Nat /\ Len(R!Padded) \in Nat BY <1>1, LenProperties
    <3> QED BY <3>1
  <2> QED BY <1>1, <2>2, <2>3, CutPart
<1>3. CASE pc # "start"
  <2>1. pc \in TripStages \cup {"save"} BY <1>3 DEF TripTypes
  <2>2. /\ TripFront(1) \in Nat /\ TripFront(1) <= Len(out)
        /\ TripFront(0) \in Nat /\ TripFront(0) <= Len(R!Padded)
     BY <2>1, TripFronts
  <2>3. CutFrom(sent[1], out, TripFront(1), Attached)
        /\ (R!Uneven => CutFrom(sent[0], R!Padded, TripFront(0), Attached))
     BY DEF TripSent
  <2> DEFINE open == Attached
             far == TripFront(0)
             near == TripFront(1)
             all == R!Padded
  <2>4. /\ near \in Nat /\ near <= Len(out) /\ far \in Nat /\ far <= Len(all)
        /\ CutFrom(sent[1], out, near, open) /\ (R!Uneven => CutFrom(sent[0], all, far, open))
        /\ all \in Seq(S!Frame)
     BY <1>1, <2>2, <2>3
  <2> HIDE DEF open, far, near, all
  <2>5. R!PartOf(sent[1], out) BY <1>1, <2>4, CutPart
  <2>6. R!Uneven => R!PartOf(sent[0], all) BY <1>1, <2>4, CutPart
  <2> QED BY <2>5, <2>6 DEF all
<1> QED BY <1>2, <1>3

\* Whoever connects, whenever, hears one piece of the input and one of the
\* output, without a gap or a repetition (HeardInOrder).
THEOREM HeardWithoutGaps == Spec => []HeardInOrder
<1>1. ManagerInv /\ SpeechHeld /\ TripHeld => HeardInOrder
  <2> SUFFICES ASSUME ManagerInv, SpeechHeld, TripHeld PROVE HeardInOrder OBVIOUS
  <2>1. Runs("speech_enhancement") => S!HeardInOrder BY SpeechHolds, SpeechHeard
  <2>2. Runs("stft_istft") => R!HeardInOrder BY TripHolds, TripHeard
  <2> QED BY <2>1, <2>2 DEF HeardInOrder
<1> QED BY <1>1, SpeechAlways, TripAlways, PTL

----------------------------------------------------------------------------
(* Classification: its arithmetic and its sequences. *)

LEMMA Halves ==
  ASSUME NEW a \in Nat
  PROVE  /\ a \div 2 \in Nat /\ 2 * (a \div 2) <= a /\ a <= 2 * (a \div 2) + 1
         /\ (2 * a) \div 2 = a
         /\ \A s \in Nat : (a < 2 * s <=> a \div 2 < s) /\ (2 * s <= a <=> s <= a \div 2)
<1>1. a \div 2 \in Nat /\ 2 * (a \div 2) <= a /\ a <= 2 * (a \div 2) + 1 BY Z3
<1>2. (2 * a) \div 2 = a BY Z3
<1>3. ASSUME NEW s \in Nat PROVE (a < 2 * s <=> a \div 2 < s) /\ (2 * s <= a <=> s <= a \div 2)
   BY <1>1
<1> QED BY <1>1, <1>2, <1>3

LEMMA ClassFacts ==
  /\ Frames \in Nat \ {0} /\ BatchSize \in Nat \ {0} /\ HopSize \in Nat \ {0}
  /\ C!Window \in Nat \ {0} /\ C!Window = Frames * HopSize /\ C!Bytes = 2 * C!Window
  /\ C!Bytes \in Nat /\ C!Bytes \div 2 = C!Window
<1>1. Frames \in Nat \ {0} /\ BatchSize \in Nat \ {0} /\ HopSize \in Nat \ {0}
   BY PipelinesAssumption, SpeechFacts
<1>2. C!Window = Frames * HopSize BY DEF C!Window
<1>3. \A a, b \in Nat \ {0} : a * b \in Nat \ {0} OBVIOUS
<1>4. C!Window \in Nat \ {0} BY <1>1, <1>2, <1>3
<1>5. C!Bytes = 2 * C!Window BY DEF C!Bytes
<1>6. C!Bytes \in Nat BY <1>4, <1>5
<1>7. C!Bytes \div 2 = C!Window BY <1>4, <1>5, Halves
<1> QED BY <1>1, <1>2, <1>4, <1>5, <1>6, <1>7

LEMMA BaseFacts ==
  ASSUME ClassTypes
  PROVE  /\ Len(out) \in Nat /\ DOMAIN out = 1..Len(out) /\ Base \in Nat
         /\ Len(got) \in Nat /\ DOMAIN got = 1..Len(got) /\ n \in Nat
         /\ done \div 2 \in Nat /\ done \div 2 <= C!Window /\ done \in Nat
<1>1. Len(out) \in Nat /\ DOMAIN out = 1..Len(out) /\ Len(got) \in Nat /\ DOMAIN got = 1..Len(got)
   BY LenProperties DEF ClassTypes
<1>2. Base \in Nat BY <1>1, ClassFacts, Times DEF Base
<1>3. done \in Nat /\ done <= 2 * C!Window /\ C!Window \in Nat BY ClassFacts DEF ClassTypes
<1>4. done \div 2 \in Nat /\ 2 * (done \div 2) <= done BY <1>3, Halves
<1>5. done \div 2 <= C!Window
  <2> DEFINE half == done \div 2
             size == C!Window
  <2>1. half \in Nat /\ size \in Nat /\ 2 * half <= done /\ done <= 2 * size /\ done \in Nat BY <1>3, <1>4
  <2> HIDE DEF half, size
  <2>2. half <= size BY <2>1
  <2> QED BY <2>2 DEF half, size
<1>6. n \in Nat
  <2>1. n \in Sizes \cup {0} BY DEF ClassTypes
  <2>2. Sizes \subseteq Nat BY PipelinesAssumption
  <2> QED BY <2>1, <2>2
<1> QED BY <1>1, <1>2, <1>3, <1>4, <1>5, <1>6

\* A window is given after those before it.
LEMMA PlaceFacts ==
  ASSUME NEW w \in Nat \ {0}, NEW s \in 1..C!Window
  PROVE  /\ C!Place(w, s) = (w - 1) * C!Window + s /\ C!Place(w, s) \in Nat
         /\ w * C!Window \in Nat /\ C!Place(w, s) <= w * C!Window /\ C!Place(w, C!Window) = w * C!Window
         /\ \A m \in Nat : w <= m => w * C!Window <= m * C!Window
<1>1. C!Window \in Nat \ {0} BY ClassFacts
<1>2. C!Place(w, s) = (w - 1) * C!Window + s /\ C!Place(w, C!Window) = (w - 1) * C!Window + C!Window
   BY DEF C!Place
<1>3. w - 1 \in Nat /\ w = (w - 1) + 1 OBVIOUS
<1>4. (w - 1) * C!Window \in Nat /\ w * C!Window = (w - 1) * C!Window + C!Window
  <2> DEFINE v == w - 1
  <2>1. v \in Nat /\ w = v + 1 BY <1>3
  <2> HIDE DEF v
  <2>2. v * C!Window \in Nat /\ (v + 1) * C!Window = v * C!Window + C!Window BY <1>1, <2>1, Times
  <2> QED BY <2>1, <2>2 DEF v
<1>5. \A m \in Nat : w <= m => w * C!Window <= m * C!Window BY <1>1, Order
<1> QED BY <1>1, <1>2, <1>4, <1>5

ReadOn(g, off, c, d) == g \o [s \in 1..(d - c) |-> off + (c + s)]
Grown(g, h, base, off) == \A i \in 1..Len(h) : h[i] = IF i <= Len(g) THEN g[i] ELSE off + (i - base)
Laid(w, v, off, c, d) == \A s \in 1..d : v[s] = IF c < s THEN off + s ELSE w[s]

\* Samples c+1 to d of a window arrive: what was read grows by them, and the
\* window holds all of its first d samples.
LEMMA ReadMore ==
  ASSUME NEW g \in Seq(Nat), NEW base \in Nat, NEW off \in Nat, NEW c \in Nat, NEW d \in Nat, c <= d,
         NEW w, SoFar(w, g, base, c)
  PROVE  /\ ReadOn(g, off, c, d) \in Seq(Nat) /\ Len(ReadOn(g, off, c, d)) = base + d
         /\ Grown(g, ReadOn(g, off, c, d), base, off)
<1> DEFINE more == [s \in 1..(d - c) |-> off + (c + s)]
           h == g \o more
<1>0. Len(g) = base + c BY DEF SoFar
<1>1. more \in Seq(Nat) /\ Len(more) = d - c
  <2> DEFINE m == d - c
             some(s) == off + (c + s)
  <2>1. m \in Nat /\ \A s \in 1..m : some(s) \in Nat OBVIOUS
  <2>2. more = [s \in 1..m |-> some(s)] OBVIOUS
  <2> HIDE DEF m, some, more
  <2>3. more \in [1..m -> Nat] BY <2>1, <2>2
  <2>4. more \in Seq(Nat) /\ Len(more) = m BY <2>1, <2>3
  <2> QED BY <2>4 DEF m
<1>2. \A s \in 1..(d - c) : more[s] = off + (c + s) OBVIOUS
<1> HIDE DEF more
<1>3. /\ h \in Seq(Nat) /\ Len(h) = Len(g) + Len(more)
      /\ \A i \in 1..(Len(g) + Len(more)) : h[i] = IF i <= Len(g) THEN g[i] ELSE more[i - Len(g)]
   BY <1>1, ConcatProperties
<1> HIDE DEF h
<1>4. Len(h) = base + d BY <1>0, <1>1, <1>3
<1>5. ASSUME NEW i \in 1..(base + d) PROVE h[i] = IF i <= Len(g) THEN g[i] ELSE off + (i - base)
  <2>1. i \in 1..(Len(g) + Len(more)) BY <1>0, <1>1
  <2>2. CASE i <= Len(g) BY <1>3, <2>1, <2>2
  <2>3. CASE ~(i <= Len(g))
    <3>1. h[i] = more[i - Len(g)] BY <1>3, <2>1, <2>3
    <3>2. i - Len(g) \in 1..(d - c) /\ off + (c + (i - Len(g))) = off + (i - base) BY <1>0, <2>3
    <3> QED BY <1>2, <2>3, <3>1, <3>2
  <2> QED BY <2>2, <2>3
<1>6. Grown(g, h, base, off) BY <1>4, <1>5 DEF Grown
<1>7. h = ReadOn(g, off, c, d) BY DEF h, more, ReadOn
<1> QED BY <1>3, <1>4, <1>6, <1>7

LEMMA WindowMore ==
  ASSUME NEW w, NEW g, NEW base \in Nat, NEW off \in Nat, NEW c \in Nat, NEW d \in Nat, SoFar(w, g, base, c),
         NEW v, Laid(w, v, off, c, d), NEW h, Len(h) = base + d, Grown(g, h, base, off)
  PROVE  SoFar(v, h, base, d)
<1>1. Len(g) = base + c /\ \A s \in 1..c : w[s] = g[base + s] BY DEF SoFar
<1>2. ASSUME NEW s \in 1..d PROVE v[s] = h[base + s]
  <2>0. v[s] = IF c < s THEN off + s ELSE w[s] BY DEF Laid
  <2> DEFINE i == base + s
  <2>1. i \in 1..(base + d) /\ i = base + s /\ i - base = s OBVIOUS
  <2>2. h[i] = IF i <= base + c THEN g[i] ELSE off + (i - base) BY <1>1, <2>1 DEF Grown
  <2>3. CASE s <= c
    <3>1. i <= base + c /\ s \in 1..c /\ ~(c < s) BY <2>3
    <3>2. v[s] = w[s] BY <2>0, <3>1
    <3>3. w[s] = g[i] BY <1>1, <3>1
    <3> HIDE DEF i
    <3>4. v[s] = h[i] BY <2>2, <3>1, <3>2, <3>3
    <3> QED BY <3>4 DEF i
  <2>4. CASE ~(s <= c)
    <3>1. ~(i <= base + c) /\ c < s BY <2>4
    <3>2. v[s] = off + s BY <2>0, <3>1
    <3> HIDE DEF i
    <3>3. v[s] = h[i] BY <2>1, <2>2, <3>1, <3>2
    <3> QED BY <3>3 DEF i
  <2> QED BY <2>3, <2>4
<1> QED BY <1>2 DEF SoFar

\* What was given stays what it was when samples are added behind it.
LEMMA PlacedStays ==
  ASSUME NEW o \in Seq([1..C!Window -> Nat]), NEW g \in Seq(Nat), NEW h \in Seq(Nat),
         Placed(o, g), Len(o) * C!Window <= Len(g), Len(g) <= Len(h),
         \A i \in DOMAIN g : h[i] = g[i]
  PROVE  Placed(o, h)
<1>1. Len(o) \in Nat /\ Len(g) \in Nat /\ Len(h) \in Nat /\ DOMAIN o = 1..Len(o) /\ DOMAIN g = 1..Len(g)
   BY LenProperties
<1>2. C!Window \in Nat \ {0} BY ClassFacts
<1>3. ASSUME NEW w \in DOMAIN o, NEW s \in 1..C!Window
      PROVE  C!Place(w, s) \in 1..Len(g) /\ C!Place(w, C!Window) <= Len(g)
  <2>1. w \in Nat \ {0} /\ w <= Len(o) BY <1>1
  <2>2. /\ C!Place(w, s) = (w - 1) * C!Window + s /\ C!Place(w, s) \in Nat
        /\ w * C!Window \in Nat /\ C!Place(w, s) <= w * C!Window /\ C!Place(w, C!Window) = w * C!Window
        /\ w * C!Window <= Len(o) * C!Window
     BY <1>1, <2>1, PlaceFacts
  <2>3. w - 1 \in Nat /\ (w - 1) * C!Window \in Nat
    <3>1. w - 1 \in Nat BY <2>1
    <3>2. C!Window \in Nat BY <1>2
    <3> QED BY <3>1, <3>2, Times
  <2>4. Len(o) * C!Window \in Nat BY <1>1, <1>2, Times
  <2> DEFINE at == C!Place(w, s)
             end == C!Place(w, C!Window)
             all == Len(o) * C!Window
             before == (w - 1) * C!Window
             upto == w * C!Window
  <2>5. /\ at = before + s /\ before \in Nat /\ at <= upto /\ end = upto /\ upto \in Nat
        /\ upto <= all /\ all <= Len(g) /\ all \in Nat
     BY <2>2, <2>3, <2>4
  <2>6. s \in Nat /\ 1 <= s BY <1>2
  <2> HIDE DEF at, end, all, before, upto
  <2> DEFINE len == Len(g)
  <2>7. len \in Nat BY <1>1
  <2> HIDE DEF len
  <2>8. all <= len BY <2>5 DEF len
  <2>9. at \in Nat /\ end \in Nat /\ 1 <= at BY <2>5, <2>6
  <2>10. at <= len /\ end <= len BY <2>5, <2>7, <2>8, <2>9
  <2>11. at \in 1..len /\ end <= len BY <2>7, <2>9, <2>10
  <2> QED BY <2>11 DEF at, end, len
<1>4. ASSUME NEW w \in DOMAIN o, NEW s \in 1..C!Window
      PROVE  o[w][s] = IF C!Place(w, s) <= Len(h) THEN h[C!Place(w, s)] ELSE 0
  <2>1. C!Place(w, s) \in 1..Len(g) BY <1>3
  <2>2. o[w][s] = IF C!Place(w, s) <= Len(g) THEN g[C!Place(w, s)] ELSE 0 BY DEF Placed
  <2>3. h[C!Place(w, s)] = g[C!Place(w, s)] BY <1>1, <2>1
  <2> QED BY <1>1, <2>1, <2>2, <2>3
<1>5. ASSUME NEW w \in DOMAIN o PROVE C!Place(w, C!Window) <= Len(h)
  <2>1. 1 \in 1..C!Window BY <1>2
  <2>2. C!Place(w, C!Window) <= Len(g) BY <1>3, <2>1
  <2>3. C!Place(w, C!Window) \in Nat
    <3>1. w \in Nat \ {0} BY <1>1
    <3> QED BY <2>1, <3>1, PlaceFacts
  <2> QED BY <1>1, <2>2, <2>3
<1> QED BY <1>4, <1>5 DEF Placed

\* One more window is given.
LEMMA PlacedMore ==
  ASSUME NEW o \in Seq([1..C!Window -> Nat]), NEW g \in Seq(Nat), NEW w \in [1..C!Window -> Nat],
         Placed(o, g), Upcoming(w, g, Len(o) * C!Window)
  PROVE  /\ Append(o, w) \in Seq([1..C!Window -> Nat]) /\ Len(Append(o, w)) = Len(o) + 1
         /\ Placed(Append(o, w), g)
<1> DEFINE u == Append(o, w)
<1>1. Len(o) \in Nat /\ DOMAIN o = 1..Len(o) /\ Len(g) \in Nat /\ C!Window \in Nat \ {0}
   BY LenProperties, ClassFacts
<1>2. /\ u \in Seq([1..C!Window -> Nat]) /\ Len(u) = Len(o) + 1
      /\ \A i \in 1..Len(o) : u[i] = o[i] /\ u[Len(o) + 1] = w
   BY AppendProperties
<1>3. u[Len(o) + 1] = w BY AppendProperties
<1> HIDE DEF u
<1>4. DOMAIN u = 1..(Len(o) + 1) BY <1>2, LenProperties
<1>5. Len(o) * C!Window <= Len(g) BY DEF Upcoming
<1>6. ASSUME NEW k \in DOMAIN u, NEW s \in 1..C!Window
      PROVE  u[k][s] = IF C!Place(k, s) <= Len(g) THEN g[C!Place(k, s)] ELSE 0
  <2>1. CASE k <= Len(o)
    <3>1. k \in DOMAIN o /\ u[k] = o[k] BY <1>1, <1>2, <1>4, <2>1
    <3> QED BY <3>1 DEF Placed
  <2>2. CASE ~(k <= Len(o))
    <3>1. k = Len(o) + 1 /\ k - 1 = Len(o) BY <1>1, <1>4, <2>2
    <3>2. C!Place(k, s) = Len(o) * C!Window + s BY <3>1 DEF C!Place
    <3> QED BY <1>3, <3>1, <3>2 DEF Upcoming
  <2> QED BY <2>1, <2>2
<1>7. ASSUME NEW k \in DOMAIN u, k < Len(u) PROVE C!Place(k, C!Window) <= Len(g)
  <2>1. k \in Nat \ {0} /\ k <= Len(o) /\ 1 \in 1..C!Window BY <1>1, <1>2, <1>4, <1>7
  <2>2. C!Place(k, C!Window) = k * C!Window /\ k * C!Window <= Len(o) * C!Window /\ k * C!Window \in Nat
     BY <1>1, <2>1, PlaceFacts
  <2>3. Len(o) * C!Window \in Nat BY <1>1, Times
  <2> QED BY <1>1, <1>5, <2>2, <2>3
<1>8. Placed(u, g) BY <1>6, <1>7 DEF Placed
<1> QED BY <1>2, <1>8 DEF u

LEMMA OrderMore ==
  ASSUME NEW g \in Seq(Nat), NEW h \in Seq(Nat), NEW base \in Nat, NEW off \in Nat, NEW c \in Nat, NEW d \in Nat,
         c <= d, Len(g) = base + c, Len(h) = base + d, Ordered(g),
         Grown(g, h, base, off),
         how = "device" => \A i \in DOMAIN g : g[i] <= off + c,
         how # "device" => off = base
  PROVE  Ordered(h) /\ (how = "device" => \A i \in DOMAIN h : h[i] <= off + d)
<1>1. DOMAIN g = 1..(base + c) /\ DOMAIN h = 1..(base + d) BY LenProperties
<1>2. \A i \in 1..(base + d) : h[i] = IF i <= base + c THEN g[i] ELSE off + (i - base) BY DEF Grown
<1>3. CASE how = "device"
  <2>1. ASSUME NEW i \in 1..(base + d) PROVE h[i] <= off + d
    <3>1. CASE i <= base + c
      <4>1. i \in DOMAIN g /\ h[i] = g[i] BY <1>1, <1>2, <3>1
      <4>2. g[i] <= off + c /\ g[i] \in Nat BY <1>1, <1>3, <4>1, ElementOfSeq
      <4> QED BY <4>1, <4>2
    <3>2. CASE ~(i <= base + c)
      <4>1. h[i] = off + (i - base) BY <1>2, <3>2
      <4>2. i - base <= d OBVIOUS
      <4> QED BY <4>1, <4>2
    <3> QED BY <3>1, <3>2
  <2>2. ASSUME NEW i \in 1..(base + d), i > 1 PROVE h[i - 1] < h[i]
    <3> DEFINE j == i - 1
    <3>1. j \in 1..(base + d) /\ i = j + 1 BY <2>2
    <3>2. h[j] = IF j <= base + c THEN g[j] ELSE off + (j - base) BY <1>2, <3>1
    <3>3. h[i] = IF i <= base + c THEN g[i] ELSE off + (i - base) BY <1>2
    <3>4. CASE i <= base + c
      <4>0. i \in DOMAIN g BY <1>1, <3>4
      <4>1. g[i - 1] < g[i] BY <1>3, <2>2, <4>0 DEF Ordered
      <4>2. j <= base + c BY <3>4
      <4> QED BY <3>2, <3>3, <3>4, <4>1, <4>2
    <3>5. CASE ~(i <= base + c) /\ j <= base + c
      <4>1. j = base + c /\ j \in DOMAIN g BY <1>1, <3>1, <3>5
      <4>2. g[j] <= off + c /\ g[j] \in Nat BY <1>1, <1>3, <4>1, ElementOfSeq
      <4>3. i - base = c + 1 BY <4>1
      <4>4. h[i] = off + (c + 1) BY <3>3, <3>5, <4>3
      <4>5. h[j] = g[j] BY <3>2, <3>5
      <4> HIDE DEF j
      <4>6. h[j] < h[i] BY <4>2, <4>4, <4>5
      <4> QED BY <4>6 DEF j
    <3>6. CASE ~(j <= base + c)
      <4>1. ~(i <= base + c) BY <3>1, <3>6
      <4>2. h[j] = off + (j - base) /\ h[i] = off + (i - base) BY <3>2, <3>3, <3>6, <4>1
      <4>3. off + (j - base) < off + (i - base) BY <3>1
      <4> HIDE DEF j
      <4>4. h[j] < h[i] BY <4>2, <4>3
      <4> QED BY <4>4 DEF j
    <3> QED BY <3>4, <3>5, <3>6
  <2> QED BY <1>1, <1>3, <2>1, <2>2 DEF Ordered
<1>4. CASE how # "device"
  <2>1. ASSUME NEW i \in 1..(base + d) PROVE h[i] = i
    <3>1. CASE i <= base + c
      <4>1. i \in DOMAIN g /\ h[i] = g[i] BY <1>1, <1>2, <3>1
      <4> QED BY <1>4, <4>1 DEF Ordered
    <3>2. CASE ~(i <= base + c)
      <4>1. h[i] = off + (i - base) BY <1>2, <3>2
      <4>2. off + (i - base) = i BY <1>4
      <4> QED BY <4>1, <4>2
    <3> QED BY <3>1, <3>2
  <2> QED BY <1>1, <1>4, <2>1 DEF Ordered
<1> QED BY <1>3, <1>4

Ahead == (source - done) \div 2

\* k bytes arrive.
LEMMA TakeKeeps ==
  ASSUME ClassTypes, window \in [1..C!Window -> Nat], NEW k \in 1..(C!Bytes - done), C!Take(k),
         done <= source, SoFar(window, got, Base, done \div 2)
  PROVE  /\ window' \in [1..C!Window -> Nat] /\ done' \in 0..C!Bytes /\ source' \in Nat
         /\ Ahead \in Nat /\ done \div 2 <= done' \div 2 /\ done' \div 2 \in Nat
         /\ got' \in Seq(Nat) /\ Len(got') = Base + (done' \div 2)
         /\ SoFar(window', got', Base, done' \div 2)
         /\ Grown(got, got', Base, Ahead)
<1> DEFINE c == done \div 2
           d == (done + k) \div 2
<1>1. /\ done \in Nat /\ source \in Nat /\ done + k \in Nat /\ done + k <= C!Bytes /\ C!Bytes \in Nat
      /\ C!Window \in Nat /\ C!Bytes = 2 * C!Window
   BY ClassFacts DEF ClassTypes
<1>2. done' = done + k /\ source' = source + k BY DEF C!Take
<1>3. Ahead \in Nat
  <2>1. source - done \in Nat BY <1>1
  <2> QED BY <2>1, Halves DEF Ahead
<1>4. c \in Nat /\ d \in Nat /\ c <= d /\ d <= C!Window
  <2>1. c \in Nat /\ 2 * c <= done /\ done <= 2 * c + 1 BY <1>1, Halves
  <2>2. d \in Nat /\ 2 * d <= done + k /\ done + k <= 2 * d + 1 BY <1>1, Halves
  <2> DEFINE size == C!Window
  <2>3. done + k <= 2 * size /\ size \in Nat BY <1>1
  <2> HIDE DEF c, d, size
  <2>4. c <= d BY <1>1, <2>1, <2>2
  <2>5. d <= size BY <1>1, <2>2, <2>3
  <2> QED BY <2>1, <2>2, <2>4, <2>5 DEF size
<1>5. Len(got) = Base + c /\ Base \in Nat /\ got \in Seq(Nat) BY BaseFacts DEF SoFar, ClassTypes
<1>6. got' = ReadOn(got, Ahead, c, d) BY DEF C!Take, C!At, Ahead, ReadOn
<1>7. \A s \in 1..C!Window : s \in C!Completed(k) <=> c < s /\ s <= d
  <2> SUFFICES ASSUME NEW s \in 1..C!Window PROVE s \in C!Completed(k) <=> c < s /\ s <= d OBVIOUS
  <2>1. s \in Nat BY <1>1
  <2>2. (done < 2 * s <=> c < s) BY <1>1, <2>1, Halves
  <2>3. (2 * s <= done + k <=> s <= d) BY <1>1, <2>1, Halves
  <2> QED BY <2>2, <2>3 DEF C!Completed
<1>8. /\ window' = [s \in 1..C!Window |-> IF s \in C!Completed(k) THEN Ahead + s ELSE window[s]]
   BY DEF C!Take, C!At, Ahead
<1> HIDE DEF c, d
<1>9. window' \in [1..C!Window -> Nat]
  <2>1. ASSUME NEW s \in 1..C!Window PROVE Ahead + s \in Nat /\ window[s] \in Nat BY <1>1, <1>3
  <2> QED BY <1>8, <2>1
<1>10. got' \in Seq(Nat) /\ Len(got') = Base + d /\ Grown(got, got', Base, Ahead)
  <2> DEFINE more == ReadOn(got, Ahead, c, d)
  <2>1. c \in Nat /\ d \in Nat /\ c <= d BY <1>4
  <2>2. SoFar(window, got, Base, c) BY DEF c
  <2>3. more \in Seq(Nat) /\ Len(more) = Base + d /\ Grown(got, more, Base, Ahead)
     BY <1>3, <1>5, <2>1, <2>2, ReadMore
  <2>4. got' = more BY <1>6
  <2> HIDE DEF more
  <2> QED BY <2>3, <2>4
<1>11. \A s \in 1..d : window'[s] = IF c < s THEN Ahead + s ELSE window[s]
  <2> SUFFICES ASSUME NEW s \in 1..d PROVE window'[s] = IF c < s THEN Ahead + s ELSE window[s] OBVIOUS
  <2>1. s \in 1..C!Window /\ s <= d BY <1>1, <1>4
  <2> QED BY <1>7, <1>8, <2>1
<1>12. SoFar(window', got', Base, d)
  <2>1. Laid(window, window', Ahead, c, d) BY <1>11 DEF Laid
  <2>2. SoFar(window, got, Base, c) BY DEF c
  <2> QED BY <1>3, <1>4, <1>5, <1>10, <2>1, <2>2, WindowMore
<1>13. d = done' \div 2 BY <1>2 DEF d
<1>14. done' \in 0..C!Bytes /\ source' \in Nat BY <1>1, <1>2
<1> QED BY <1>3, <1>4, <1>9, <1>10, <1>12, <1>13, <1>14 DEF c

LEMMA ReadKeeps ==
  ASSUME ClassInv, C!Read \/ C!Capture
  PROVE  ClassInv'
<1> USE DEF ClassInv
<1>1. /\ pc = "read" /\ how # "file" /\ SoFar(window, got, Base, done \div 2) /\ eof = FALSE
      /\ window \in [1..C!Window -> Nat] /\ DOMAIN mel = 1..Frames /\ batch = 0
   BY DEF C!Read, C!Capture, Reading, ClassTypes
<1>2. UNCHANGED <<how, n, pc, chunk, batch, eof, overruns, mel, out>> BY DEF C!Read, C!Capture
<1>3. /\ done \in Nat /\ source \in Nat /\ done <= C!Bytes /\ C!Bytes \in Nat /\ Base \in Nat /\ Len(got) \in Nat
      /\ got \in Seq(Nat) /\ C!Window \in Nat
   BY ClassFacts, BaseFacts DEF ClassTypes
<1>4. PICK k \in 1..(C!Bytes - done) : C!Take(k) /\ (how = "device" => \E j \in Nat : k = 2 * j)
  <2>1. CASE C!Read BY <2>1 DEF C!Read
  <2>2. CASE C!Capture
    <3>1. PICK j \in 1..((C!Bytes - done) \div 2) : C!Take(2 * j) BY <2>2 DEF C!Capture
    <3>2. C!Bytes - done \in Nat BY <1>3
    <3>3. (C!Bytes - done) \div 2 \in Nat /\ 2 * ((C!Bytes - done) \div 2) <= C!Bytes - done BY <3>2, Halves
    <3> DEFINE rest == C!Bytes - done
               half == rest \div 2
    <3>4. rest \in Nat /\ half \in Nat /\ 2 * half <= rest /\ j \in 1..half BY <3>2, <3>3
    <3> HIDE DEF rest, half
    <3>5. 2 * j \in 1..rest /\ j \in Nat BY <3>4
    <3> QED BY <3>1, <3>5 DEF rest
  <2> QED BY <2>1, <2>2
<1> DEFINE c == done \div 2
           d == done' \div 2
           off == Ahead
<1>5. done <= source /\ (how # "device" => how = "stream" /\ source = 2 * Base + done)
  <2>1. CASE how = "device" BY <2>1 DEF Sources
  <2>2. CASE how # "device"
    <3>1. how = "stream" BY <2>2 DEF C!Read, C!Capture
    <3>2. source = 2 * Base + done BY <1>1, <3>1 DEF Sources
    <3> QED BY <1>3, <2>2, <3>1, <3>2
  <2> QED BY <2>1, <2>2
<1>6. /\ window' \in [1..C!Window -> Nat] /\ done' \in 0..C!Bytes /\ source' \in Nat
      /\ off \in Nat /\ c <= d /\ d \in Nat
      /\ got' \in Seq(Nat) /\ Len(got') = Base + d
      /\ SoFar(window', got', Base, d) /\ Grown(got, got', Base, off)
   BY <1>1, <1>4, <1>5, TakeKeeps
<1>7. c \in Nat /\ Len(got) = Base + c BY <1>1, BaseFacts DEF SoFar
<1>8. done' = done + k /\ source' = source + k BY <1>4 DEF C!Take
<1>9. Base' = Base BY <1>2 DEF Base
<1>10. ClassTypes' BY <1>1, <1>2, <1>6 DEF ClassTypes
<1>11. Reading' BY <1>1, <1>2, <1>6, <1>9 DEF Reading
<1>12. how = "device" => /\ done = 2 * c /\ Even(source) /\ off + c = source \div 2 /\ Even(done') /\ Even(source')
                         /\ off + d = source' \div 2 /\ done' <= source'
  <2> SUFFICES ASSUME how = "device"
               PROVE  /\ done = 2 * c /\ Even(source) /\ off + c = source \div 2 /\ Even(done') /\ Even(source')
                      /\ off + d = source' \div 2 /\ done' <= source'
     OBVIOUS
  <2>1. Even(done) /\ Even(source) BY DEF Sources
  <2> DEFINE t == source \div 2
  <2>2. t \in Nat /\ source = 2 * t /\ done = 2 * c BY <1>3, <2>1, Halves DEF Even
  <2>3. PICK j \in Nat : k = 2 * j BY <1>4
  <2> HIDE DEF c, t
  <2>4. c <= t BY <1>3, <1>5, <1>7, <2>2
  <2>5. off = t - c
    <3>1. t - c \in Nat /\ source - done = 2 * (t - c) BY <1>7, <2>2, <2>4
    <3> QED BY <3>1, Halves DEF Ahead
  <2>6. done' = 2 * (c + j) /\ c + j \in Nat /\ source' = 2 * (t + j) /\ t + j \in Nat BY <1>7, <1>8, <2>2, <2>3
  <2>7. done' \div 2 = c + j /\ source' \div 2 = t + j BY <2>6, Halves
  <2>8. Even(done') /\ Even(source') BY <2>6, <2>7 DEF Even
  <2>9. off + (c + j) = t + j /\ off + c = t BY <1>7, <2>2, <2>5
  <2>10. done' <= source' BY <1>7, <2>2, <2>4, <2>6
  <2> QED BY <2>1, <2>2, <2>7, <2>8, <2>9, <2>10 DEF c, t
<1>13. how # "device" => off = Base
  <2>1. ASSUME how # "device" PROVE source - done = 2 * Base BY <1>3, <1>5, <2>1
  <2>2. (2 * Base) \div 2 = Base BY <1>3, Halves
  <2> QED BY <2>1, <2>2 DEF Ahead
<1>14. how = "device" => \A i \in DOMAIN got : got[i] <= off + c
  <2>1. how = "device" => \A i \in DOMAIN got : got[i] <= source \div 2 BY DEF Sources
  <2> QED BY <1>12, <2>1
<1> HIDE DEF c, d, off
<1>15. Ordered(got) BY DEF Sources
<1>16. Ordered(got') /\ (how = "device" => \A i \in DOMAIN got' : got'[i] <= off + d)
   BY <1>3, <1>6, <1>7, <1>13, <1>14, <1>15, OrderMore
<1>17. Sources'
  <2>1. Ordered(got)' BY <1>2, <1>16 DEF Ordered
  <2>2. how' = "stream" => source' = 2 * Base' + done'
    <3> SUFFICES ASSUME how' = "stream" PROVE source' = 2 * Base' + done' OBVIOUS
    <3>1. source = 2 * Base + done BY <1>2, <1>5
    <3> QED BY <1>3, <1>4, <1>8, <1>9, <3>1
  <2>3. how' = "device" =>
         /\ Even(done') /\ Even(source') /\ done' <= source'
         /\ \A i \in DOMAIN got' : got'[i] <= source' \div 2
     BY <1>2, <1>12, <1>16
  <2> QED BY <1>1, <1>2, <2>1, <2>2, <2>3 DEF Sources
<1>18. Placed(out', got')
  <2>1. Len(got) <= Len(got') /\ \A i \in DOMAIN got : got'[i] = got[i]
    <3>1. Len(got) <= Len(got') BY <1>3, <1>6, <1>7
    <3>2. ASSUME NEW i \in DOMAIN got PROVE got'[i] = got[i]
      <4>1. i \in 1..Len(got) BY <1>3, LenProperties
      <4>2. Len(got') \in Nat BY <1>6, LenProperties
      <4>3. i \in 1..Len(got') /\ i <= Len(got) BY <1>3, <3>1, <4>1, <4>2
      <4>4. Grown(got, got', Base, off) BY <1>6
      <4> QED BY <4>3, <4>4 DEF Grown
    <3> QED BY <3>1, <3>2
  <2>2. Len(out) * C!Window <= Len(got) BY <1>3, <1>7 DEF Base
  <2>3. out \in Seq([1..C!Window -> Nat]) /\ Placed(out, got) BY DEF ClassTypes
  <2>4. Placed(out, got') BY <1>3, <1>6, <2>1, <2>2, <2>3, PlacedStays
  <2> QED BY <1>2, <2>4
<1>19. AllGiven' BY <1>1, <1>2 DEF AllGiven
<1>20. Placed(out, got)' BY <1>18 DEF Placed
<1> QED BY <1>10, <1>11, <1>17, <1>19, <1>20

\* The device captures on, the source ends, the window is there, or the
\* pipeline is stopped.
LEMMA ClassWaits ==
  ASSUME ClassInv, C!Overrun \/ C!EndOfInput \/ C!WindowRead \/ C!Interrupted
  PROVE  ClassInv'
<1> USE DEF ClassInv
<1>1. /\ pc = "read" /\ how # "file" /\ SoFar(window, got, Base, done \div 2) /\ eof = FALSE
      /\ window \in [1..C!Window -> Nat] /\ DOMAIN mel = 1..Frames /\ batch = 0
   BY DEF C!Overrun, C!EndOfInput, C!WindowRead, C!Interrupted, Reading, ClassTypes
<1>2. UNCHANGED <<how, n, chunk, batch, window, done, mel, got, out>>
   BY DEF C!Overrun, C!EndOfInput, C!WindowRead, C!Interrupted, C!listening
<1>3. /\ source' \in Nat /\ eof' \in BOOLEAN /\ overruns' \in 0..MaxOverruns /\ pc' \in {"read", "full", "killed"}
      /\ (pc' \in {"read", "killed"} => eof' = FALSE) /\ (pc' = "full" => eof' \/ done = C!Bytes)
  <2>1. CASE C!Overrun
    <3>1. source' = source + 2 /\ overruns' = overruns + 1 /\ overruns < MaxOverruns /\ eof' = eof /\ pc' = pc
       BY <2>1 DEF C!Overrun
    <3>2. source \in Nat /\ overruns \in 0..MaxOverruns /\ MaxOverruns \in Nat
       BY PipelinesAssumption DEF ClassTypes
    <3>3. overruns' \in 0..MaxOverruns
      <4>1. overruns \in Nat /\ overruns + 1 <= MaxOverruns BY <3>1, <3>2
      <4> QED BY <3>1, <3>2, <4>1
    <3>4. source' \in Nat BY <3>1, <3>2
    <3> QED BY <1>1, <3>1, <3>3, <3>4
  <2>2. CASE C!EndOfInput BY <2>2 DEF C!EndOfInput, ClassTypes
  <2>3. CASE C!WindowRead BY <1>1, <2>3 DEF C!WindowRead, C!listening, ClassTypes
  <2>4. CASE C!Interrupted BY <1>1, <2>4 DEF C!Interrupted, C!listening, ClassTypes
  <2> QED BY <2>1, <2>2, <2>3, <2>4
<1>4. Base' = Base BY <1>2 DEF Base
<1>5. ClassTypes' BY <1>1, <1>2, <1>3 DEF ClassTypes
<1>6. Reading' BY <1>1, <1>2, <1>3, <1>4 DEF Reading
<1>7. Sources'
  <2>1. Ordered(got)' BY <1>2 DEF Ordered, Sources
  <2>2. how' = "stream" => source' = source
     BY <1>2 DEF C!Overrun, C!EndOfInput, C!WindowRead, C!Interrupted, C!listening
  <2>3. how' = "stream" => source' = 2 * Base' + done' BY <1>1, <1>2, <1>4, <2>2 DEF Sources
  <2>4. ASSUME how' = "device"
        PROVE  /\ Even(done') /\ Even(source') /\ done' <= source'
               /\ \A i \in DOMAIN got' : got'[i] <= source' \div 2
    <3>1. /\ Even(done) /\ Even(source) /\ done <= source /\ source \in Nat /\ done \in Nat
          /\ \A i \in DOMAIN got : got[i] <= source \div 2
       BY <1>2, <2>4, BaseFacts DEF Sources, ClassTypes
    <3>2. CASE source' = source BY <1>2, <3>1, <3>2
    <3>3. CASE source' = source + 2
      <4> DEFINE t == source \div 2
      <4>1. t \in Nat /\ source = 2 * t BY <3>1, Halves DEF Even
      <4> HIDE DEF t
      <4>2. source' = 2 * (t + 1) /\ t + 1 \in Nat BY <3>3, <4>1
      <4>3. source' \div 2 = t + 1 BY <4>2, Halves
      <4>4. Even(source') BY <4>2, <4>3 DEF Even
      <4>5. ASSUME NEW i \in DOMAIN got PROVE got[i] <= t + 1
        <5>1. got[i] <= t BY <3>1 DEF t
        <5>2. got[i] \in Nat BY ElementOfSeq, BaseFacts DEF ClassTypes
        <5> QED BY <4>1, <5>1, <5>2
      <4>6. done <= source + 2 BY <3>1
      <4> QED BY <1>2, <3>1, <3>3, <4>3, <4>4, <4>5, <4>6
    <3>4. source' = source \/ source' = source + 2
       BY DEF C!Overrun, C!EndOfInput, C!WindowRead, C!Interrupted, C!listening
    <3> QED BY <3>2, <3>3, <3>4
  <2> QED BY <1>1, <1>2, <2>1, <2>3, <2>4 DEF Sources
<1>8. Placed(out, got)' BY <1>2 DEF Placed
<1>9. AllGiven' BY <1>3 DEF AllGiven
<1> QED BY <1>5, <1>6, <1>7, <1>8, <1>9

LEMMA ClassFails ==
  ASSUME ClassInv, C!StageFails
  PROVE  ClassInv'
<1> USE DEF ClassInv
<1>1. UNCHANGED <<how, n, window, done, eof, source, overruns, got, chunk, batch, mel, out>> /\ pc' = "failed"
   BY DEF C!StageFails, C!listening
<1>2. ClassTypes' BY <1>1 DEF ClassTypes
<1>3. Reading' BY <1>1 DEF Reading
<1>4. Sources'
  <2>1. Ordered(got)' BY <1>1 DEF Ordered, Sources
  <2> QED BY <1>1, <2>1 DEF Sources
<1>5. Placed(out, got)' BY <1>1 DEF Placed
<1>6. AllGiven' BY <1>1 DEF AllGiven
<1> QED BY <1>2, <1>3, <1>4, <1>5, <1>6

LEMMA NoBatch ==
  /\ 0 * BatchSize = 0 /\ 0 * BatchSize < Frames
  /\ MelTo(0)
<1>1. Frames \in Nat \ {0} /\ BatchSize \in Nat BY ClassFacts
<1>2. 0 * BatchSize = 0 BY <1>1, NoneOf
<1>3. \A f \in 1..Frames : ~(f <= 0) BY <1>1
<1> QED BY <1>1, <1>2, <1>3 DEF MelTo

LEMMA FullKeeps ==
  ASSUME ClassInv, C!Full
  PROVE  ClassInv'
<1> USE DEF ClassInv
<1>1. /\ pc = "full" /\ how # "file" /\ SoFar(window, got, Base, done \div 2) /\ (eof \/ done = C!Bytes)
      /\ window \in [1..C!Window -> Nat] /\ DOMAIN mel = 1..Frames /\ batch = 0
   BY DEF C!Full, Reading, ClassTypes
<1>2. UNCHANGED <<how, n, chunk, batch, done, eof, source, overruns, mel, got, out>> BY DEF C!Full
<1>3. window' = [s \in 1..C!Window |-> IF s <= done \div 2 THEN window[s] ELSE 0] BY DEF C!Full
<1>4. pc' \in {"passed", "stft"} /\ (pc' = "passed" => done = 0) BY DEF C!Full
<1>5. Base' = Base BY <1>2 DEF Base
<1>6. Base \in Nat /\ done \div 2 \in Nat /\ Len(got) \in Nat /\ C!Window \in Nat BY BaseFacts, ClassFacts DEF ClassTypes
<1>7. window' \in [1..C!Window -> Nat]
  <2>1. ASSUME NEW s \in 1..C!Window PROVE 0 \in Nat /\ window[s] \in Nat BY <1>1
  <2> QED BY <1>3, <2>1
<1>8. Upcoming(window', got, Base)
  <2> DEFINE c == done \div 2
             base == Base
  <2>1. /\ base \in Nat /\ c \in Nat /\ Len(got) = base + c /\ \A s \in 1..c : window[s] = got[base + s]
     BY <1>1, <1>6 DEF SoFar
  <2>2. window' = [s \in 1..C!Window |-> IF s <= c THEN window[s] ELSE 0] BY <1>3
  <2> HIDE DEF c, base
  <2>3. ASSUME NEW s \in 1..C!Window PROVE window'[s] = IF base + s <= Len(got) THEN got[base + s] ELSE 0
    <3>1. s \in Nat /\ 1 <= s BY <1>6
    <3>2. CASE s <= c
      <4>1. s \in 1..c /\ base + s <= Len(got) BY <2>1, <3>1, <3>2
      <4>2. window[s] = got[base + s] BY <2>1, <4>1
      <4> QED BY <2>2, <3>2, <4>1, <4>2
    <3>3. CASE ~(s <= c)
      <4>1. ~(base + s <= Len(got)) BY <2>1, <3>1, <3>3
      <4> QED BY <2>2, <3>3, <4>1
    <3> QED BY <3>2, <3>3
  <2>4. base <= Len(got) BY <2>1
  <2> QED BY <2>3, <2>4 DEF Upcoming, base
<1>9. ClassTypes' BY <1>1, <1>2, <1>4, <1>7 DEF ClassTypes
<1>10. Reading'
  <2>1. Len(got) = Base + (done \div 2) BY <1>1 DEF SoFar
  <2>2. (batch * BatchSize < Frames)' /\ MelTo(batch * BatchSize)'
    <3>1. batch' = 0 BY <1>1, <1>2
    <3>2. MelTo(0)'
      <4>1. \A f \in 1..Frames : ~(f <= 0) BY ClassFacts
      <4> QED BY <4>1 DEF MelTo
    <3>3. batch' * BatchSize = 0 /\ 0 < Frames BY <3>1, NoBatch
    <3> QED BY <3>2, <3>3 DEF MelTo
  <2> QED BY <1>1, <1>2, <1>4, <1>5, <1>8, <2>1, <2>2 DEF Reading
<1>11. Sources'
  <2>1. Ordered(got)' BY <1>2 DEF Ordered, Sources
  <2> QED BY <1>1, <1>2, <1>4, <1>5, <2>1 DEF Sources
<1>12. Placed(out, got)' BY <1>2 DEF Placed
<1>13. AllGiven'
  <2>1. pc' = "passed" => Len(got) <= Len(out) * C!Window
    <3> SUFFICES ASSUME pc' = "passed" PROVE Len(got) <= Len(out) * C!Window OBVIOUS
    <3>1. done = 2 * 0 /\ 0 \in Nat BY <1>4
    <3>2. done \div 2 = 0 BY <3>1, Halves
    <3>3. Len(got) = Base + 0 BY <1>1, <3>2 DEF SoFar
    <3> QED BY <1>6, <3>3 DEF Base
  <2> QED BY <1>1, <1>2, <2>1 DEF AllGiven
<1> QED BY <1>9, <1>10, <1>11, <1>12, <1>13

\* A batch of frames reaches the buffer of the model.
LEMMA StftKeepsMel ==
  ASSUME ClassInv, C!Stft
  PROVE  ClassInv'
<1> USE DEF ClassInv
<1>1. /\ pc = "stft" /\ window \in [1..C!Window -> Nat] /\ DOMAIN mel = 1..Frames
      /\ batch \in Nat /\ batch * BatchSize < Frames /\ MelTo(batch * BatchSize)
      /\ Upcoming(window, got, Base)
      /\ (how = "file" => chunk = Len(out) + 1 /\ chunk * Frames <= C!FileFrames)
      /\ (how # "file" => Len(got) = Base + (done \div 2) /\ (eof \/ done = C!Bytes))
   BY DEF C!Stft, Reading, ClassTypes
<1>2. UNCHANGED <<how, n, window, done, eof, source, overruns, got, chunk, out>> BY DEF C!Stft, C!listening
<1>3. Frames \in Nat \ {0} /\ BatchSize \in Nat \ {0} BY ClassFacts
<1>4. /\ IF batch + 1 < C!Times THEN batch' = batch + 1 /\ pc' = pc ELSE batch' = 0 /\ pc' = "infer"
   BY DEF C!Stft
<1>5. mel' = [f \in 1..Frames |->
                IF batch * BatchSize < f /\ f <= (batch + 1) * BatchSize THEN C!FrameOf(f) ELSE mel[f]]
   BY DEF C!Stft
<1>6. batch + 1 < C!Times <=> (batch + 1) * BatchSize < Frames
  <2>1. C!Times = S!Batches(Frames, BatchSize) BY DEF C!Times, S!Batches
  <2>2. batch + 1 \in Nat /\ Frames \in Nat BY <1>1, <1>3
  <2> DEFINE next == batch + 1
  <2>3. next < S!Batches(Frames, BatchSize) <=> next * BatchSize < Frames
    <3> HIDE DEF next
    <3>1. next \in Nat BY <2>2 DEF next
    <3> QED BY <1>3, <2>2, <3>1, BatchesOf
  <2> QED BY <2>1, <2>3
<1>7. \A f \in 1..Frames : f <= (batch + 1) * BatchSize => mel'[f] = C!FrameOf(f)
  <2> SUFFICES ASSUME NEW f \in 1..Frames, f <= (batch + 1) * BatchSize PROVE mel'[f] = C!FrameOf(f)
     OBVIOUS
  <2>1. mel'[f] = IF batch * BatchSize < f /\ f <= (batch + 1) * BatchSize THEN C!FrameOf(f) ELSE mel[f]
     BY <1>5
  <2>2. f \in Nat /\ batch * BatchSize \in Nat BY <1>1, <1>3, Times
  <2>3. CASE batch * BatchSize < f BY <2>1, <2>3
  <2>4. CASE ~(batch * BatchSize < f)
    <3>1. f <= batch * BatchSize BY <2>2, <2>4
    <3>2. mel[f] = C!FrameOf(f) BY <1>1, <3>1 DEF MelTo
    <3> QED BY <2>1, <2>4, <3>2
  <2> QED BY <2>3, <2>4
<1>8. \A f : C!FrameOf(f)' = C!FrameOf(f) BY <1>2 DEF C!FrameOf
<1>9. Base' = Base BY <1>2 DEF Base
<1>10. CASE batch + 1 < C!Times
  <2>1. batch' = batch + 1 /\ pc' = pc BY <1>4, <1>10
  <2>2. (batch + 1) * BatchSize < Frames BY <1>6, <1>10
  <2>3. MelTo(batch * BatchSize)' BY <1>7, <1>8, <2>1 DEF MelTo, C!FrameOf
  <2>4. batch' \in Nat /\ batch' * BatchSize < Frames BY <1>1, <2>1, <2>2
  <2>5. ClassTypes' BY <1>1, <1>2, <1>5, <2>1, <2>4 DEF ClassTypes
  <2>6. Reading'
    <3>1. C!FileFrames' = C!FileFrames BY <1>2 DEF C!FileFrames, C!FileSamples
    <3> QED BY <1>1, <1>2, <1>9, <2>1, <2>3, <2>4, <3>1 DEF Reading
  <2>7. Sources'
    <3>1. Ordered(got)' BY <1>2 DEF Ordered, Sources
    <3>2. C!FileSamples' = C!FileSamples BY <1>2 DEF C!FileSamples
    <3> QED BY <1>1, <1>2, <1>9, <2>1, <3>1, <3>2 DEF Sources
  <2>8. Placed(out, got)' BY <1>2 DEF Placed
  <2>9. AllGiven' BY <1>1, <2>1 DEF AllGiven
  <2> QED BY <2>5, <2>6, <2>7, <2>8, <2>9
<1>11. CASE ~(batch + 1 < C!Times)
  <2>1. batch' = 0 /\ pc' = "infer" BY <1>4, <1>11
  <2>2. Frames <= (batch + 1) * BatchSize
    <3>1. (batch + 1) * BatchSize \in Int
      <4>1. batch + 1 \in Int /\ BatchSize \in Nat BY <1>1, <1>3
      <4> QED BY <4>1, Times
    <3> QED BY <1>3, <1>6, <1>11, <3>1
  <2>3. MelTo(Frames)'
    <3>1. \A f \in 1..Frames : mel'[f] = C!FrameOf(f)
      <4> SUFFICES ASSUME NEW f \in 1..Frames PROVE mel'[f] = C!FrameOf(f) OBVIOUS
      <4> DEFINE upto == (batch + 1) * BatchSize
      <4>1. upto \in Int
        <5>1. batch + 1 \in Int /\ BatchSize \in Nat BY <1>1, <1>3
        <5> QED BY <5>1, Times
      <4>2. f \in Nat /\ f <= Frames /\ Frames <= upto BY <1>3, <2>2
      <4> HIDE DEF upto
      <4>3. f <= upto BY <1>3, <4>1, <4>2
      <4> QED BY <1>7, <4>3 DEF upto
    <3> QED BY <1>8, <3>1 DEF MelTo, C!FrameOf
  <2>5. ClassTypes' BY <1>1, <1>2, <1>5, <2>1 DEF ClassTypes
  <2>6. Reading'
    <3>1. C!FileFrames' = C!FileFrames BY <1>2 DEF C!FileFrames, C!FileSamples
    <3> QED BY <1>1, <1>2, <1>9, <2>1, <2>3, <3>1 DEF Reading
  <2>7. Sources'
    <3>1. Ordered(got)' BY <1>2 DEF Ordered, Sources
    <3>2. C!FileSamples' = C!FileSamples BY <1>2 DEF C!FileSamples
    <3> QED BY <1>1, <1>2, <1>9, <2>1, <3>1, <3>2 DEF Sources
  <2>8. Placed(out, got)' BY <1>2 DEF Placed
  <2>9. AllGiven' BY <2>1 DEF AllGiven
  <2> QED BY <2>5, <2>6, <2>7, <2>8, <2>9
<1> QED BY <1>10, <1>11

\* The frames of the window, one after another, are the window.
LEMMA GivenWindow ==
  ASSUME MelTo(Frames), window \in [1..C!Window -> Nat]
  PROVE  C!Given = window
<1>1. Frames \in Nat \ {0} /\ HopSize \in Nat \ {0} /\ C!Window = Frames * HopSize /\ C!Window \in Nat BY ClassFacts
<1>2. ASSUME NEW s \in 1..C!Window
      PROVE  mel[(s - 1) \div HopSize + 1][((s - 1) % HopSize) + 1] = window[s]
  <2> DEFINE q == (s - 1) \div HopSize
             r == (s - 1) % HopSize
             f == q + 1
  <2>1. s - 1 \in Nat /\ s - 1 < Frames * HopSize BY <1>1
  <2>2. q \in 0..(Frames - 1) BY <1>1, <2>1, Under
  <2>3. q \in Nat /\ r \in 0..(HopSize - 1) /\ s - 1 = q * HopSize + r BY <1>1, <2>1, DivMod
  <2>4. q * HopSize \in Nat /\ (q + 1) * HopSize = q * HopSize + HopSize BY <1>1, <2>3, Times
  <2>5. (q + 1) * HopSize <= C!Window
    <3>1. q + 1 \in Nat /\ q + 1 <= Frames BY <1>1, <2>2
    <3> QED BY <1>1, <3>1, Order
  <2> HIDE DEF q, r
  <2>6. f \in 1..Frames /\ f <= Frames /\ f - 1 = q BY <1>1, <2>2
  <2>7. mel[f] = C!FrameOf(f) BY <2>6 DEF MelTo
  <2>8. C!FrameOf(f) = SubSeq(window, q * HopSize + 1, (q + 1) * HopSize) BY <2>6 DEF C!FrameOf
  <2> DEFINE low == q * HopSize + 1
             high == (q + 1) * HopSize
  <2>9. low \in Int /\ high \in Int /\ 1 <= low /\ high <= C!Window /\ high - low + 1 = HopSize /\ low + r = s
     BY <1>1, <2>3, <2>4, <2>5
  <2> HIDE DEF low, high
  <2>10. \A i \in low..high : window[i] \in Nat
    <3>1. \A i \in low..high : i \in 1..C!Window BY <1>1, <2>9
    <3> QED BY <3>1
  <2>11. \A i \in 1..(high - low + 1) : SubSeq(window, low, high)[i] = window[low + i - 1]
     BY <2>9, <2>10, SubSeqProperties
  <2>12. r + 1 \in 1..(high - low + 1) /\ low + (r + 1) - 1 = s BY <1>1, <2>3, <2>9
  <2>13. SubSeq(window, low, high)[r + 1] = window[s] BY <2>11, <2>12
  <2>14. mel[q + 1][r + 1] = window[s] BY <2>7, <2>8, <2>13 DEF low, high
  <2> QED BY <2>14 DEF q, r
<1>3. C!Given = [s \in 1..C!Window |-> window[s]] BY <1>2 DEF C!Given
<1> QED BY <1>3

\* The model is given the window.
LEMMA InferKeeps ==
  ASSUME ClassInv, C!Infer
  PROVE  ClassInv'
<1> USE DEF ClassInv
<1>1. /\ pc = "infer" /\ window \in [1..C!Window -> Nat] /\ DOMAIN mel = 1..Frames
      /\ MelTo(Frames) /\ batch = 0 /\ Upcoming(window, got, Base)
      /\ (how = "file" => chunk = Len(out) + 1 /\ chunk * Frames <= C!FileFrames)
      /\ (how # "file" => Len(got) = Base + (done \div 2) /\ (eof \/ done = C!Bytes))
   BY DEF C!Infer, Reading, ClassTypes
<1>2. UNCHANGED <<how, n, chunk, batch, window, eof, source, overruns, mel, got>> /\ done' = 0
      /\ out' = Append(out, C!Given)
   BY DEF C!Infer
<1>3. pc' = IF how = "file" THEN "chunk" ELSE IF eof THEN "passed" ELSE "read" BY DEF C!Infer
<1>4. /\ Len(out) \in Nat /\ Base \in Nat /\ Len(got) \in Nat /\ done \div 2 \in Nat /\ done \div 2 <= C!Window
      /\ C!Window \in Nat /\ C!Bytes = 2 * C!Window /\ C!Bytes \div 2 = C!Window /\ C!Bytes \in Nat
   BY BaseFacts, ClassFacts
<1>5. C!Given = window BY <1>1, GivenWindow
<1>6. out \in Seq([1..C!Window -> Nat]) /\ got \in Seq(Nat) BY DEF ClassTypes
<1>7. /\ out' \in Seq([1..C!Window -> Nat]) /\ Len(out') = Len(out) + 1 /\ Placed(out', got)
  <2>1. Upcoming(window, got, Len(out) * C!Window) BY <1>1 DEF Base
  <2>2. Placed(out, got) OBVIOUS
  <2>3. out' = Append(out, window) BY <1>2, <1>5
  <2> QED BY <1>1, <1>6, <2>1, <2>2, <2>3, PlacedMore
<1>8. Base' = Base + C!Window
  <2>1. Base' = (Len(out) + 1) * C!Window BY <1>7 DEF Base
  <2>2. (Len(out) + 1) * C!Window = Len(out) * C!Window + C!Window BY <1>4, Times
  <2> QED BY <2>1, <2>2 DEF Base
<1>9. 0 \div 2 = 0 /\ 0 = 2 * 0
  <2>1. (2 * 0) \div 2 = 0
    <3>1. 0 \in Nat OBVIOUS
    <3> QED BY <3>1, Halves
  <2> QED BY <2>1
<1>10. ClassTypes'
  <2>1. 0 \in 0..C!Bytes BY <1>4
  <2> QED BY <1>1, <1>2, <1>3, <1>7, <2>1 DEF ClassTypes
<1>11. pc' = "read" => done = C!Bytes /\ Len(got) = Base' /\ eof' = FALSE
  <2> SUFFICES ASSUME pc' = "read" PROVE done = C!Bytes /\ Len(got) = Base' /\ eof' = FALSE OBVIOUS
  <2>1. how # "file" /\ ~eof BY <1>3
  <2>2. eof = FALSE BY <2>1 DEF ClassTypes
  <2>3. done = C!Bytes /\ Len(got) = Base + (done \div 2) BY <1>1, <2>1
  <2> QED BY <1>2, <1>4, <1>8, <2>2, <2>3
<1>12. Reading'
  <2>1. pc' = "chunk" => how' = "file" /\ chunk' = Len(out') /\ chunk' * Frames <= C!FileFrames'
    <3>1. C!FileFrames' = C!FileFrames BY <1>2 DEF C!FileFrames, C!FileSamples
    <3> QED BY <1>1, <1>2, <1>3, <1>7, <3>1
  <2>2. pc' = "read" => how' # "file" /\ SoFar(window, got, Base, 0)'
    <3> SUFFICES ASSUME pc' = "read" PROVE how' # "file" /\ SoFar(window, got, Base, 0)' OBVIOUS
    <3>1. Len(got') = Base' + 0 BY <1>2, <1>4, <1>8, <1>11
    <3>2. \A s \in 1..0 : window'[s] = got'[Base' + s] OBVIOUS
    <3> QED BY <1>2, <1>3, <3>1, <3>2 DEF SoFar
  <2>3. SoFar(window, got, Base, 0)' => SoFar(window, got, Base, done \div 2)'
    <3>1. done' \div 2 = 0 BY <1>2, <1>9
    <3> QED BY <3>1 DEF SoFar
  <2>4. pc' \in {"chunk", "read", "passed"} BY <1>3
  <2> QED BY <1>1, <1>2, <1>11, <2>1, <2>2, <2>3, <2>4 DEF Reading
<1>13. Sources'
  <2>1. Ordered(got)' BY <1>2 DEF Ordered, Sources
  <2>2. how' = "stream" /\ pc' = "read" => source' = 2 * Base' + done'
    <3> SUFFICES ASSUME how' = "stream", pc' = "read" PROVE source' = 2 * Base' + done' OBVIOUS
    <3>1. source = 2 * Base + done BY <1>1, <1>2 DEF Sources
    <3>2. source = 2 * Base + 2 * C!Window BY <1>4, <1>11, <3>1
    <3> DEFINE base == Base
               size == C!Window
    <3>3. base \in Nat /\ size \in Nat /\ source = 2 * base + 2 * size BY <1>4, <3>2
    <3> HIDE DEF base, size
    <3>4. source = 2 * (base + size) + 0 BY <3>3
    <3> QED BY <1>2, <1>8, <3>4 DEF base, size
  <2>3. how' = "device" => /\ Even(done') /\ Even(source') /\ done' <= source'
                           /\ \A i \in DOMAIN got' : got'[i] <= source' \div 2
    <3>1. Even(0) BY <1>9 DEF Even
    <3>2. source \in Nat BY DEF ClassTypes
    <3>3. 0 <= source BY <3>2
    <3> QED BY <1>2, <3>1, <3>3 DEF Sources
  <2>4. how' = "file" => Len(got') = C!FileSamples'
    <3>1. C!FileSamples' = C!FileSamples BY <1>2 DEF C!FileSamples
    <3> QED BY <1>1, <1>2, <3>1 DEF Sources
  <2>5. pc' \in {"chunk", "read", "passed"} BY <1>3
  <2> QED BY <2>1, <2>2, <2>3, <2>4, <2>5 DEF Sources
<1>14. Placed(out, got)'
  <2>1. Placed(out', got') BY <1>2, <1>7
  <2> QED BY <2>1 DEF Placed
<1>15. AllGiven'
  <2> SUFFICES ASSUME pc' = "passed" PROVE how' # "file" /\ Len(got') <= Len(out') * C!Window
     BY DEF AllGiven
  <2>1. how # "file" BY <1>3
  <2>2. Len(got) = Base + (done \div 2) BY <1>1, <2>1
  <2> DEFINE half == done \div 2
             size == C!Window
             base == Base
  <2>3. half \in Nat /\ size \in Nat /\ base \in Nat /\ half <= size /\ Len(got) = base + half BY <1>4, <2>2
  <2> HIDE DEF half, size, base
  <2>4. Len(got) <= base + size BY <2>3
  <2>5. Base' = Len(out') * C!Window BY DEF Base
  <2> QED BY <1>2, <1>8, <2>1, <2>4, <2>5 DEF base, size
<1> QED BY <1>10, <1>12, <1>13, <1>14, <1>15

\* A full window of the file lies inside it.
LEMMA WindowFits ==
  ASSUME NEW samples \in Nat, NEW k \in Nat, (k + 1) * Frames <= S!Batches(samples, HopSize)
  PROVE  k * C!Window <= samples
<1>1. Frames \in Nat \ {0} /\ HopSize \in Nat \ {0} /\ C!Window = Frames * HopSize BY ClassFacts
<1>2. k * Frames \in Nat /\ (k + 1) * Frames = k * Frames + Frames BY <1>1, Times
<1>3. S!Batches(samples, HopSize) \in Nat BY <1>1, BatchesOf
<1>4. k * Frames < S!Batches(samples, HopSize) BY <1>1, <1>2, <1>3
<1>5. (k * Frames) * HopSize < samples BY <1>1, <1>2, <1>4, BatchesOf
<1>6. (k * Frames) * HopSize = k * (Frames * HopSize) BY <1>1
<1>7. (k * Frames) * HopSize \in Nat BY <1>1, <1>2, Times
<1> QED BY <1>1, <1>5, <1>6, <1>7

LEMMA ChunkKeeps ==
  ASSUME ClassInv, C!Chunk
  PROVE  ClassInv'
<1> USE DEF ClassInv
<1>1. /\ pc = "chunk" /\ how = "file" /\ chunk = Len(out) /\ batch = 0 /\ DOMAIN mel = 1..Frames
      /\ (chunk + 1) * Frames <= C!FileFrames
   BY DEF C!Chunk, Reading, ClassTypes
<1>2. UNCHANGED <<how, n, batch, done, eof, source, overruns, mel, got, out>> /\ chunk' = chunk + 1 /\ pc' = "stft"
   BY DEF C!Chunk
<1>3. window' = [s \in 1..C!Window |->
                   IF chunk * C!Window + s <= C!FileSamples THEN chunk * C!Window + s ELSE 0]
   BY DEF C!Chunk
<1>4. n \in Nat /\ C!Window \in Nat /\ chunk \in Nat /\ Len(got) \in Nat /\ got \in Seq(Nat)
      /\ Base \in Nat /\ Base = chunk * C!Window /\ DOMAIN got = 1..Len(got)
   BY <1>1, BaseFacts, ClassFacts DEF ClassTypes, Base
<1>5. C!FileSamples \in Nat /\ Len(got) = C!FileSamples
  <2>1. C!FileSamples \in Nat BY <1>4, Halves DEF C!FileSamples
  <2> QED BY <1>1, <2>1 DEF Sources
<1>6. C!FileFrames = S!Batches(C!FileSamples, HopSize) BY DEF C!FileFrames, S!Batches
<1>7. Base <= Len(got)
  <2> DEFINE samples == C!FileSamples
  <2>1. samples \in Nat /\ (chunk + 1) * Frames <= S!Batches(samples, HopSize) BY <1>1, <1>5, <1>6
  <2> HIDE DEF samples
  <2>2. chunk * C!Window <= samples BY <1>4, <2>1, WindowFits
  <2> QED BY <1>4, <1>5, <2>2 DEF samples
<1>8. \A i \in DOMAIN got : got[i] = i BY <1>1 DEF Sources, Ordered
<1>9. window' \in [1..C!Window -> Nat] /\ Upcoming(window', got, Base)
  <2> DEFINE base == Base
  <2>1. window' = [s \in 1..C!Window |-> IF base + s <= Len(got) THEN base + s ELSE 0] BY <1>3, <1>4, <1>5
  <2>2. base \in Nat /\ base <= Len(got) BY <1>4, <1>7
  <2> HIDE DEF base
  <2>3. \A s \in 1..C!Window : base + s \in Nat /\ 1 <= base + s BY <1>4, <2>2
  <2>4. window' \in [1..C!Window -> Nat] BY <2>1, <2>3
  <2>5. ASSUME NEW s \in 1..C!Window PROVE window'[s] = IF base + s <= Len(got) THEN got[base + s] ELSE 0
    <3>1. window'[s] = IF base + s <= Len(got) THEN base + s ELSE 0 BY <2>1
    <3>2. CASE base + s <= Len(got)
      <4>1. base + s \in DOMAIN got BY <1>4, <2>3, <3>2
      <4>2. got[base + s] = base + s BY <1>8, <4>1
      <4> QED BY <3>1, <3>2, <4>2
    <3>3. CASE ~(base + s <= Len(got)) BY <3>1, <3>3
    <3> QED BY <3>2, <3>3
  <2>6. Upcoming(window', got, base) BY <2>2, <2>5 DEF Upcoming
  <2> QED BY <2>4, <2>6 DEF base
<1>10. Base' = Base BY <1>2 DEF Base
<1>11. ClassTypes' BY <1>1, <1>2, <1>4, <1>9 DEF ClassTypes
<1>12. Reading'
  <2>1. C!FileFrames' = C!FileFrames BY <1>2 DEF C!FileFrames, C!FileSamples
  <2>2. MelTo(0)'
    <3>1. \A f \in 1..Frames : ~(f <= 0) BY ClassFacts
    <3> QED BY <3>1 DEF MelTo
  <2>3. batch' * BatchSize = 0 /\ 0 < Frames BY <1>1, <1>2, NoBatch
  <2>4. (batch * BatchSize < Frames)' /\ MelTo(batch * BatchSize)' BY <2>2, <2>3 DEF MelTo
  <2> QED BY <1>1, <1>2, <1>9, <1>10, <2>1, <2>4 DEF Reading
<1>13. Sources'
  <2>1. Ordered(got)' BY <1>2 DEF Ordered, Sources
  <2>2. C!FileSamples' = C!FileSamples BY <1>2 DEF C!FileSamples
  <2> QED BY <1>1, <1>2, <1>5, <2>1, <2>2 DEF Sources
<1>14. Placed(out, got)' BY <1>2 DEF Placed
<1>15. AllGiven' BY <1>2 DEF AllGiven
<1> QED BY <1>11, <1>12, <1>13, <1>14, <1>15

\* What divides a number with less than a divisor left is the quotient.
LEMMA Quotient ==
  ASSUME NEW a \in Nat, NEW k \in Nat, NEW d \in Nat \ {0}, k * d <= a, a < (k + 1) * d
  PROVE  a \div d = k
<1> DEFINE q == a \div d
<1>1. q \in Nat /\ q * d <= a /\ a < q * d + d BY Division
<1>2. q * d \in Nat /\ k * d \in Nat /\ (k + 1) * d = k * d + d BY <1>1, Times
<1> HIDE DEF q
<1>3. ~(q < k)
  <2> SUFFICES ASSUME q < k PROVE FALSE OBVIOUS
  <2>1. q * d + d <= k * d BY <1>1, Monotone
  <2> QED BY <1>1, <1>2, <2>1
<1>4. ~(k < q)
  <2> SUFFICES ASSUME k < q PROVE FALSE OBVIOUS
  <2>1. k * d + d <= q * d BY <1>1, Monotone
  <2> QED BY <1>1, <1>2, <2>1
<1>5. q = k BY <1>1, <1>3, <1>4
<1> QED BY <1>5 DEF q

LEMMA FileDoneKeeps ==
  ASSUME ClassInv, C!FileDone
  PROVE  ClassInv'
<1> USE DEF ClassInv
<1>1. /\ pc = "chunk" /\ how = "file" /\ chunk = Len(out) /\ batch = 0 /\ DOMAIN mel = 1..Frames
      /\ window \in [1..C!Window -> Nat]
      /\ chunk * Frames <= C!FileFrames /\ (chunk + 1) * Frames > C!FileFrames
   BY DEF C!FileDone, Reading, ClassTypes
<1>2. UNCHANGED <<how, n, window, done, eof, source, overruns, got, chunk, batch, mel, out>> /\ pc' = "passed"
   BY DEF C!FileDone, C!listening
<1>3. n \in Nat /\ Len(out) \in Nat /\ Frames \in Nat \ {0} /\ HopSize \in Nat \ {0} BY BaseFacts, ClassFacts
<1>4. C!FileFrames \in Nat
  <2>1. C!FileSamples \in Nat BY <1>3, Halves DEF C!FileSamples
  <2>2. C!FileFrames = S!Batches(C!FileSamples, HopSize) BY DEF C!FileFrames, S!Batches
  <2> QED BY <1>3, <2>1, <2>2, BatchesOf
<1>5. C!FileFrames \div Frames = Len(out)
  <2> DEFINE all == C!FileFrames
             k == Len(out)
  <2>1. all \in Nat /\ k \in Nat /\ k * Frames <= all /\ (k + 1) * Frames > all BY <1>1, <1>3, <1>4
  <2> HIDE DEF all, k
  <2>2. (k + 1) * Frames \in Nat
    <3>1. k + 1 \in Nat /\ Frames \in Nat BY <1>3, <2>1
    <3> QED BY <3>1, Times
  <2>3. all < (k + 1) * Frames BY <2>1, <2>2
  <2>4. all \div Frames = k BY <1>3, <2>1, <2>3, Quotient
  <2> QED BY <2>4 DEF all, k
<1>6. C!FileFrames' = C!FileFrames /\ C!FileSamples' = C!FileSamples BY <1>2 DEF C!FileFrames, C!FileSamples
<1>7. ClassTypes' BY <1>1, <1>2 DEF ClassTypes
<1>8. Reading' BY <1>1, <1>2 DEF Reading
<1>9. Sources'
  <2>1. Ordered(got)' BY <1>2 DEF Ordered, Sources
  <2> QED BY <1>1, <1>2, <1>6, <2>1 DEF Sources
<1>10. Placed(out, got)' BY <1>2 DEF Placed
<1>11. AllGiven' BY <1>1, <1>2, <1>5, <1>6 DEF AllGiven
<1> QED BY <1>7, <1>8, <1>9, <1>10, <1>11

LEMMA ClassKeeps ==
  ASSUME ClassInv, C!Step \/ C!StageFails \/ C!Overrun \/ C!Interrupted
  PROVE  ClassInv'
<1>1. CASE C!Read \/ C!Capture BY <1>1, ReadKeeps
<1>2. CASE C!Overrun \/ C!EndOfInput \/ C!WindowRead \/ C!Interrupted BY <1>2, ClassWaits
<1>3. CASE C!Full BY <1>3, FullKeeps
<1>4. CASE C!Stft BY <1>4, StftKeepsMel
<1>5. CASE C!Infer BY <1>5, InferKeeps
<1>6. CASE C!Chunk BY <1>6, ChunkKeeps
<1>7. CASE C!FileDone BY <1>7, FileDoneKeeps
<1>8. CASE C!StageFails BY <1>8, ClassFails
<1> QED BY <1>1, <1>2, <1>3, <1>4, <1>5, <1>6, <1>7, <1>8 DEF C!Step

\* Nothing has been read and nothing given.
LEMMA NothingRead ==
  /\ <<>> \in Seq(Nat) /\ <<>> \in Seq([1..C!Window -> Nat]) /\ Len(<<>>) = 0
  /\ 0 * C!Window = 0 /\ 0 \div 2 = 0 /\ Even(0) /\ Ordered(<<>>) /\ Placed(<<>>, <<>>)
<1>1. <<>> \in Seq(Nat) /\ <<>> \in Seq([1..C!Window -> Nat]) /\ Len(<<>>) = 0 BY EmptySeq
<1>2. 0 * C!Window = 0 BY ClassFacts, NoneOf
<1>3. 0 \div 2 = 0 /\ 0 = 2 * 0
  <2>1. 0 \in Nat OBVIOUS
  <2>2. (2 * 0) \div 2 = 0 BY <2>1, Halves
  <2> QED BY <2>2
<1>4. Even(0) BY <1>3 DEF Even
<1>5. DOMAIN <<>> = {} OBVIOUS
<1>6. Ordered(<<>>) /\ Placed(<<>>, <<>>) BY <1>5 DEF Ordered, Placed
<1> QED BY <1>1, <1>2, <1>3, <1>4, <1>6

LEMMA ClassBegins ==
  ASSUME Fresh, pc = "start", how \in {"file", "stream", "device"}
  PROVE  ClassInv
<1>1. /\ n = 0 /\ done = 0 /\ eof = FALSE /\ overruns = 0 /\ chunk = 0 /\ batch = 0 /\ source = 0
      /\ got = <<>> /\ out = <<>>
   BY DEF Fresh
<1>2. 0 \in 0..C!Bytes /\ 0 \in 0..MaxOverruns
  <2>1. C!Bytes \in Nat /\ MaxOverruns \in Nat BY ClassFacts, PipelinesAssumption
  <2> QED BY <2>1
<1>3. ClassTypes BY <1>1, <1>2, NothingRead DEF ClassTypes
<1>4. Reading BY <1>1 DEF Reading
<1>5. Sources
  <2>1. \A i \in DOMAIN got : got[i] <= source \div 2
    <3>1. DOMAIN got = {} BY <1>1
    <3> QED BY <3>1
  <2>2. done <= source BY <1>1
  <2> QED BY <1>1, <2>1, <2>2, NothingRead DEF Sources
<1>6. Placed(out, got) BY <1>1, NothingRead
<1>7. AllGiven BY DEF AllGiven
<1> QED BY <1>3, <1>4, <1>5, <1>6, <1>7 DEF ClassInv

LEMMA ClassStarts ==
  ASSUME Fresh, C!Start, how \in {"file", "stream", "device"}
  PROVE  ClassInv'
<1>1. /\ n = 0 /\ done = 0 /\ eof = FALSE /\ overruns = 0 /\ chunk = 0 /\ batch = 0 /\ source = 0
      /\ got = <<>> /\ out = <<>>
   BY DEF Fresh
<1>2. /\ n' \in Sizes /\ window' = [s \in 1..C!Window |-> 0] /\ mel' = [f \in 1..Frames |-> <<>>]
      /\ (how = "file" => got' = [s \in 1..(n' \div 2) |-> s] /\ pc' = "chunk")
      /\ (how # "file" => got' = got /\ pc' = "read")
      /\ UNCHANGED <<how, chunk, batch, done, eof, source, overruns, out>>
   BY DEF C!Start
<1>3. n' \in Nat BY <1>2, PipelinesAssumption
<1>4. C!FileSamples' \in Nat /\ C!FileSamples' = n' \div 2 BY <1>3, Halves DEF C!FileSamples
<1>5. /\ got' \in Seq(Nat) /\ Ordered(got') /\ (how = "file" => Len(got') = C!FileSamples')
  <2>1. CASE how = "file"
    <3> DEFINE m == n' \div 2
    <3>1. m \in Nat /\ got' = [s \in 1..m |-> s] BY <1>2, <1>4, <2>1
    <3> HIDE DEF m
    <3>2. \A s \in 1..m : s \in Nat BY <3>1
    <3>3. got' \in [1..m -> Nat] BY <3>1, <3>2
    <3>4. got' \in Seq(Nat) /\ Len(got') = m /\ DOMAIN got' = 1..m BY <3>1, <3>3
    <3>5. \A i \in DOMAIN got' : got'[i] = i BY <3>1, <3>4
    <3>6. Ordered(got') BY <2>1, <3>5 DEF Ordered
    <3> QED BY <1>4, <3>4, <3>6 DEF m
  <2>2. CASE how # "file" BY <1>1, <1>2, <2>2, NothingRead
  <2> QED BY <2>1, <2>2
<1>6. Base' = 0
  <2>1. Len(out') = 0 BY <1>1, <1>2, EmptySeq
  <2> QED BY <2>1, NothingRead DEF Base
<1>7. ClassTypes'
  <2>1. 0 \in 0..C!Bytes /\ 0 \in 0..MaxOverruns
    <3>1. C!Bytes \in Nat /\ MaxOverruns \in Nat BY ClassFacts, PipelinesAssumption
    <3> QED BY <3>1
  <2>2. window' \in [1..C!Window -> Nat] /\ DOMAIN mel' = 1..Frames BY <1>2
  <2>3. pc' \in {"chunk", "read"} BY <1>2
  <2> QED BY <1>1, <1>2, <1>5, <2>1, <2>2, <2>3, NothingRead DEF ClassTypes
<1>8. Reading'
  <2>1. pc' = "chunk" => how' = "file" /\ chunk' = Len(out') /\ chunk' * Frames <= C!FileFrames'
    <3>1. Len(out') = 0 BY <1>1, <1>2, EmptySeq
    <3>2. 0 * Frames = 0 BY ClassFacts, NoneOf
    <3>3. C!FileFrames' \in Nat
      <4>1. C!FileFrames' = S!Batches(C!FileSamples', HopSize) BY DEF C!FileFrames, S!Batches
      <4> QED BY <1>4, <4>1, BatchesOf, ClassFacts
    <3>4. 0 <= C!FileFrames' BY <3>3
    <3> QED BY <1>1, <1>2, <3>1, <3>2, <3>4
  <2>2. pc' = "read" => how' # "file" /\ SoFar(window, got, Base, done \div 2)'
    <3> SUFFICES ASSUME pc' = "read" PROVE how' # "file" /\ SoFar(window, got, Base, done \div 2)' OBVIOUS
    <3>1. how # "file" /\ got' = <<>> /\ done' = 0 BY <1>1, <1>2
    <3>2. Len(got') = 0 + 0 BY <3>1, EmptySeq
    <3>3. done' \div 2 = 0 BY <3>1, NothingRead
    <3>4. \A s \in 1..0 : window'[s] = got'[Base' + s] OBVIOUS
    <3> QED BY <1>2, <1>6, <3>1, <3>2, <3>3, <3>4 DEF SoFar
  <2>3. pc' \in {"chunk", "read"} BY <1>2
  <2> QED BY <1>1, <1>2, <2>1, <2>2, <2>3 DEF Reading
<1>9. Sources'
  <2>1. Ordered(got)' BY <1>2, <1>5 DEF Ordered
  <2>2. how' = "stream" => source' = 2 * Base' + done' BY <1>1, <1>2, <1>6
  <2>3. how' = "device" => /\ Even(done') /\ Even(source') /\ done' <= source'
                           /\ \A i \in DOMAIN got' : got'[i] <= source' \div 2
    <3> SUFFICES ASSUME how' = "device"
                 PROVE  /\ Even(done') /\ Even(source') /\ done' <= source'
                        /\ \A i \in DOMAIN got' : got'[i] <= source' \div 2
       OBVIOUS
    <3>1. got' = <<>> /\ done' = 0 /\ source' = 0 BY <1>1, <1>2
    <3>2. DOMAIN got' = {} BY <3>1
    <3>3. done' <= source' BY <3>1
    <3> QED BY <3>1, <3>2, <3>3, NothingRead
  <2> QED BY <1>2, <1>5, <2>1, <2>2, <2>3 DEF Sources
<1>10. Placed(out, got)'
  <2>1. DOMAIN out' = {} BY <1>1, <1>2
  <2> QED BY <2>1 DEF Placed
<1>11. AllGiven' BY <1>2 DEF AllGiven
<1> QED BY <1>7, <1>8, <1>9, <1>10, <1>11 DEF ClassInv

ClassHeld == Begun("audio_classification") => ClassInv

LEMMA ClassHolds ==
  ASSUME ManagerInv, ClassHeld, Runs("audio_classification")
  PROVE  ClassInv
<1>1. pc = "start" => Fresh /\ how \in {"file", "stream", "device"} BY DEF ManagerInv
<1> QED BY <1>1, ClassBegins DEF ClassHeld, Begun

LEMMA ClassInductive ==
  ManagerInv /\ ClassHeld /\ [Next]_vars => ClassHeld'
<1> SUFFICES ASSUME ManagerInv, ClassHeld, [Next]_vars, Begun("audio_classification")' PROVE ClassInv'
  BY DEF ClassHeld
<1> DEFINE p == "audio_classification"
<1>1. /\ Runs(p)
      /\ \/ ClassifyStart \/ ClassifyStep \/ ClassifyFault
         \/ /\ ViewerConnects \/ ViewerReads \/ ViewerLeaves
            /\ UNCHANGED <<manager, doc, loop, speech, trip, listener>>
         \/ UNCHANGED vars
   BY Whose
<1>2. ClassInv BY <1>1, ClassHolds
<1>3. CASE ClassifyStart
  <2>1. C!Start /\ pc = "start" BY <1>3 DEF ClassifyStart, C!Start
  <2>2. Fresh /\ how \in {"file", "stream", "device"} BY <2>1 DEF ManagerInv
  <2> QED BY <2>1, <2>2, ClassStarts
<1>4. CASE ClassifyStep \/ ClassifyFault
  <2>1. C!Step \/ C!StageFails \/ C!Overrun \/ C!Interrupted BY <1>4 DEF ClassifyStep, ClassifyFault
  <2> QED BY <1>2, <2>1, ClassKeeps
<1>5. CASE \/ /\ ViewerConnects \/ ViewerReads \/ ViewerLeaves
              /\ UNCHANGED <<manager, doc, loop, speech, trip, listener>>
           \/ UNCHANGED vars
  <2>1. UNCHANGED <<how, n, pc, chunk, batch, out, window, done, eof, source, overruns, mel, got>>
     BY <1>5 DEF vars, manager, loop, listener
  <2>2. Base' = Base /\ C!FileSamples' = C!FileSamples /\ C!FileFrames' = C!FileFrames
     BY <2>1 DEF Base, C!FileSamples, C!FileFrames
  <2>3. ClassTypes' BY <1>2, <2>1 DEF ClassInv, ClassTypes
  <2>4. Reading' BY <1>2, <2>1, <2>2 DEF ClassInv, Reading, MelTo, C!FrameOf
  <2>5. Sources' BY <1>2, <2>1, <2>2 DEF ClassInv, Sources, Ordered
  <2>6. Placed(out, got)' BY <1>2, <2>1 DEF ClassInv, Placed
  <2>7. AllGiven' BY <1>2, <2>1, <2>2 DEF ClassInv, AllGiven
  <2> QED BY <2>3, <2>4, <2>5, <2>6, <2>7 DEF ClassInv
<1> QED BY <1>1, <1>3, <1>4, <1>5

LEMMA ClassAlways == Spec => [](ManagerInv /\ ClassHeld)
<1>1. Init => ClassHeld BY DEF Init, ClassHeld, Begun, Runs
<1> QED BY <1>1, StartsFresh, ManagerInductive, ClassInductive, PTL DEF Spec

\* What was read reaches the model once and in order, whatever the pieces it
\* was read in, the overruns between them and the batches (EachSampleOnce).
THEOREM EveryReadIsGiven == Spec => []EachSampleOnce
<1>1. ManagerInv /\ ClassHeld => EachSampleOnce
  <2> SUFFICES ASSUME ManagerInv, ClassHeld, Runs("audio_classification") PROVE C!EachSampleOnce
     BY DEF EachSampleOnce
  <2>1. ClassInv BY ClassHolds
  <2>2. pc = "start" => Fresh BY DEF ManagerInv
  <2>3. ASSUME how # "file", pc \in {"read", "killed"}
        PROVE  /\ Len(got) = Len(out) * C!Window + done \div 2
               /\ \A s \in 1..(done \div 2) : window[s] = got[C!Place(Len(out) + 1, s)]
    <3>1. SoFar(window, got, Base, done \div 2) BY <2>1, <2>3 DEF ClassInv, Reading
    <3>2. Len(got) = Base + done \div 2 /\ \A s \in 1..(done \div 2) : window[s] = got[Base + s]
       BY <3>1 DEF SoFar
    <3>3. ASSUME NEW s PROVE C!Place(Len(out) + 1, s) = Base + s
      <4>1. Len(out) \in Nat BY <2>1, BaseFacts DEF ClassInv
      <4>2. Len(out) + 1 - 1 = Len(out) BY <4>1
      <4> QED BY <4>2 DEF C!Place, Base
    <3> QED BY <3>2, <3>3 DEF Base
  <2>4. pc = "passed" => IF how = "file" THEN Len(out) = C!FileFrames \div Frames
                                        ELSE Len(got) <= Len(out) * C!Window
     BY <2>1 DEF ClassInv, AllGiven
  <2>5. \A i \in DOMAIN got : IF how = "device" THEN i > 1 => got[i - 1] < got[i] ELSE got[i] = i
     BY <2>1 DEF ClassInv, Sources, Ordered
  <2>6. Placed(out, got) BY <2>1 DEF ClassInv
  <2> QED BY <2>3, <2>4, <2>5, <2>6 DEF C!EachSampleOnce, Placed
<1> QED BY <1>1, ClassAlways, PTL

----------------------------------------------------------------------------
(* Types *)

TvmHeld == Runs("tvm_only") => pc \in {"start", "tensor", "infer", "save", "saved", "failed"}

LEMMA TvmInductive == ManagerInv /\ TvmHeld /\ [Next]_vars => TvmHeld'
<1> SUFFICES ASSUME ManagerInv, TvmHeld, [Next]_vars, Begun("tvm_only")'
             PROVE  pc' \in {"start", "tensor", "infer", "save", "saved", "failed"}
  BY DEF TvmHeld, Begun
<1> DEFINE p == "tvm_only"
<1>1. /\ Runs(p)
      /\ \/ TvmStep \/ TvmFails
         \/ /\ ViewerConnects \/ ViewerReads \/ ViewerLeaves
            /\ UNCHANGED <<manager, doc, loop, speech, trip, listener>>
         \/ UNCHANGED vars
   BY Whose
<1>2. CASE TvmStep \/ TvmFails BY <1>2 DEF TvmStep, TvmFails, TvmStage
<1>3. CASE \/ /\ ViewerConnects \/ ViewerReads \/ ViewerLeaves
              /\ UNCHANGED <<manager, doc, loop, speech, trip, listener>>
           \/ UNCHANGED vars
  <2>1. pc' = pc BY <1>3 DEF vars, loop
  <2> QED BY <1>1, <2>1 DEF TvmHeld
<1> QED BY <1>1, <1>2, <1>3

\* Types, whichever of the pipelines runs.
THEOREM WellTyped == Spec => []TypeOK
<1>1. ManagerInv /\ SpeechHeld /\ TripHeld /\ ClassHeld /\ TvmHeld => TypeOK
  <2> SUFFICES ASSUME ManagerInv, SpeechHeld, TripHeld, ClassHeld, TvmHeld PROVE TypeOK OBVIOUS
  <2>1. /\ step \in {"open", "artifacts", "checks", "run", "rejected", "success", "error"}
        /\ doc \in Docs /\ configured \in BOOLEAN
        /\ pipeline \in (Types \ {"other"}) \cup {"none"}
        /\ viewer \in {"away", "waiting", "accepted", "left"}
        /\ wire \in 0..Room /\ views \in 0..MaxViews
        /\ how \in {"file", "stream", "device"}
     BY DEF ManagerInv, Before
  <2>2. ASSUME Runs("speech_enhancement") PROVE S!SpeechType
    <3>1. SpeechTypes BY <2>2, SpeechHolds DEF SpeechInv
    <3>2. S!Chunks(n) = Chunks(n) BY SpeechSame
    <3> QED BY <3>1, <3>2 DEF SpeechTypes, Stages, S!SpeechType
  <2>3. ASSUME Runs("stft_istft") PROVE R!RoundTripType
    <3>1. TripTypes BY <2>3, TripHolds DEF TripInv
    <3>2. \A b \in DOMAIN dma : \A f \in DOMAIN dma[b] : dma[b][f] \in S!Frame BY <3>1 DEF TripTypes, Typed
    <3>3. R!Frame = S!Frame BY DEF R!Frame, S!Frame
    <3> QED BY <3>1, <3>2, <3>3 DEF TripTypes, TripStages, R!RoundTripType
  <2>4. ASSUME Runs("audio_classification") PROVE C!ClassificationType
    <3>1. ClassTypes BY <2>4, ClassHolds DEF ClassInv
    <3> QED BY <2>1, <3>1 DEF ClassTypes, C!ClassificationType
  <2> QED BY <2>1, <2>2, <2>3, <2>4 DEF TypeOK, TvmHeld
<1>2. Init => TvmHeld BY DEF Init, TvmHeld, Runs
<1> QED BY <1>1, <1>2, SpeechAlways, TripAlways, ClassAlways, StartsFresh, ManagerInductive, TvmInductive, PTL
    DEF Spec

=============================================================================
