----------------------------- MODULE StftFrames -----------------------------
(***************************************************************************)
(* The DMA buffers of the audio pipelines and what a message to the DSP    *)
(* does to them.  A sample is the position of the input sample it was made *)
(* from and the stage that made it, so the models follow where every value *)
(* of a buffer comes from.  A buffer is an array of frames: a frame of PCM *)
(* is named by its first sample, and so is the spectrum of that frame.     *)
(***************************************************************************)
EXTENDS Integers, Sequences

Frame == [at : Nat, by : {"nothing", "pcm", "stft", "planar", "model",
                          "mixed", "clean"}]

\* Zeros, memory nobody wrote yet, or what a stage makes of a wrong layout.
NoFrame == [at |-> 0, by |-> "nothing"]

Blank(size) == [f \in 0..(size - 1) |-> NoFrame]
Smaller(x, y) == IF x < y THEN x ELSE y
Batches(total, size) == (total + size - 1) \div size

\* A process() writes count frames of a buffer from frame "to" on, each made
\* from the frame at the same place of the source's batch.  From frames that
\* are not of the layout the stage takes it makes garbage.
Made(target, to, source, from, count, takes, by) ==
  LET made(f) == IF f.by = takes THEN [at |-> f.at, by |-> by] ELSE NoFrame
  IN [f \in DOMAIN target |->
        IF to <= f /\ f < to + count THEN made(source[from + f - to])
        ELSE target[f]]

\* The samples of the first count frames of a buffer, in order.
Samples(buffer, count, hop) ==
  [s \in 1..(count * hop) |->
     LET frame == buffer[(s - 1) \div hop]
     IN IF frame.by = "nothing" THEN NoFrame
        ELSE [frame EXCEPT !.at = @ + ((s - 1) % hop)]]

=============================================================================
