---------------------------- MODULE MCPipelines ----------------------------
(* Instances of Pipelines for TLC. *)
EXTENDS Pipelines

\* Of a chunk of 5 frames by 2 samples that overlaps the one before it by 3:
\* nothing, one sample, one chunk more or less one sample, one to three hops
\* beyond it with and without a remainder.  The round trip takes them as one
\* to several chunks with a partial last chunk and a partial last frame.
MCLengths == {0, 1} \cup 9..23

\* As in the repository (a remainder in both), none in the STFT, none in the
\* ISTFT, and a batch larger than the chunk.
MCLayouts == {[total |-> 5, stft |-> 2, istft |-> 3], [total |-> 4, stft |-> 2, istft |-> 3],
              [total |-> 4, stft |-> 3, istft |-> 2], [total |-> 3, stft |-> 4, istft |-> 4]}

\* Up to two windows of 3 frames by 2 samples and half a sample.
MCSizes == 0..25

=============================================================================
