---------------------------- MODULE AudioStream ----------------------------
(***************************************************************************)
(* AudioStream: the UNIX socket on which a pipeline publishes its input    *)
(* (direction 0) and its output (direction 1) to one viewer, which may     *)
(* come and go at any time.  A message is a header and its PCM.            *)
(***************************************************************************)
EXTENDS Naturals, Sequences

CONSTANTS
  Room,     \* messages the viewer's socket buffers
  MaxViews  \* bound: times a viewer connects

VARIABLES
  viewer,  \* the socket of the viewer
  wire,    \* messages sent to it that it has not read, how many
  sent,    \* all PCM sent to it since it connected, by direction
  views    \* times a viewer connected

stream == <<viewer, wire, sent, views>>

Nothing == [dir \in {0, 1} |-> <<>>]

StreamInit == viewer = "away" /\ wire = 0 /\ sent = Nothing /\ views = 0

\* Mutant of SendFrame: the server socket is a blocking one.
SendFrameWaits(dir, pcm) ==
  /\ \/ viewer = "left" /\ viewer' = "away" /\ UNCHANGED <<wire, sent>>
     \/ /\ viewer \in {"waiting", "accepted"} /\ wire < Room
        /\ viewer' = "accepted"
        /\ wire' = wire + 1
        /\ sent' = [sent EXCEPT ![dir] = @ \o pcm]
  /\ UNCHANGED views

\* Mutant of SendFrame: what a full socket does not take is dropped.
SendFrameDrops(dir, pcm) ==
  /\ \/ viewer = "away" /\ UNCHANGED <<viewer, wire, sent>>
     \/ viewer = "left" /\ viewer' = "away" /\ UNCHANGED <<wire, sent>>
     \/ /\ viewer \in {"waiting", "accepted"}
        /\ viewer' = "accepted"
        /\ IF wire < Room THEN wire' = wire + 1 /\ sent' = [sent EXCEPT ![dir] = @ \o pcm]
                          ELSE UNCHANGED <<wire, sent>>
  /\ UNCHANGED views

\* send_frame(): accepts a viewer that waits, drops the frame when there is
\* none, closes the socket of one that left, and blocks while the socket of
\* one that does not read is full.
SendFrame(dir, pcm) ==
  /\ \/ viewer = "away" /\ UNCHANGED <<viewer, wire, sent>>
     \/ viewer = "left" /\ viewer' = "away" /\ UNCHANGED <<wire, sent>>
     \/ /\ viewer \in {"waiting", "accepted"} /\ wire < Room
        /\ viewer' = "accepted"
        /\ wire' = wire + 1
        /\ sent' = [sent EXCEPT ![dir] = @ \o pcm]
  /\ UNCHANGED views

\* The destructor.
CloseStream == viewer' = "away" /\ UNCHANGED <<wire, sent, views>>

ViewerConnects ==
  /\ viewer = "away" /\ views < MaxViews
  /\ viewer' = "waiting"
  /\ wire' = 0 /\ sent' = Nothing
  /\ views' = views + 1

\* A stream socket gives what was sent in the order it was sent.
ViewerReads ==
  /\ viewer = "accepted" /\ wire > 0
  /\ wire' = wire - 1
  /\ UNCHANGED <<viewer, sent, views>>

ViewerLeaves ==
  /\ viewer \in {"waiting", "accepted"}
  /\ viewer' = "left"
  /\ wire' = 0
  /\ UNCHANGED <<sent, views>>

\* Samples that follow one another in a longer sequence, wherever they start.
PartOf(some, all) ==
  \E k \in 0..(Len(all) - Len(some)) : some = SubSeq(all, k + 1, k + Len(some))

=============================================================================
