--------------------------- MODULE HostInterface ---------------------------
(***************************************************************************)
(* The host interface of rpmsg_audio_example and the GUI, audmon.py, over  *)
(* Ethernet: a thread of the board accepts one GUI on each port, once; the *)
(* audio thread queues a log line and a frame at a time; log_writer() and  *)
(* the flushes send them; cmd_listener() applies the filter commands.      *)
(* The output port is like the input port, and is left out.                *)
(***************************************************************************)
EXTENDS Integers, Sequences

CONSTANTS
  QueueSize,     \* LOG_QUEUE_SIZE
  BufferSize,    \* SEND_BUFFER_SIZE, in units of which a tag takes one
  FrameData,     \* units of samples in a frame
  SummaryEvery,  \* frames between two summaries (10)
  SummaryLines,  \* lines of a summary (5)
  MaxFrames,     \* bound: frames of the file
  MaxToggles     \* bound: clicks on the filter button

ASSUME HostAssumption ==
  /\ {QueueSize, FrameData, SummaryEvery} \subseteq Nat \ {0}
  /\ {SummaryLines, MaxFrames, MaxToggles} \subseteq Nat
  /\ BufferSize \in Nat /\ BufferSize > FrameData

VARIABLES
  gui,       \* the channel the GUI connects next, "all" or "gone"
  accepted,  \* the channels whose client descriptor is set
  full,      \* those whose socket has no room left: the GUI does not read them
  queue,     \* log_queue: the number of the line in each slot
  head, tail,
  lines,     \* lines logged so far
  writer,    \* log_writer(): where it is, and the line it has copied
  log,       \* lines the GUI has received
  audio,     \* the audio thread: where it is, the frame, lines of the summary to go
  held,      \* send_inbuffer up to send_inoffset
  data,      \* units the GUI has received
  shown,     \* the filter button of the GUI
  toggles,   \* clicks so far
  asked,     \* the value of the last command, or -1
  wire,      \* bytes of commands not yet read by the board
  listener,  \* cmd_listener(): "waiting", "polling" or "closed"
  linebuf,   \* the part of a command that has been read
  filter,    \* filter_enabled, as a number
  stored,    \* main has stored the configured value
  undone,    \* and has by that undone a command
  killed     \* by SIGPIPE

logVars == <<queue, head, tail, lines, writer, log>>
dataVars == <<held, data>>
cmdVars == <<toggles, asked, wire, listener, linebuf, filter, stored, undone>>
vars == <<gui, accepted, full, logVars, audio, dataVars, shown, cmdVars, killed>>

Channel == {"log", "cmd", "in"}
Empty == 0  \* a slot of the queue that was never written
NewLine == 2

Init ==
  /\ gui = "log" /\ accepted = {} /\ full = {} /\ killed = FALSE
  /\ queue = [i \in 0..QueueSize - 1 |-> Empty] /\ head = 0 /\ tail = 0
  /\ lines = 0 /\ writer = [at |-> "take", msg |-> Empty] /\ log = <<>>
  /\ audio = [at |-> "log", frame |-> 1, summary |-> 0]
  /\ held = <<>> /\ data = <<>>
  /\ shown = TRUE /\ toggles = 0 /\ asked = -1 /\ wire = <<>>
  /\ listener = "waiting" /\ linebuf = <<>>
  /\ filter \in {0, 1} /\ stored = FALSE /\ undone = FALSE

----------------------------------------------------------------------------
(* Connecting. *)

After(ch) == CASE ch = "log" -> "cmd" [] ch = "cmd" -> "in" [] ch = "in" -> "all"

\* wait_for_connection(), which clears the screen, wait_for_cmd(), wait_for_indata():
\* the kernel of the board completes the connection, accepted or not.
Connect(ch) ==
  /\ gui = ch
  /\ gui' = After(ch)
  /\ shown' = (shown \/ ch = "log")
  /\ UNCHANGED <<accepted, full, logVars, audio, dataVars, cmdVars, killed>>

Connected == CASE gui = "log" -> {}
               [] gui = "cmd" -> {"log"}
               [] gui = "in" -> {"log", "cmd"}
               [] OTHER -> Channel

\* wait_for_*_client() on the board.
Accept(ch) ==
  /\ ch \in Connected \ accepted
  /\ accepted' = accepted \cup {ch}
  /\ UNCHANGED <<gui, full, logVars, audio, dataVars, shown, cmdVars, killed>>

\* The GUI is closed or the network fails: a write that was blocked fails too.
Leave ==
  /\ gui = "all"
  /\ gui' = "gone" /\ full' = {}
  /\ UNCHANGED <<accepted, logVars, audio, dataVars, shown, cmdVars, killed>>

\* What is about to be sent on a channel: only then does it matter that it is full.
Sends(ch) ==
  IF ch = "log" THEN writer.at = "send"
  ELSE audio.at = "data" /\ Len(held) + 1 + FrameData > BufferSize

\* The GUI, or the network, does not keep up with a channel, and catches up.
StopsReading(ch) ==
  /\ gui # "gone" /\ ch \in accepted \ full /\ Sends(ch)
  /\ full' = full \cup {ch}
  /\ UNCHANGED <<gui, accepted, logVars, audio, dataVars, shown, cmdVars, killed>>

ReadsAgain(ch) ==
  /\ ch \in full
  /\ full' = full \ {ch}
  /\ UNCHANGED <<gui, accepted, logVars, audio, dataVars, shown, cmdVars, killed>>

----------------------------------------------------------------------------
(* The log. *)

\* Mutant of Enqueue: the tail wraps one slot early.
EnqueueWrapsEarly ==
  /\ lines' = lines + 1
  /\ queue' = [queue EXCEPT ![tail] = lines + 1]
  /\ tail' = (tail + 1) % (QueueSize - 1)
  /\ writer' = [writer EXCEPT !.at = IF @ = "wait" THEN "take" ELSE @]
  /\ UNCHANGED <<head, log>>

\* Mutant of Enqueue: the writer is not woken.
EnqueueQuietly ==
  /\ lines' = lines + 1
  /\ queue' = [queue EXCEPT ![tail] = lines + 1]
  /\ tail' = (tail + 1) % QueueSize
  /\ UNCHANGED <<head, log, writer>>

\* enqueue_log(): a queue that is full is not looked for.
Enqueue ==
  /\ lines' = lines + 1
  /\ queue' = [queue EXCEPT ![tail] = lines + 1]
  /\ tail' = (tail + 1) % QueueSize
  /\ writer' = [writer EXCEPT !.at = IF @ = "wait" THEN "take" ELSE @]
  /\ UNCHANGED <<head, log>>

\* log_writer(), under log_mutex.
Take ==
  /\ ~killed /\ writer.at = "take"
  /\ IF head = tail THEN writer' = [writer EXCEPT !.at = "wait"] /\ UNCHANGED head
     ELSE /\ writer' = [at |-> "send", msg |-> queue[head]]
          /\ head' = (head + 1) % QueueSize
  /\ UNCHANGED <<gui, accepted, full, queue, tail, lines, log, audio, dataVars, shown,
                 cmdVars, killed>>

\* dprintf() outside the mutex, which blocks on a socket that is full.  Before the
\* accept the descriptor is 0, which is not the GUI; once the GUI is gone a write is
\* lost, or kills the process.
WriteLine ==
  /\ ~killed /\ writer.at = "send" /\ "log" \notin full
  /\ IF "log" \notin accepted THEN UNCHANGED <<log, killed>>
     ELSE IF gui = "gone" THEN killed' \in BOOLEAN /\ UNCHANGED log
     ELSE log' = Append(log, writer.msg) /\ UNCHANGED killed
  /\ writer' = [writer EXCEPT !.at = "take"]
  /\ UNCHANGED <<gui, accepted, full, queue, head, tail, lines, audio, dataVars, shown,
                 cmdVars>>

----------------------------------------------------------------------------
(* The audio thread, once main has started it. *)

\* Part 0 of a frame is its tag.
Tag(k) == <<[frame |-> k, part |-> 0]>>
Samples(k) == [i \in 1..FrameData |-> [frame |-> k, part |-> i]]

\* flush_send_input_buffer(), which blocks on a socket that is full: before the accept
\* the descriptor is 0 and the send fails.
Flush ==
  /\ "in" \notin full
  /\ IF "in" \notin accepted THEN UNCHANGED <<data, killed>>
     ELSE IF gui = "gone" THEN killed' \in BOOLEAN /\ UNCHANGED data
     ELSE data' = data \o held /\ UNCHANGED killed

\* log_frame_metrics().
LogFrame ==
  /\ ~killed /\ stored
  /\ audio.at = "log" /\ audio.frame <= MaxFrames
  /\ Enqueue
  /\ audio' = [audio EXCEPT !.at = "data"]
  /\ UNCHANGED <<gui, accepted, full, dataVars, shown, cmdVars, killed>>

\* Where the audio thread goes after the frame: every tenth one has a summary.
NextFrame ==
  IF audio.frame % SummaryEvery = 0 /\ SummaryLines > 0
  THEN [audio EXCEPT !.at = "summary", !.summary = SummaryLines]
  ELSE [audio EXCEPT !.at = "log", !.frame = @ + 1]

\* Mutant of QueueFrame: the flush comes after the tag.
QueueFrameSplit ==
  /\ ~killed /\ audio.at = "data"
  /\ IF Len(held) + 1 + FrameData > BufferSize
     THEN /\ data' = IF "in" \in accepted /\ gui # "gone"
                     THEN data \o held \o Tag(audio.frame) ELSE data
          /\ held' = Samples(audio.frame)
     ELSE held' = held \o Tag(audio.frame) \o Samples(audio.frame) /\ UNCHANGED data
  /\ audio' = NextFrame
  /\ UNCHANGED <<gui, accepted, full, logVars, shown, cmdVars, killed>>

\* log_input_audio(), enqueue_input_buffer(): what has no room is sent first.
QueueFrame ==
  /\ ~killed /\ audio.at = "data"
  /\ IF Len(held) + 1 + FrameData > BufferSize
     THEN Flush /\ held' = Tag(audio.frame) \o Samples(audio.frame)
     ELSE held' = held \o Tag(audio.frame) \o Samples(audio.frame) /\ UNCHANGED <<data, killed>>
  /\ audio' = NextFrame
  /\ UNCHANGED <<gui, accepted, full, logVars, shown, cmdVars>>

\* log_summary(), a line at a time.
Summary ==
  /\ ~killed /\ audio.at = "summary"
  /\ Enqueue
  /\ audio' = IF audio.summary > 1 THEN [audio EXCEPT !.summary = @ - 1]
              ELSE [at |-> "log", frame |-> audio.frame + 1, summary |-> 0]
  /\ UNCHANGED <<gui, accepted, full, dataVars, shown, cmdVars, killed>>

----------------------------------------------------------------------------
(* The commands. *)

\* toggle_filter(): the button changes first.  Nothing is sent before the log is
\* connected; between the log and the command channel the send raises.
Toggle ==
  /\ toggles < MaxToggles /\ gui # "gone"
  /\ toggles' = toggles + 1
  /\ shown' = ~shown
  /\ LET value == IF shown' THEN 1 ELSE 0 IN
     IF "cmd" \in Connected
     THEN asked' = value /\ wire' = wire \o <<value, NewLine, NewLine>>
     ELSE UNCHANGED <<asked, wire>>
  /\ UNCHANGED <<gui, accepted, full, logVars, audio, dataVars, listener, linebuf,
                 filter, stored, undone, killed>>

\* isCmdConnected, looked at once a second.
ListenerStarts ==
  /\ ~killed /\ listener = "waiting" /\ "cmd" \in accepted
  /\ listener' = "polling"
  /\ UNCHANGED <<gui, accepted, full, logVars, audio, dataVars, shown, toggles, asked,
                 wire, linebuf, filter, stored, undone, killed>>

\* The loop over the bytes: the line that is left over, and the value of each command
\* that has ended, by its place.  A newline ends the line, an empty line is nothing.
Scanned(bytes) ==
  LET Ends == {i \in 1..Len(bytes) : bytes[i] = NewLine}
      Begins == {i \in 1..Len(bytes) \ Ends : i = 1 \/ i - 1 \in Ends}
      Rest == CHOOSE k \in Ends \cup {0} : \A i \in Ends : i <= k
  IN [line |-> SubSeq(bytes, Rest + 1, Len(bytes)),
      values |-> {<<i, bytes[i]>> : i \in {i \in Begins : i < Rest}}]

\* Mutant of Scan: the line begins again with each read.
ScanAfresh(bytes) == Scanned(bytes)

\* A read goes on with the line that the last one left.
Scan(bytes) == Scanned(linebuf \o bytes)

\* A read returns any part of what has arrived; every command in it is applied.
Listen ==
  /\ ~killed /\ listener = "polling" /\ wire # <<>>
  /\ \E n \in 1..Len(wire) :
       LET scan == Scan(SubSeq(wire, 1, n)) IN
       /\ wire' = SubSeq(wire, n + 1, Len(wire))
       /\ linebuf' = scan.line
       /\ IF scan.values = {} THEN UNCHANGED <<filter, undone>>
          ELSE /\ undone' = FALSE
               /\ \E last \in scan.values :
                    /\ \A v \in scan.values : v[1] <= last[1]
                    /\ filter' = last[2]
  /\ UNCHANGED <<gui, accepted, full, logVars, audio, dataVars, shown, toggles, asked,
                 listener, stored, killed>>

\* read() returns 0: the descriptor is closed, and no other command is ever read.
ListenerEnds ==
  /\ ~killed /\ listener = "polling" /\ wire = <<>> /\ gui = "gone"
  /\ listener' = "closed"
  /\ UNCHANGED <<gui, accepted, full, logVars, audio, dataVars, shown, toggles, asked,
                 wire, linebuf, filter, stored, undone, killed>>

\* main() stores FILTER_ENABLE when the listener is already there.
StoreFilter ==
  /\ ~killed /\ ~stored
  /\ stored' = TRUE
  /\ filter' \in {0, 1}
  /\ undone' = (asked # -1)
  /\ UNCHANGED <<gui, accepted, full, logVars, audio, dataVars, shown, toggles, asked,
                 wire, listener, linebuf, killed>>

----------------------------------------------------------------------------
Gui ==
  \/ Leave \/ Toggle \/ \E ch \in Channel : Connect(ch)
  \/ \E ch \in {"log", "in"} : StopsReading(ch) \/ ReadsAgain(ch)
Writer == Take \/ WriteLine
Audio == LogFrame \/ QueueFrame \/ Summary
Commands == ListenerStarts \/ Listen \/ ListenerEnds

\* Nothing is left to do: the bounds have been reached, or the process is gone.
Over ==
  /\ killed \/ (audio.frame > MaxFrames /\ writer.at = "wait" /\ head = tail /\ wire = <<>>)
  /\ UNCHANGED vars

Next ==
  \/ Gui \/ Writer \/ Audio \/ Commands \/ StoreFilter \/ Over
  \/ \E ch \in Channel : Accept(ch)

Spec == Init /\ [][Next]_vars

\* The threads are scheduled: one that is blocked on a socket has no step to take, and
\* that the GUI reads, or reads again, is not assumed.
FairSpec == Spec /\ WF_vars(Writer) /\ WF_vars(Audio) /\ WF_vars(Commands)

----------------------------------------------------------------------------
TypeOK ==
  /\ gui \in Channel \cup {"all", "gone"} /\ accepted \subseteq Channel /\ full \subseteq accepted
  /\ queue \in [0..QueueSize - 1 -> Nat]
  /\ head \in 0..QueueSize - 1 /\ tail \in 0..QueueSize - 1 /\ lines \in Nat
  /\ writer \in [at : {"take", "wait", "send"}, msg : Nat]
  /\ audio \in [at : {"log", "data", "summary"}, frame : 1..MaxFrames + 1, summary : 0..SummaryLines]
  /\ Len(held) <= BufferSize
  /\ shown \in BOOLEAN /\ toggles \in 0..MaxToggles /\ asked \in {-1, 0, 1}
  /\ \A i \in DOMAIN wire : wire[i] \in {0, 1, NewLine}
  /\ listener \in {"waiting", "polling", "closed"} /\ Len(linebuf) <= 1
  /\ filter \in {0, 1} /\ stored \in BOOLEAN /\ undone \in BOOLEAN /\ killed \in BOOLEAN

\* The GUI never sees a line twice, nor one after a later one, nor a slot that was
\* never written, though the queue is overwritten without a look at its head
\* (host_interface.c:221-227): an overrun loses lines by the queueful.
LinesInOrder ==
  /\ \A i \in DOMAIN log : log[i] # Empty
  /\ \A i \in 1..Len(log) - 1 : log[i] < log[i + 1] /\ (log[i + 1] - log[i] - 1) % QueueSize = 0

\* Whenever the GUI is accepted, what it reads on the data port begins with a tag and
\* goes on frame after frame: read_input_audio_samples() never meets an unknown tag,
\* and no frame is missing between two others.
FramesWhole ==
  \A i \in DOMAIN data :
    LET place == (i - 1) % (FrameData + 1) IN
    /\ data[i].part = place
    /\ i > 1 => data[i].frame = data[i - 1].frame + (IF place = 0 THEN 1 ELSE 0)

\* However the commands are cut up on their way, the filter is as the last one says
\* when all have been read, unless main has stored the configured value over it.
FilterFollows ==
  (asked # -1 /\ wire = <<>> /\ linebuf = <<>> /\ ~undone) => filter = asked

\* All the lines that are queued are taken: no wake-up of log_writer() is lost.  What can
\* keep one from being taken is an overrun, QueueSize lines or more since the one that
\* was taken last; SIGPIPE; and a GUI that does not read the log, which blocks the
\* writer for as long as it likes.
Overrun == lines - writer.msg >= QueueSize
Drains ==
  (writer.msg < lines) ~> (writer.msg = lines \/ Overrun \/ killed \/ "log" \in full)

=============================================================================
