---------------------------- MODULE AudioOffload ----------------------------
(***************************************************************************)
(* rpmsg_audio_example: main borrows the C7x for the filter firmware, sets *)
(* its buffers up and starts a thread that plays a file, frame by frame,   *)
(* through the C7x or through the ARM.  The two agree on start_requested.  *)
(* SIGINT and the host's filter command come at any time.  What            *)
(* switch_firmware(), init_rpmsg() and dmabuf_heap_init() return is not    *)
(* looked at.                                                              *)
(***************************************************************************)
EXTENDS FirmwareLoader, Integers

CONSTANT Frames  \* bound: whole frames in the file

\* Failures of the sysfs file, the link, the endpoint, a buffer, the UART, the file
\* or the device, the thread and one write to the endpoint; SIGINT; a filter
\* command; a GUI that leaves, and one that does not read what it is sent.
Fault == {"sysfs", "symlink", "rpmsg", "buffer", "uart", "open", "thread", "message",
          "signal", "command", "viewer", "stall"}

ASSUME OffloadAssumption == Faults \subseteq Fault /\ Frames \in Nat

VARIABLES
  pc,         \* where main, the handler and the audio thread are
  mode,       \* current_mode
  start,      \* start_requested
  rpmsg,      \* rpmsg_fd is open
  buffers,    \* of the DMA heap: "none", "ready", "unmapped" or "gone"
  config,     \* the strings of app_config: "none", "there" or "freed"
  left,       \* frames still to be read
  unfiltered, \* a frame was played that nobody had processed
  cut,        \* SIGINT interrupted main inside switch_firmware()
  fate        \* "alive", "exited" or "crashed"

program == <<mode, start, rpmsg, buffers, config, left, unfiltered, cut, fate>>
vars == <<firmware, switch, trouble, pc, program>>

Init ==
  /\ FirmwareInit
  /\ pc = [t \in Thread \cup {"audio"} |-> IF t = "main" THEN "load" ELSE "none"]
  /\ mode = "ARM" /\ start = "START" /\ rpmsg = FALSE
  /\ buffers = "none" /\ config = "none" /\ left = Frames
  /\ unfiltered = FALSE /\ cut = FALSE /\ fate = "alive"

\* The handler runs in the place of main; the audio thread goes on beside it.
At(t, where) ==
  fate = "alive" /\ pc[t] = where /\ (t = "main" => pc["handler"] = "none")
Goto(t, where) == pc' = [pc EXCEPT ![t] = where]

Dies(how) == fate' = how /\ UNCHANGED <<mode, start, rpmsg, buffers, config, left, unfiltered, cut>>

----------------------------------------------------------------------------
(* main() *)

\* load_config(), and the handler is registered.
Configure ==
  /\ At("main", "load")
  /\ config' = "there"
  /\ \/ mode' = "ARM" /\ Goto("main", "rpmsg") /\ UNCHANGED switch
     \/ mode' = "DSP" /\ Goto("main", "switching") /\ Call("main", "test")
  /\ UNCHANGED <<firmware, trouble, start, rpmsg, buffers, left, unfiltered, cut, fate>>

InSwitch(t) ==
  /\ At(t, "switching") \/ At(t, "restoring")
  /\ SwitchStep(t)
  /\ UNCHANGED <<pc, program>>

SwitchReturns(t, from, to) ==
  /\ At(t, from)
  /\ Switched(t) \/ SwitchFailed(t)
  /\ Goto(t, to)
  /\ UNCHANGED <<firmware, switch, trouble, program>>

\* No endpoint can be opened on a C7x that is not running.
InitRpmsg ==
  /\ At("main", "rpmsg")
  /\ Goto("main", "buffers")
  /\ \/ dsp = "running" /\ rpmsg' = TRUE /\ UNCHANGED trouble
     \/ dsp = "offline" /\ UNCHANGED <<rpmsg, trouble>>
     \/ Occurs("rpmsg") /\ UNCHANGED rpmsg
  /\ UNCHANGED <<firmware, switch, mode, start, buffers, config, left, unfiltered, cut, fate>>

\* dmabuf_heap_init() twice, init_rpmsg_buffer().
InitBuffers ==
  /\ At("main", "buffers")
  /\ Goto("main", "host")
  /\ \/ buffers' = "ready" /\ UNCHANGED trouble
     \/ buffers' = "unmapped" /\ Occurs("buffer")
  /\ UNCHANGED <<firmware, switch, mode, start, rpmsg, config, left, unfiltered, cut, fate>>

\* init_host_interface(): exit(1) if the UART is the interface and cannot be opened.
InitHostInterface ==
  /\ At("main", "host")
  /\ \/ Goto("main", "filter") /\ UNCHANGED <<trouble, program>>
     \/ Occurs("uart") /\ Dies("exited") /\ UNCHANGED pc
  /\ UNCHANGED <<firmware, switch>>

\* dspParams->filter_enabled, or filter_enabled on the ARM.
StoreFilter ==
  /\ At("main", "filter")
  /\ IF mode = "DSP" /\ buffers = "unmapped" THEN Dies("crashed") /\ UNCHANGED pc
     ELSE Goto("main", "loop") /\ UNCHANGED program
  /\ UNCHANGED <<firmware, switch, trouble>>

\* start_requested goes back to STOP_PLAY before the thread exists.
Request ==
  /\ At("main", "loop") /\ start = "START"
  /\ start' = "STOP"
  /\ Goto("main", "create")
  /\ UNCHANGED <<firmware, switch, trouble, mode, rpmsg, buffers, config, left, unfiltered,
                 cut, fate>>

Create ==
  /\ At("main", "create")
  /\ \/ pc' = [pc EXCEPT !["main"] = "loop", !["audio"] = "open"] /\ UNCHANGED trouble
     \/ Occurs("thread") /\ Goto("main", "destroy")
  /\ UNCHANGED <<firmware, switch, program>>

\* Mutant of SeesExit: whatever is not START_PLAY ends the loop.
SeesExitEarly ==
  /\ At("main", "loop") /\ start # "START"
  /\ Goto("main", "destroy")
  /\ UNCHANGED <<firmware, switch, trouble, program>>

SeesExit ==
  /\ At("main", "loop") /\ start = "EXIT"
  /\ Goto("main", "destroy")
  /\ UNCHANGED <<firmware, switch, trouble, program>>

\* Mutant of Destroy: the firmware is left as it is.
DestroyOnly ==
  /\ At("main", "destroy")
  /\ buffers' = "gone"
  /\ Goto("main", "config") /\ UNCHANGED switch
  /\ UNCHANGED <<firmware, trouble, mode, start, rpmsg, config, left, unfiltered, cut, fate>>

\* dmabuf_heap_destroy() twice; in DSP mode the base firmware comes back.
Destroy ==
  /\ At("main", "destroy")
  /\ buffers' = "gone"
  /\ IF mode = "DSP" THEN Goto("main", "restoring") /\ Call("main", "base")
     ELSE Goto("main", "config") /\ UNCHANGED switch
  /\ UNCHANGED <<firmware, trouble, mode, start, rpmsg, config, left, unfiltered, cut, fate>>

\* cleanup_config() keeps the pointers it has freed: a second call is a double free.
FreeConfig(t) ==
  /\ At(t, "config")
  /\ IF config = "freed" THEN Dies("crashed") /\ UNCHANGED pc
     ELSE /\ config' = "freed"
          /\ Goto(t, "exit")
          /\ UNCHANGED <<mode, start, rpmsg, buffers, left, unfiltered, cut, fate>>
  /\ UNCHANGED <<firmware, switch, trouble>>

Exit(t) ==
  /\ At(t, "exit")
  /\ Dies("exited")
  /\ UNCHANGED <<firmware, switch, trouble, pc>>

----------------------------------------------------------------------------
(* run_audio_processing_thread() *)

\* Mutant of Open: one of the failures forgets to say that it is over.
OpenSilently ==
  /\ At("audio", "open")
  /\ \/ Goto("audio", "read") /\ UNCHANGED <<start, trouble>>
     \/ Occurs("open") /\ UNCHANGED start /\ Goto("audio", "ended")
  /\ UNCHANGED <<firmware, switch, mode, rpmsg, buffers, config, left, unfiltered, cut, fate>>

\* The file, its format, the playback device and its parameters.
Open ==
  /\ At("audio", "open")
  /\ \/ Goto("audio", "read") /\ UNCHANGED <<start, trouble>>
     \/ Occurs("open") /\ start' = "EXIT" /\ Goto("audio", "ended")
  /\ UNCHANGED <<firmware, switch, mode, rpmsg, buffers, config, left, unfiltered, cut, fate>>

\* sf_readf_short() into the data buffer; a short frame ends the loop.
Read ==
  /\ At("audio", "read")
  /\ \/ /\ buffers # "ready"
        /\ Dies("crashed") /\ UNCHANGED pc
     \/ /\ buffers = "ready" /\ left > 0
        /\ left' = left - 1
        /\ Goto("audio", IF mode = "DSP" THEN "send" ELSE "play")
        /\ UNCHANGED <<mode, start, rpmsg, buffers, config, unfiltered, cut, fate>>
     \/ /\ buffers = "ready" /\ left = 0
        /\ Goto("audio", "close")
        /\ UNCHANGED program
  /\ UNCHANGED <<firmware, switch, trouble>>

\* Mutant of Send: the frame is played without waiting for the reply.
SendOnly ==
  /\ At("audio", "send")
  /\ Goto("audio", "play")
  /\ unfiltered' = TRUE
  /\ UNCHANGED <<firmware, switch, trouble, mode, start, rpmsg, buffers, config, left, cut, fate>>

\* process_on_dsp(): a write that fails leaves the frame as it was read.
Send ==
  /\ At("audio", "send")
  /\ \/ rpmsg /\ dsp = "running" /\ Goto("audio", "reply") /\ UNCHANGED <<trouble, unfiltered>>
     \/ /\ ~rpmsg \/ dsp = "offline"
        /\ Goto("audio", "play") /\ unfiltered' = TRUE /\ UNCHANGED trouble
     \/ Occurs("message") /\ Goto("audio", "play") /\ unfiltered' = TRUE
  /\ UNCHANGED <<firmware, switch, mode, start, rpmsg, buffers, config, left, cut, fate>>

\* The filter firmware answers every message.  A stopped C7x takes the endpoint
\* away and the read fails; the base image does not answer, and nothing waits for
\* it with a timeout.
Reply ==
  /\ At("audio", "reply")
  /\ \/ dsp = "running" /\ loaded = "test" /\ UNCHANGED unfiltered
     \/ dsp = "offline" /\ unfiltered' = TRUE
  /\ Goto("audio", "play")
  /\ UNCHANGED <<firmware, switch, trouble, mode, start, rpmsg, buffers, config, left, cut, fate>>

\* The metrics and the playback, from the buffers, and the copies for the host: a
\* send() blocks once the GUI has not read for long enough.
Play ==
  /\ At("audio", "play")
  /\ \/ /\ buffers = "ready"
        /\ \/ Goto("audio", "read") /\ UNCHANGED trouble
           \/ Occurs("stall") /\ Goto("audio", "blocked")
        /\ UNCHANGED program
     \/ buffers # "ready" /\ Dies("crashed") /\ UNCHANGED <<pc, trouble>>
  /\ UNCHANGED <<firmware, switch>>

\* The GUI reads again: nothing obliges it to.
Unblock ==
  /\ At("audio", "blocked")
  /\ Goto("audio", "read")
  /\ UNCHANGED <<firmware, switch, trouble, program>>

\* SIGPIPE, once a frame has been copied for the host: a send() of the audio thread
\* or a dprintf() of the log writer, to a GUI that has left.
BrokenPipe ==
  /\ Occurs("viewer")
  /\ fate = "alive" /\ left < Frames
  /\ pc["audio"] \in {"send", "reply"} => left + 1 < Frames
  /\ Dies("crashed")
  /\ UNCHANGED <<firmware, switch, pc>>

\* "TEST STATUS: PASSED", whatever was played.
Close ==
  /\ At("audio", "close")
  /\ start' = "EXIT"
  /\ Goto("audio", "ended")
  /\ UNCHANGED <<firmware, switch, trouble, mode, rpmsg, buffers, config, left, unfiltered,
                 cut, fate>>

----------------------------------------------------------------------------
\* handle_sigint(), on the stack of main.
Interrupt ==
  /\ Occurs("signal")
  /\ fate = "alive" /\ pc["handler"] = "none" /\ pc["main"] # "load"
  /\ cut' = (pc["main"] \in {"switching", "restoring"} /\ switch["main"].at \notin {"done", "failed"})
  /\ IF mode = "DSP" THEN Goto("handler", "restoring") /\ Call("handler", "base")
     ELSE Goto("handler", "config") /\ UNCHANGED switch
  /\ UNCHANGED <<firmware, mode, start, rpmsg, buffers, config, left, unfiltered, fate>>

\* enable_filter() on the command thread, which nothing stops: main has unmapped
\* the parameters, or has not been able to map them.
Command ==
  /\ Occurs("command")
  /\ fate = "alive" /\ mode = "DSP" /\ buffers \in {"gone", "unmapped"}
  /\ Dies("crashed")
  /\ UNCHANGED <<firmware, switch, pc>>

Over == fate # "alive" /\ UNCHANGED vars

\* The base image was never replaced, and never answers: only SIGINT ends this.
Mute == pc["audio"] = "reply" /\ dsp = "running" /\ loaded # "test"

StaysMute == fate = "alive" /\ Mute /\ UNCHANGED vars

Main ==
  \/ Configure \/ InSwitch("main")
  \/ SwitchReturns("main", "switching", "rpmsg") \/ SwitchReturns("main", "restoring", "config")
  \/ InitRpmsg \/ InitBuffers \/ InitHostInterface \/ StoreFilter \/ Request \/ Create
  \/ SeesExit \/ Destroy \/ FreeConfig("main") \/ Exit("main")

Handler ==
  \/ InSwitch("handler") \/ SwitchReturns("handler", "restoring", "config")
  \/ FreeConfig("handler") \/ Exit("handler")

Audio == Open \/ Read \/ Send \/ Reply \/ Play \/ Close

Next ==
  Main \/ Handler \/ Audio \/ Interrupt \/ Command \/ Unblock \/ BrokenPipe \/ Over \/ StaysMute

Spec == Init /\ [][Next]_vars

\* The threads are scheduled, and the filter firmware answers.
FairSpec == Spec /\ WF_vars(Main) /\ WF_vars(Handler) /\ WF_vars(Audio)

----------------------------------------------------------------------------
TypeOK ==
  /\ FirmwareTypeOK
  /\ pc["main"] \in {"load", "switching", "rpmsg", "buffers", "host", "filter", "loop",
                     "create", "destroy", "restoring", "config", "exit"}
  /\ pc["handler"] \in {"none", "restoring", "config", "exit"}
  /\ pc["audio"] \in {"none", "open", "read", "send", "reply", "play", "blocked", "close", "ended"}
  /\ mode \in {"ARM", "DSP"} /\ start \in {"START", "STOP", "EXIT"}
  /\ rpmsg \in BOOLEAN /\ buffers \in {"none", "ready", "unmapped", "gone"}
  /\ config \in {"none", "there", "freed"} /\ left \in 0..Frames
  /\ unfiltered \in BOOLEAN /\ cut \in BOOLEAN /\ fate \in {"alive", "exited", "crashed"}

\* "Revert to original firmware" (rpmsg_audio_example.c:310): with main, the audio
\* thread and the handler in any order, a process that exits leaves the base firmware
\* running.  The exceptions: a switch that could not write what it has to, SIGINT
\* inside switch_firmware(), whose handler finds the C7x stopped and gives up, and the
\* exit(1) for the UART.  A crash restores nothing.
BaseAfterExit ==
  (fate = "exited" /\ ~cut /\ trouble \cap {"sysfs", "symlink", "uart"} = {})
  => dsp = "running" /\ loaded = "base" /\ link = "base"

\* The hand-over on start_requested is enough: main never takes a buffer away from
\* the audio thread.  A process crashes only because a buffer could not be mapped
\* (its failure is ignored), because a filter command comes after the buffers are
\* gone, because SIGINT frees the configuration that main has freed, or because the
\* GUI leaves while what has been played is sent to it.
CrashesOnlyBy ==
  fate = "crashed" =>
    \/ "buffer" \in trouble
    \/ "command" \in trouble /\ buffers = "gone"
    \/ "signal" \in trouble /\ pc["handler"] = "config" /\ config = "freed"
    \/ "viewer" \in trouble /\ left < Frames

\* A frame goes to the speaker unprocessed only after a failure, or while SIGINT
\* takes the C7x away: never because the audio thread got ahead of the C7x.
PlaysFiltered ==
  unfiltered => trouble \cap {"sysfs", "symlink", "rpmsg", "message", "signal"} # {}

\* The process ends once the file has been played or could not be opened: no
\* failure and no order of main and the audio thread loses EXIT_PLAY.  It goes on
\* for ever only with a C7x that does not answer or a GUI that does not read.
Ends == <>(fate # "alive" \/ Mute \/ pc["audio"] = "blocked")

=============================================================================
