-------------------------- MODULE SigchainControl --------------------------
(***************************************************************************)
(* The control path of rpmsg_sigchain_biquad_example: the host GUI, the    *)
(* thread that executes its commands, the command and the status word that *)
(* it shares with the C7x, and the signal handler that tears everything    *)
(* down.  In command-line mode the commands are executed by the main       *)
(* thread, the one that signals interrupt; in client mode by a thread of   *)
(* their own, which goes on while main runs the handler.                   *)
(***************************************************************************)
EXTENDS Naturals, Sequences

CONSTANTS
  Polls,    \* C7X_COMMAND_TIMEOUT_MS / C7X_STATUS_CHECK_DELAY_MS
  Toggles,  \* bound: presses of the GUI's button, or commands of the CLI
  Worlds    \* the modes the example is started in, and what can go wrong there

\* A signal, a failed DMA synchronisation, a failed codec access, a firmware
\* switch that fails, and an answer that the GUI waits for longer than its
\* socket's timeout.
Fault == {"signal", "sync", "codec", "switch", "timeout"}

ASSUME SigchainAssumption ==
  /\ Polls \in Nat \ {0} /\ Toggles \in Nat
  /\ Worlds \subseteq [mode : {"client", "cli"}, faults : SUBSET Fault]

VARIABLES
  world,    \* the one of Worlds this run is in
  command,  \* demoCommand
  running,  \* demoRunning
  mapped,   \* the shared buffer is mapped
  fw,       \* the firmware the C7x runs, or "none"
  powered,  \* how many of the codec chips are powered on
  flagged,  \* current_codec_status: one of the families is initialized
  lock,     \* holder of log_mutex
  process,  \* the example is up, has exited or was killed by a fault
  on,       \* application_running
  pc,       \* what each thread of control does
  cur,      \* the command it executes
  tries,    \* polls it has left
  ok,       \* result of its last command
  connected,\* command_client_fd is open
  inbox,    \* commands sent and not received
  replies,  \* answers sent and not read
  gpc,      \* what the GUI waits for
  stats,    \* demoRunning as the GUI last saw it
  toggles   \* presses made, commands executed

memory == <<command, running, mapped, fw>>
codecs == <<powered, flagged>>
thread == <<pc, cur, tries, ok, lock>>
link == <<connected, inbox, replies>>
gui == <<gpc, stats, toggles>>
vars == <<world, memory, codecs, thread, process, on, link, gui>>

Mode == world.mode
Faults == world.faults

Control == {"START", "STOP"}
Command == Control \cup {"CODEC_INIT", "CODEC_SHUTDOWN"}

\* worker executes the commands; cleaner is cleanup(), in main.
Thread == {"worker", "cleaner"}

Init ==
  /\ world \in Worlds
  /\ command = "NO_CHANGE" /\ running = FALSE
  /\ mapped = TRUE /\ fw = "sigchain"
  /\ powered = "none" /\ flagged = FALSE
  /\ lock = "free" /\ process = "up" /\ on = TRUE
  /\ pc = [worker |-> IF Mode = "cli" THEN "next" ELSE "recv", cleaner |-> "none"]
  /\ cur = [t \in Thread |-> "STOP"]
  /\ tries = [t \in Thread |-> 0]
  /\ ok = [t \in Thread |-> FALSE]
  /\ connected = TRUE /\ inbox = <<>> /\ replies = <<>>
  /\ gpc = "idle" /\ stats = FALSE /\ toggles = 0

\* Mutant of Runs: the command line executes its commands beside main.
RunsBeside(t) == process = "up"

\* A thread runs unless the handler has interrupted it.
Runs(t) ==
  /\ process = "up"
  /\ t = "worker" /\ Mode = "cli" => pc["cleaner"] = "none"

Go(t, from, to) == Runs(t) /\ pc[t] = from /\ pc' = [pc EXCEPT ![t] = to]

----------------------------------------------------------------------------
(* c7x_comm_send_control_command(). *)

Expected(c) == c = "START"

\* log_message() of the thread that executes a command.
Log(t) ==
  /\ Go(t, "log", "logging")
  /\ lock = "free"
  /\ lock' = t
  /\ UNCHANGED <<world, memory, codecs, cur, tries, ok, process, on, link, gui>>

Logged(t) ==
  /\ Go(t, "logging", "write")
  /\ lock' = "free"
  /\ UNCHANGED <<world, memory, codecs, cur, tries, ok, process, on, link, gui>>

\* dmabuf_sync(START) before each access; its descriptor is closed with the
\* buffer, so it also fails once cleanup() has freed it.
SyncStart(t) ==
  /\ Runs(t) /\ mapped /\ pc[t] \in {"write", "poll", "clear"}
  /\ pc' = [pc EXCEPT ![t] = CASE @ = "write" -> "writing"
                               [] @ = "poll" -> "polling"
                               [] @ = "clear" -> "clearing"]
  /\ UNCHANGED <<world, memory, codecs, cur, tries, ok, lock, process, on, link, gui>>

\* Without it there is no command; the loop of polls ends, with polls to
\* spare; and a command that has succeeded is not cleared.
SyncFails(t) ==
  /\ Runs(t) /\ pc[t] \in {"write", "poll", "clear"}
  /\ "sync" \in Faults \/ ~mapped
  /\ pc' = [pc EXCEPT ![t] = IF @ = "poll" THEN "clear" ELSE "done"]
  /\ ok' = [ok EXCEPT ![t] = (pc[t] = "clear")]
  /\ UNCHANGED <<world, memory, codecs, cur, tries, lock, process, on, link, gui>>

\* The buffer is freed between the synchronisation and the access.
Segfault(t) ==
  /\ Runs(t) /\ pc[t] \in {"writing", "polling", "clearing"} /\ ~mapped
  /\ process' = "killed"
  /\ UNCHANGED <<world, memory, codecs, thread, on, link, gui>>

Write(t) ==
  /\ mapped
  /\ Go(t, "writing", "poll")
  /\ command' = cur[t]
  /\ tries' = [tries EXCEPT ![t] = Polls]
  /\ UNCHANGED <<world, running, mapped, fw, codecs, cur, ok, lock, process, on, link, gui>>

\* dmabuf_sync(END) fails: an error, and the command is written.
WriteFails(t) ==
  /\ "sync" \in Faults /\ mapped
  /\ Go(t, "writing", "done")
  /\ command' = cur[t]
  /\ ok' = [ok EXCEPT ![t] = FALSE]
  /\ UNCHANGED <<world, running, mapped, fw, codecs, cur, tries, lock, process, on, link, gui>>

\* Mutant of PollWaits: the loop gives up with the result of a success.
PollWaitsAnyway(t) ==
  /\ mapped /\ running # Expected(cur[t])
  /\ Runs(t) /\ pc[t] = "polling"
  /\ tries' = [tries EXCEPT ![t] = @ - 1]
  /\ pc' = [pc EXCEPT ![t] = IF tries[t] = 1 THEN "clear" ELSE "poll"]
  /\ UNCHANGED <<world, ok, memory, codecs, cur, lock, process, on, link, gui>>

\* Mutant of PollWaits: the loop polls once more than it counts.
PollWaitsLonger(t) ==
  /\ mapped /\ running # Expected(cur[t])
  /\ Runs(t) /\ pc[t] = "polling"
  /\ tries' = [tries EXCEPT ![t] = @ - 1]
  /\ IF tries[t] = 0
     THEN pc' = [pc EXCEPT ![t] = "done"] /\ ok' = [ok EXCEPT ![t] = FALSE]
     ELSE pc' = [pc EXCEPT ![t] = "poll"] /\ UNCHANGED ok
  /\ UNCHANGED <<world, memory, codecs, cur, lock, process, on, link, gui>>

\* The C7x has not done it yet: after the last poll the command stays written.
PollWaits(t) ==
  /\ mapped /\ running # Expected(cur[t])
  /\ Runs(t) /\ pc[t] = "polling"
  /\ tries' = [tries EXCEPT ![t] = @ - 1]
  /\ IF tries[t] = 1
     THEN pc' = [pc EXCEPT ![t] = "done"] /\ ok' = [ok EXCEPT ![t] = FALSE]
     ELSE pc' = [pc EXCEPT ![t] = "poll"] /\ UNCHANGED ok
  /\ UNCHANGED <<world, memory, codecs, cur, lock, process, on, link, gui>>

PollEnds(t) ==
  /\ mapped /\ running = Expected(cur[t])
  /\ Go(t, "polling", "clear")
  /\ UNCHANGED <<world, memory, codecs, cur, tries, ok, lock, process, on, link, gui>>

Clear(t) ==
  /\ mapped
  /\ Go(t, "clearing", "done")
  /\ ok' = [ok EXCEPT ![t] = TRUE]
  /\ command' = "NO_CHANGE"
  /\ UNCHANGED <<world, running, mapped, fw, codecs, cur, tries, lock, process, on, link, gui>>

SendControl(t) ==
  \/ Log(t) \/ Logged(t) \/ SyncStart(t) \/ SyncFails(t) \/ Segfault(t)
  \/ Write(t) \/ WriteFails(t) \/ PollWaits(t) \/ PollEnds(t) \/ Clear(t)

\* The C7x acts on the command it finds, as often as it finds it.
C7x ==
  /\ fw = "sigchain"
  /\ command \in Control /\ running # Expected(command)
  /\ running' = Expected(command)
  /\ UNCHANGED <<world, command, mapped, fw, codecs, thread, process, on, link, gui>>

----------------------------------------------------------------------------
(* The codecs, six chips taken together (AudioCodecs follows each of them). *)

\* A failure may come before, between or after the chips that are powered on;
\* when it comes after the DACs, they count as initialised.
CodecInit(result) ==
  IF result THEN powered' = "all" /\ flagged' = TRUE
  ELSE /\ powered' \in IF powered = "all" THEN {"all"} ELSE {powered, "some"}
       /\ flagged' \in IF powered' = "none" THEN {FALSE} ELSE BOOLEAN

\* Nothing to shut down when no family counts as initialised, and one that
\* does not is left as it is.
CodecShutdown(result) ==
  IF ~flagged THEN result = TRUE /\ UNCHANGED codecs
  ELSE IF result THEN powered' \in {"none", "some"} /\ flagged' = FALSE
  ELSE powered' \in {powered, "some", "none"} /\ flagged' = TRUE

CodecResult == IF "codec" \in Faults THEN BOOLEAN ELSE {TRUE}

----------------------------------------------------------------------------
(* cmd_server_thread().  One recv() takes what has arrived, and only the   *)
(* first word of it is a command.                                          *)

Recv(t) ==
  /\ t = "worker" /\ Runs(t) /\ pc[t] = "recv"
  /\ \E k \in 1..Len(inbox) : inbox' = SubSeq(inbox, k + 1, Len(inbox))
  /\ cur' = [cur EXCEPT ![t] = Head(inbox)]
  /\ pc' = [pc EXCEPT ![t] = IF Head(inbox) \in Control THEN "log" ELSE "codec"]
  /\ UNCHANGED <<world, memory, codecs, tries, ok, lock, process, on, connected, replies, gui>>

Codec(t) ==
  /\ t = "worker"
  /\ Go(t, "codec", "done")
  /\ \E result \in CodecResult :
       /\ ok' = [ok EXCEPT ![t] = result]
       /\ IF cur[t] = "CODEC_INIT" THEN CodecInit(result) ELSE CodecShutdown(result)
  /\ UNCHANGED <<world, memory, cur, tries, lock, process, on, link, gui>>

\* Mutant of Reply: a missing else, so that the last branch answers as well.
ReplyTwice(t) ==
  /\ t = "worker" /\ Mode = "client"
  /\ Runs(t) /\ pc[t] = "done"
  /\ replies' = IF connected
               THEN replies \o <<IF ok[t] THEN "OK" ELSE "ERROR", "ERROR">>
               ELSE replies
  /\ pc' = [pc EXCEPT ![t] = IF on THEN "recv" ELSE "over"]
  /\ UNCHANGED <<world, memory, codecs, cur, tries, ok, lock, process, on, connected, inbox, gui>>

\* Mutant of Reply: a command that failed is not answered.
ReplyOk(t) ==
  /\ t = "worker" /\ Mode = "client"
  /\ Runs(t) /\ pc[t] = "done"
  /\ replies' = IF connected /\ ok[t] THEN Append(replies, "OK") ELSE replies
  /\ pc' = [pc EXCEPT ![t] = IF on THEN "recv" ELSE "over"]
  /\ UNCHANGED <<world, memory, codecs, cur, tries, ok, lock, process, on, connected, inbox, gui>>

Reply(t) ==
  /\ t = "worker" /\ Mode = "client"
  /\ Runs(t) /\ pc[t] = "done"
  /\ replies' = IF connected THEN Append(replies, IF ok[t] THEN "OK" ELSE "ERROR")
               ELSE replies
  /\ pc' = [pc EXCEPT ![t] = IF on THEN "recv" ELSE "over"]
  /\ UNCHANGED <<world, memory, codecs, cur, tries, ok, lock, process, on, connected, inbox, gui>>

----------------------------------------------------------------------------
(* run_command_line_mode(): execute_command() for each argument.           *)

CliStart ==
  /\ Mode = "cli" /\ Runs("worker") /\ pc["worker"] = "next" /\ toggles < Toggles
  /\ toggles' = toggles + 1
  /\ cur' = [cur EXCEPT !["worker"] = "START"]
  /\ \E result \in CodecResult :
       /\ CodecInit(result)
       /\ pc' = [pc EXCEPT !["worker"] = IF result THEN "log" ELSE "finish"]
  /\ UNCHANGED <<world, memory, tries, ok, lock, process, on, link, gpc, stats>>

CliStop ==
  /\ Mode = "cli" /\ toggles < Toggles
  /\ Go("worker", "next", "log")
  /\ toggles' = toggles + 1
  /\ cur' = [cur EXCEPT !["worker"] = "STOP"]
  /\ UNCHANGED <<world, memory, codecs, tries, ok, lock, process, on, link, gpc, stats>>

\* The command is over; a STOP that succeeded shuts the codecs down.
CliDone ==
  /\ Mode = "cli" /\ Runs("worker") /\ pc["worker"] = "done"
  /\ IF ok["worker"] /\ cur["worker"] = "STOP"
     THEN \E result \in CodecResult :
            /\ CodecShutdown(result)
            /\ pc' = [pc EXCEPT !["worker"] = IF result THEN "next" ELSE "finish"]
     ELSE /\ pc' = [pc EXCEPT !["worker"] = IF ok["worker"] THEN "next" ELSE "finish"]
          /\ UNCHANGED codecs
  /\ UNCHANGED <<world, memory, cur, tries, ok, lock, process, on, link, gui>>

\* After the last command, or the first that failed, main calls cleanup().
CliFinish ==
  /\ Mode = "cli" /\ Runs("worker")
  /\ pc["worker"] \in {"next", "finish"}
  /\ pc' = [worker |-> "over", cleaner |-> "check"]
  /\ UNCHANGED <<world, memory, codecs, cur, tries, ok, lock, process, on, link, gui>>

----------------------------------------------------------------------------
(* signal_handler() and cleanup(). *)

Signal ==
  /\ "signal" \in Faults /\ process = "up" /\ pc["cleaner"] = "none"
  /\ pc' = [pc EXCEPT !["cleaner"] = "caught"]
  /\ UNCHANGED <<world, memory, codecs, cur, tries, ok, lock, process, on, link, gui>>

\* The handler logs before anything else.
Caught ==
  /\ Go("cleaner", "caught", "check")
  /\ lock = "free"
  /\ UNCHANGED <<world, memory, codecs, cur, tries, ok, lock, process, on, link, gui>>

\* The demo is looked at once.
Check ==
  /\ Go("cleaner", "check", IF running THEN "log" ELSE "codecs")
  /\ on' = FALSE
  /\ cur' = [cur EXCEPT !["cleaner"] = "STOP"]
  /\ UNCHANGED <<world, memory, codecs, tries, ok, lock, process, link, gui>>

\* Whatever the STOP returned, the codecs are shut down next.
StopSent ==
  /\ Go("cleaner", "done", "codecs")
  /\ UNCHANGED <<world, memory, codecs, cur, tries, ok, lock, process, on, link, gui>>

ShutCodecs ==
  /\ Go("cleaner", "codecs", "close")
  /\ \E result \in CodecResult : CodecShutdown(result)
  /\ UNCHANGED <<world, memory, cur, tries, ok, lock, process, on, link, gui>>

\* Mutant of CloseSockets: cleanup() joins the command thread first.
CloseSocketsJoins ==
  /\ pc["worker"] = "over"
  /\ Go("cleaner", "close", "destroy")
  /\ connected' = FALSE
  /\ UNCHANGED <<world, memory, codecs, cur, tries, ok, lock, process, on, inbox, replies, gui>>

\* The descriptors; recv() of the command thread goes on with what it has.
CloseSockets ==
  /\ Go("cleaner", "close", "destroy")
  /\ connected' = FALSE
  /\ UNCHANGED <<world, memory, codecs, cur, tries, ok, lock, process, on, inbox, replies, gui>>

Destroy ==
  /\ Go("cleaner", "destroy", "restore")
  /\ mapped' = FALSE
  /\ UNCHANGED <<world, command, running, fw, codecs, cur, tries, ok, lock, process, on, link, gui>>

\* switch_firmware() stops the C7x and starts it with the base firmware.
Restore ==
  /\ Go("cleaner", "restore", "over")
  /\ fw' = "base" /\ running' = FALSE
  /\ process' = "exited"
  /\ UNCHANGED <<world, command, mapped, codecs, cur, tries, ok, lock, on, link, gui>>

\* Its result is not looked at: the C7x goes on, or stays stopped.
RestoreFails ==
  /\ "switch" \in Faults
  /\ Go("cleaner", "restore", "over")
  /\ \/ UNCHANGED <<fw, running>>
     \/ fw' = "none" /\ running' = FALSE
  /\ process' = "exited"
  /\ UNCHANGED <<world, command, mapped, codecs, cur, tries, ok, lock, on, link, gui>>

----------------------------------------------------------------------------
(* The GUI: toggle_demo(), disconnect_from_evm() and send_command(). *)

\* A recv() that waits keeps the connection when its descriptor is closed.
Receiving == process = "up" /\ (connected \/ pc["worker"] = "recv")

GuiSend(c, to) ==
  /\ gpc' = to
  /\ inbox' = IF Receiving THEN Append(inbox, c) ELSE inbox

Waits == gpc \notin {"idle", "gone"}

\* current_c7x_stats["demoRunning"], which the main loop takes from the queue of
\* statistics between two commands only.
DemoSeen == gpc \in {"stopping", "shutting"} \/ (gpc = "idle" /\ stats)

\* Mutant of Toggle: the codecs are shut down under the running demo.
ToggleCodecsFirst ==
  /\ Mode = "client" /\ gpc = "idle" /\ toggles < Toggles
  /\ IF stats THEN GuiSend("CODEC_SHUTDOWN", "shutting")
     ELSE GuiSend("CODEC_INIT", "powering")
  /\ toggles' = toggles + 1
  /\ UNCHANGED <<world, memory, codecs, thread, process, on, connected, replies, stats>>

\* Stop the demo and then the codecs, or power the codecs and start it.
Toggle ==
  /\ Mode = "client" /\ gpc = "idle" /\ toggles < Toggles
  /\ IF stats THEN GuiSend("STOP", "stopping") ELSE GuiSend("CODEC_INIT", "powering")
  /\ toggles' = toggles + 1
  /\ UNCHANGED <<world, memory, codecs, thread, process, on, connected, replies, stats>>

\* disconnect_from_evm(): by its button or, from on_closing(), by Ctrl+C in the
\* middle of a command; a demo that was seen to run is stopped first.
Leave ==
  /\ Mode = "client" /\ gpc \notin {"leaving", "parting", "gone"}
  /\ IF DemoSeen THEN GuiSend("STOP", "leaving") ELSE gpc' = "gone" /\ UNCHANGED inbox
  /\ UNCHANGED <<world, memory, codecs, thread, process, on, connected, replies, stats, toggles>>

\* The call of send_command() is over.  toggle_demo() goes on when it returned
\* true, disconnect_from_evm() in any case.
GuiGoesOn(result) ==
  CASE result /\ gpc = "stopping" -> GuiSend("CODEC_SHUTDOWN", "shutting")
    [] result /\ gpc = "powering" -> GuiSend("START", "starting")
    [] gpc = "leaving" -> GuiSend("CODEC_SHUTDOWN", "parting")
    [] gpc = "parting" -> gpc' = "gone" /\ UNCHANGED inbox
    [] OTHER -> gpc' = "idle" /\ UNCHANGED inbox

\* recv(1024) takes what has arrived: one OK, or it is a failure.
GuiReads ==
  /\ Waits /\ replies # <<>>
  /\ \E k \in 1..Len(replies) :
       /\ replies' = SubSeq(replies, k + 1, Len(replies))
       /\ GuiGoesOn(k = 1 /\ Head(replies) = "OK")
  /\ UNCHANGED <<world, memory, codecs, thread, process, on, connected, stats, toggles>>

\* The socket's timeout: the answer, when it comes, is not read by this call.
GuiTimesOut ==
  /\ "timeout" \in Faults /\ Waits
  /\ GuiGoesOn(FALSE)
  /\ UNCHANGED <<world, memory, codecs, thread, process, on, connected, replies, stats, toggles>>

\* The end of the connection is an answer that is not OK.
GuiSeesEof ==
  /\ Waits /\ replies = <<>> /\ ~Receiving
  /\ GuiGoesOn(FALSE)
  /\ UNCHANGED <<world, memory, codecs, thread, process, on, connected, replies, stats, toggles>>

\* The statistics of each second.
GuiStats ==
  /\ Mode = "client" /\ process = "up" /\ on /\ stats # running
  /\ stats' = running
  /\ UNCHANGED <<world, memory, codecs, thread, process, on, link, gpc, toggles>>

----------------------------------------------------------------------------
Work ==
  \/ SendControl("worker") \/ Recv("worker") \/ Codec("worker") \/ Reply("worker")
  \/ CliStart \/ CliStop \/ CliDone \/ CliFinish

Clean ==
  \/ SendControl("cleaner") \/ Caught \/ Check \/ StopSent \/ ShutCodecs
  \/ CloseSockets \/ Destroy \/ Restore \/ RestoreFails

Gui == GuiReads \/ GuiSeesEof

\* The example ended, or waits for the next command.
Quiet ==
  /\ \/ process # "up"
     \/ pc = [worker |-> "recv", cleaner |-> "none"] /\ inbox = <<>>
  /\ ~Waits
  /\ UNCHANGED vars

Next == Work \/ Clean \/ C7x \/ Signal \/ Toggle \/ Leave \/ Gui \/ GuiTimesOut \/ GuiStats \/ Quiet

Spec == Init /\ [][Next]_vars

\* Threads run and the GUI reads; neither the C7x nor the user has to act.
FairSpec == Spec /\ WF_vars(Work) /\ WF_vars(Clean) /\ WF_vars(Gui)

----------------------------------------------------------------------------
At == {"none", "recv", "next", "codec", "log", "logging", "write", "writing", "poll",
       "polling", "clear", "clearing", "done", "finish", "caught", "check", "codecs",
       "close", "destroy", "restore", "over"}

TypeOK ==
  /\ world \in Worlds
  /\ command \in {"NO_CHANGE"} \cup Control /\ running \in BOOLEAN
  /\ mapped \in BOOLEAN /\ fw \in {"sigchain", "base", "none"}
  /\ powered \in {"none", "some", "all"} /\ flagged \in BOOLEAN
  /\ lock \in Thread \cup {"free"}
  /\ process \in {"up", "exited", "killed"} /\ on \in BOOLEAN
  /\ pc \in [Thread -> At]
  /\ cur \in [Thread -> Command]
  /\ tries \in [Thread -> 0..Polls]
  /\ ok \in [Thread -> BOOLEAN]
  /\ connected \in BOOLEAN
  /\ inbox \in Seq(Command) /\ replies \in Seq({"OK", "ERROR"})
  /\ gpc \in {"idle", "stopping", "shutting", "powering", "starting",
              "leaving", "parting", "gone"}
  /\ stats \in BOOLEAN /\ toggles \in 0..Toggles

\* A command that is answered with OK was done by the C7x, also when the one
\* before it timed out and was left in the shared word: nothing is pending
\* and the demo is in the state asked for ("@return true on success, false on
\* failure", rpmsg_sigchain_biquad_example.h:177).  Not so when the last of
\* the synchronisations fails: the code then returns true, and clears nothing.
OkMeansDone ==
  (pc["worker"] = "done" /\ ok["worker"] /\ cur["worker"] \in Control
     /\ pc["cleaner"] = "none" /\ "sync" \notin Faults)
  => running = Expected(cur["worker"]) /\ command = "NO_CHANGE"

\* "Stop demo: stop demo first, then shutdown codecs" and "initialize codecs
\* first, then start demo" (GUI): the demo runs on codecs that are off only
\* when the GUI has left, shutting them down although its STOP failed, and then
\* no longer than the C7x is late for that STOP.  A GUI that gives up on an
\* answer, and a lost synchronisation, are outside what the protocol stands.
DemoNeedsCodecs ==
  (running /\ pc["cleaner"] = "none" /\ Faults \cap {"timeout", "sync"} = {})
  => powered = "all" \/ (gpc \in {"parting", "gone"} /\ command = "STOP")

\* The GUI's dialogue: a STOP that timed out on the board, statistics that lag
\* and commands that fail leave no answer over for the next command to read,
\* as long as the GUI itself waits for its answers.
NoStaleReply ==
  (gpc = "idle" /\ Faults \cap {"timeout", "signal"} = {})
  => replies = <<>> /\ inbox = <<>>

\* cleanup() frees the shared buffer under whatever is being executed
\* (rpmsg_sigchain_biquad_example.c:567-607).  In spite of that the process gets
\* as far as the switch back to the base firmware, but for a command of the
\* command thread that was past its synchronisation when the buffer went: no
\* command of the command line, and none of cleanup()'s own.
DiesOnlyInCommand ==
  process = "killed" =>
    /\ Mode = "client" /\ pc["cleaner"] = "restore"
    /\ pc["worker"] \in {"writing", "polling", "clearing"}

\* Every command of the GUI is answered or the connection ends, whatever fails
\* on the board and also when a signal tears it down.
CommandsEnd == Waits ~> ~Waits

\* A signal ends the server, also when a command is being executed that waits
\* for the C7x.
SignalEnds ==
  (Mode = "client" /\ pc["cleaner"] = "caught") ~> (process # "up")

\* "Signal handler for clean shutdown" (rpmsg_sigchain_biquad_example.c:610):
\* a signal ends the example, in both modes.
CleanShutdown == (pc["cleaner"] = "caught") ~> (process # "up")

=============================================================================
