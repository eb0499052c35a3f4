----------------------------- MODULE C7xSharing -----------------------------
(***************************************************************************)
(* Two programs that share the C7x and nothing else, no lock either: the   *)
(* 2D FFT example, which borrows it for its test firmware, and the model   *)
(* daemon, whose wait_for_c7x() makes sure that it runs the edge-AI image  *)
(* (the base image of the examples) each time the daemon starts.           *)
(***************************************************************************)
EXTENDS TwoDFft

CONSTANT MaxBoots  \* bound: starts of the daemon

ASSUME SharingAssumption == MaxBoots \in Nat

VARIABLES
  boot,     \* where wait_for_c7x() is
  restart,  \* need_restart
  alone,    \* no process of the example has been there since it began
  shared,   \* a boot and a process of the example have met
  boots     \* starts of the daemon

bootVars == <<boot, restart, alone, shared, boots>>
vars == <<firmware, fftVars, bootVars>>

Booting == boot \notin {"off", "true", "false"}

Init ==
  /\ FftInit
  /\ boot = "off" /\ restart = FALSE /\ alone = FALSE /\ shared = FALSE /\ boots = 0

\* A step of the example, which may be the one that meets the daemon.
Fft ==
  /\ Example
  /\ shared' = (shared \/ (Booting /\ pc'["main"] # "exited"))
  /\ alone' = (alone /\ pc'["main"] = "exited")
  /\ UNCHANGED <<boot, restart, boots>>

----------------------------------------------------------------------------
(* wait_for_c7x(). *)

Step(from, to) ==
  /\ boot = from /\ boot' = to
  /\ UNCHANGED <<restart, alone, shared, boots, fftVars>>

\* fw_link_correct().
Boot ==
  /\ ~Booting /\ boots < MaxBoots
  /\ boots' = boots + 1
  /\ boot' = IF link = "base" THEN "state" ELSE "look"
  /\ restart' = FALSE
  /\ alone' = (pc["main"] = "exited")
  /\ shared' = (shared \/ pc["main"] # "exited")
  /\ UNCHANGED <<firmware, fftVars>>

\* Mutant of Look: the state is not looked at before the stop.
LookBlind == Step("look", "stop") /\ UNCHANGED firmware

\* The wrong link: what runs is stopped first.
Look == Step("look", IF dsp = "running" THEN "stop" ELSE "unlink") /\ UNCHANGED firmware

\* The poll for "offline" goes on after its timeout, whatever it has read.
BootStop == Step("stop", "unlink") /\ StopsDsp

BootUnlink ==
  /\ Step("unlink", "symlink")
  /\ link' = "none"
  /\ UNCHANGED <<dsp, loaded>>

BootSymlink ==
  /\ link = "none"
  /\ boot = "symlink" /\ boot' = "state"
  /\ link' = "base"
  /\ restart' = TRUE
  /\ UNCHANGED <<dsp, loaded, alone, shared, boots, fftVars>>

\* Mutant of State: a C7x that is not running is reported as it is.
StateTrusts == Step("state", "true") /\ UNCHANGED firmware

\* A C7x that runs is started no more.
State ==
  /\ Step("state", IF dsp # "running" THEN "start" ELSE IF restart THEN "poll" ELSE "true")
  /\ UNCHANGED firmware

BootStart == Step("start", "poll") /\ StartsDsp

\* Up to BOOT_TIMEOUT_S looks at the state.
Poll ==
  /\ \/ dsp = "running" /\ Step("poll", "true")
     \/ dsp # "running" /\ Step("poll", "false")
  /\ UNCHANGED firmware

\* The driver refuses, or the link is there already.
BootFails ==
  /\ \/ Refuses("stop") /\ Step("stop", "false")
     \/ link # "none" /\ Step("symlink", "false")
     \/ Refuses("start") /\ Step("start", "false")
  /\ UNCHANGED firmware

----------------------------------------------------------------------------
Done == runs = MaxRuns /\ boots = MaxBoots /\ pc["main"] = "exited" /\ ~Booting /\ UNCHANGED vars

Next ==
  \/ Fft \/ Boot \/ Look \/ BootStop \/ BootUnlink \/ BootSymlink \/ State \/ BootStart
  \/ Poll \/ BootFails \/ Done

Spec == Init /\ [][Next]_vars

----------------------------------------------------------------------------
TypeOK ==
  /\ FftTypeOK
  /\ boot \in {"off", "look", "stop", "unlink", "symlink", "state", "start", "poll",
              "true", "false"}
  /\ restart \in BOOLEAN /\ alone \in BOOLEAN /\ shared \in BOOLEAN
  /\ boots \in 0..MaxBoots

\* Whatever a process of the example has left behind, wherever it was killed and
\* whatever failed, a daemon that is told that the C7x is ready has it running the
\* edge-AI image.  Not so once the two have met: the daemon looks at the link and
\* at the state, and the C7x may run an image that the link no longer names.
ReadyMeansEdge ==
  (boot = "true" /\ alone /\ ~shared) => dsp = "running" /\ loaded = "base"

\* And it is told so: what the example leaves never makes the boot fail.
BootRepairs == (alone /\ ~shared) => boot # "false"

\* "This function is called during program termination to release resources,
\* destroy DMA buffers, and reset the firmware to its base state"
\* (rpmsg_2dfft_example.c:79-80): no process leaves the C7x otherwise, as long
\* as nothing has failed but the input file and the exchange.  The rungs of the
\* ladder above them, and a signal, leave the test firmware.
BaseAfterExit ==
  (pc["main"] = "exited" /\ trouble \subseteq {"file", "message"} /\ ~shared)
  => dsp = "running" /\ loaded = "base" /\ link = "base"

\* Every buffer that is freed is one that was initialised and not freed before,
\* and a process that is over has freed all that it had, on every rung of the
\* ladder below the first switch and through every early return.
FreesWhatItHas ==
  (trouble \cap {"sysfs", "symlink", "signal"} = {} /\ ~shared) =>
    ~misused /\ (pc["main"] = "exited" => \A b \in Buffer : buffers[b] # "ready")

\* Nothing is exchanged with a C7x that runs another image than the one this
\* process has switched to, whatever earlier processes left behind, as long as
\* no boot of the daemon has met a process of the example: nothing keeps a boot
\* from giving the C7x another image in the middle of an exchange.
TalksToItsFirmware ==
  (pc["main"] \in {"exchange", "compare"} /\ pc["handler"] = "none" /\ ~shared)
  => dsp = "running" /\ loaded = "test"

\* A switch fails only when a system call does: a C7x that is already stopped
\* is no reason ("C7x is already in '%s' state. Skipping.", fw_loader.c:33-36).
FailsForAReason ==
  \A t \in Thread : SwitchFailed(t) => switch[t].fault

=============================================================================
