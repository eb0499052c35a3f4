--------------------------- MODULE FirmwareLoader ---------------------------
(***************************************************************************)
(* fw_loader.c: switch_firmware() stops the C7x, points the firmware link  *)
(* at another image and starts the C7x again, one system call at a time.   *)
(* The remoteproc driver behind the sysfs file is external: it refuses to  *)
(* stop what is offline, and to start what runs or has no image.           *)
(***************************************************************************)
CONSTANT Faults  \* which of the failures named below can occur

VARIABLES
  dsp,     \* what the sysfs file reads: "running" or "offline"
  link,    \* the image the link names, or "none"
  loaded,  \* the image the C7x was started with last
  switch,  \* the call of switch_firmware() of each thread of a program
  trouble  \* the failures that have occurred so far

firmware == <<dsp, link, loaded>>

Image == {"base", "test"}
Thread == {"main", "handler"}
SwitchPC == {"idle", "stop", "unlink", "symlink", "start", "done", "failed"}

\* fault: a system call failed for a reason of its own.
Idle == [at |-> "idle", fw |-> "base", fault |-> FALSE]

FirmwareInit ==
  /\ dsp = "running" /\ link = "base" /\ loaded = "base"
  /\ switch = [t \in Thread |-> Idle]
  /\ trouble = {}

FirmwareTypeOK ==
  /\ dsp \in {"running", "offline"}
  /\ link \in Image \cup {"none"} /\ loaded \in Image
  /\ switch \in [Thread -> [at : SwitchPC, fw : Image, fault : BOOLEAN]]
  /\ trouble \subseteq Faults

Occurs(kind) == kind \in Faults /\ trouble' = trouble \cup {kind}

Call(t, fw) == switch' = [switch EXCEPT ![t] = [Idle EXCEPT !.at = "stop", !.fw = fw]]

Moves(t, from, to) ==
  /\ switch[t].at = from
  /\ switch' = [switch EXCEPT ![t].at = to]
  /\ UNCHANGED trouble

\* A call to the kernel fails; nothing of what was done before is undone.
Fails(t, from, kind) ==
  /\ switch[t].at = from
  /\ Occurs(kind)
  /\ switch' = [switch EXCEPT ![t].at = "failed", ![t].fault = TRUE]

----------------------------------------------------------------------------
\* What the driver does with a verb.
StopsDsp == dsp = "running" /\ dsp' = "offline" /\ UNCHANGED <<link, loaded>>

StartsDsp ==
  /\ dsp = "offline" /\ link # "none"
  /\ dsp' = "running" /\ loaded' = link
  /\ UNCHANGED link

Refuses(verb) ==
  IF verb = "stop" THEN dsp = "offline" ELSE dsp = "running" \/ link = "none"

----------------------------------------------------------------------------
\* write_state_if_needed(state, desired) skips only when the file reads the
\* verb that would be written: "stop" and "start" are never read.
Stop(t) == StopsDsp /\ Moves(t, "stop", "unlink")

StopRefused(t) ==
  /\ Refuses("stop")
  /\ Moves(t, "stop", "failed")
  /\ UNCHANGED firmware

\* update_symlink().
Unlink(t) ==
  /\ Moves(t, "unlink", "symlink")
  /\ link' = "none"
  /\ UNCHANGED <<dsp, loaded>>

Symlink(t) ==
  /\ link = "none"
  /\ Moves(t, "symlink", "start")
  /\ link' = switch[t].fw
  /\ UNCHANGED <<dsp, loaded>>

\* Another program has made the link in between.
SymlinkExists(t) ==
  /\ link # "none"
  /\ Moves(t, "symlink", "failed")
  /\ UNCHANGED firmware

StartDsp(t) == StartsDsp /\ Moves(t, "start", "done")

StartRefused(t) ==
  /\ Refuses("start")
  /\ Moves(t, "start", "failed")
  /\ UNCHANGED firmware

CallFails(t) ==
  /\ Fails(t, "stop", "sysfs") \/ Fails(t, "symlink", "symlink") \/ Fails(t, "start", "sysfs")
  /\ UNCHANGED firmware

SwitchStep(t) ==
  \/ Stop(t) \/ StopRefused(t) \/ Unlink(t) \/ Symlink(t) \/ SymlinkExists(t)
  \/ StartDsp(t) \/ StartRefused(t) \/ CallFails(t)

\* The call has returned.
Switched(t) == switch[t].at = "done"
SwitchFailed(t) == switch[t].at = "failed"

=============================================================================
