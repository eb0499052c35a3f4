------------------------------ MODULE TwoDFft ------------------------------
(***************************************************************************)
(* rpmsg_2dfft_example: one process after another switches the C7x to the  *)
(* test firmware, sets its buffers up, exchanges one message with it and   *)
(* cleans up, with a ladder of labels for the failures and with SIGINT,    *)
(* whose handler cleans up as well, whatever main is doing.                *)
(***************************************************************************)
EXTENDS FirmwareLoader, Naturals

CONSTANT MaxRuns  \* bound: processes

\* Failures of the sysfs file, the link, the endpoint, each allocation, the
\* input file and the exchange; and SIGINT.
Fault == {"sysfs", "symlink", "rpmsg", "data", "param", "file", "message", "signal"}

ASSUME FftAssumption == Faults \subseteq Fault /\ MaxRuns \in Nat

VARIABLES
  pc,       \* where main and the handler are
  sigint,   \* what SIGINT does: "default" or "handler"
  buffers,  \* "none", "ready" or "freed", by buffer
  misused,  \* a buffer was freed that was not there
  runs      \* processes started

process == <<sigint, buffers, misused>>
fftVars == <<switch, trouble, pc, process, runs>>

Place == {"exited", "switching", "rpmsg", "data", "param", "load", "register", "exchange",
          "compare", "restoring", "free param", "free data", "last", "none"}
Buffer == {"data", "param"}
NoBuffers == [b \in Buffer |-> "none"]

FftInit ==
  /\ FirmwareInit
  /\ pc = [t \in Thread |-> IF t = "main" THEN "exited" ELSE "none"]
  /\ sigint = "default" /\ buffers = NoBuffers /\ misused = FALSE /\ runs = 0

\* The handler runs in the place of main.
At(t, where) == pc[t] = where /\ (t = "main" => pc["handler"] = "none")
Goto(t, where) == pc' = [pc EXCEPT ![t] = where]

Start ==
  /\ pc["main"] = "exited" /\ runs < MaxRuns
  /\ Goto("main", "switching")
  /\ Call("main", "test")
  /\ sigint' = "default" /\ buffers' = NoBuffers /\ misused' = FALSE
  /\ runs' = runs + 1
  /\ UNCHANGED <<firmware, trouble>>

\* A step inside switch_firmware().
InSwitch(t) ==
  /\ At(t, "switching") \/ At(t, "restoring")
  /\ SwitchStep(t)
  /\ UNCHANGED <<pc, process, runs>>

\* Mutant of SwitchReturns: what switch_firmware() returned is not looked at.
SwitchReturnsAnyway ==
  /\ At("main", "switching")
  /\ Switched("main") \/ SwitchFailed("main")
  /\ Goto("main", "rpmsg")
  /\ UNCHANGED <<firmware, switch, trouble, process, runs>>

\* The label of a failed switch frees buffers that were never there.
SwitchReturns ==
  /\ At("main", "switching")
  /\ \/ Switched("main") /\ Goto("main", "rpmsg")
     \/ SwitchFailed("main") /\ Goto("main", "free param")
  /\ UNCHANGED <<firmware, switch, trouble, process, runs>>

\* The failure of init_rpmsg() returns at once.
InitRpmsg ==
  /\ At("main", "rpmsg")
  /\ \/ Goto("main", "data") /\ UNCHANGED trouble
     \/ Occurs("rpmsg") /\ Goto("main", "exited")
  /\ UNCHANGED <<firmware, switch, process, runs>>

Allocate(b, next, failure) ==
  /\ At("main", b)
  /\ \/ buffers' = [buffers EXCEPT ![b] = "ready"] /\ Goto("main", next) /\ UNCHANGED trouble
     \/ UNCHANGED buffers /\ Goto("main", failure) /\ Occurs(b)
  /\ UNCHANGED <<firmware, switch, sigint, misused, runs>>

AllocateData == Allocate("data", "param", "exited")
AllocateParam == Allocate("param", "load", "free data")

\* load_test_data() returns a bool, which is never negative: what it returns
\* makes no difference.
Load ==
  /\ At("main", "load")
  /\ Goto("main", "register")
  /\ UNCHANGED trouble \/ Occurs("file")
  /\ UNCHANGED <<firmware, switch, process, runs>>

Register ==
  /\ At("main", "register")
  /\ sigint' = "handler"
  /\ Goto("main", "exchange")
  /\ UNCHANGED <<firmware, switch, trouble, buffers, misused, runs>>

\* Mutant of Exchange: the failure skips the firmware.
ExchangeLeaves ==
  /\ At("main", "exchange")
  /\ \/ Goto("main", "compare") /\ UNCHANGED <<switch, trouble>>
     \/ Occurs("message") /\ Goto("main", "free param") /\ UNCHANGED switch
  /\ UNCHANGED <<firmware, process, runs>>

\* send_msg() and recv_msg(); a failure restores the firmware.
Exchange ==
  /\ At("main", "exchange")
  /\ \/ Goto("main", "compare") /\ UNCHANGED <<switch, trouble>>
     \/ Occurs("message") /\ Goto("main", "restoring") /\ Call("main", "base")
  /\ UNCHANGED <<firmware, process, runs>>

\* compare_output(), the verdict, and cleanup().
Compare ==
  /\ At("main", "compare")
  /\ Goto("main", "restoring")
  /\ Call("main", "base")
  /\ UNCHANGED <<firmware, trouble, process, runs>>

\* cleanup() goes on whatever switch_firmware() returned.
Restored(t) ==
  /\ At(t, "restoring")
  /\ Switched(t) \/ SwitchFailed(t)
  /\ Goto(t, "free param")
  /\ UNCHANGED <<firmware, switch, trouble, process, runs>>

\* Mutant of Free: the second buffer is the first again.
FreeTwice(t, b, next) ==
  /\ At(t, IF b = "param" THEN "free param" ELSE "free data")
  /\ misused' = (misused \/ buffers["param"] # "ready")
  /\ buffers' = [buffers EXCEPT !["param"] = "freed"]
  /\ Goto(t, next)
  /\ UNCHANGED <<firmware, switch, trouble, sigint, runs>>

\* dmabuf_heap_destroy(): unmaps, and closes the descriptors it finds.
Free(t, b, next) ==
  /\ At(t, IF b = "param" THEN "free param" ELSE "free data")
  /\ misused' = (misused \/ buffers[b] # "ready")
  /\ buffers' = [buffers EXCEPT ![b] = "freed"]
  /\ Goto(t, next)
  /\ UNCHANGED <<firmware, switch, trouble, sigint, runs>>

FreeParam(t) == Free(t, "param", "free data")

\* The last buffer and the endpoint; then main returns, or the handler exits.
FreeData(t) == Free(t, "data", "last")

Exit(t) ==
  /\ At(t, "last")
  /\ pc' = [pc EXCEPT !["main"] = "exited", !["handler"] = "none"]
  /\ UNCHANGED <<firmware, switch, trouble, process, runs>>

\* SIGINT kills a process that has not registered its handler.
Interrupt ==
  /\ Occurs("signal")
  /\ pc["main"] # "exited" /\ pc["handler"] = "none"
  /\ IF sigint = "default" THEN Goto("main", "exited") /\ UNCHANGED switch
     ELSE Goto("handler", "restoring") /\ Call("handler", "base")
  /\ UNCHANGED <<firmware, process, runs>>

Main ==
  \/ SwitchReturns \/ InitRpmsg \/ AllocateData \/ AllocateParam \/ Load \/ Register
  \/ Exchange \/ Compare

Example ==
  \/ Start \/ Main \/ Interrupt
  \/ \E t \in Thread : InSwitch(t) \/ Restored(t) \/ FreeParam(t) \/ FreeData(t) \/ Exit(t)

----------------------------------------------------------------------------
FftTypeOK ==
  /\ FirmwareTypeOK
  /\ pc \in [Thread -> Place]
  /\ pc["handler"] \in {"none", "restoring", "free param", "free data", "last"}
  /\ sigint \in {"default", "handler"}
  /\ buffers \in [Buffer -> {"none", "ready", "freed"}]
  /\ misused \in BOOLEAN /\ runs \in 0..MaxRuns

=============================================================================
