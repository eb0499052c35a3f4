-------------------------- MODULE C7xSharingProofs --------------------------
(***************************************************************************)
(* Proofs about C7xSharing for any number of processes and boots and any   *)
(* set of failures.  Everything is said of histories in which the two      *)
(* programs have not met (~shared).  Then only one of them touches the     *)
(* C7x, and where it is in its ladder of system calls says what it has     *)
(* made of it: Switching for the example, Repairing for the daemon.  What  *)
(* earlier processes leave is Left.                                        *)
(***************************************************************************)
EXTENDS C7xSharing, TLAPS

\* After the switch to the test firmware and before the switch back.
Middle == {"rpmsg", "data", "param", "load", "register", "exchange", "compare"}
Ending == {"free param", "free data", "last"}

\* The handler takes the place of a main that is there.
Places ==
  /\ pc["main"] # "none"
  /\ pc["handler"] # "none" => pc["main"] # "exited" /\ "signal" \in trouble

\* A boot has the C7x to itself, and what runs is what the link names.
Apart ==
  /\ Booting => pc["main"] = "exited"
  /\ pc["main"] # "exited" => ~alone
  /\ dsp = "running" => link = loaded

\* How far switch_firmware() has come.
Ladder(t) ==
  /\ switch[t].at \in {"unlink", "symlink", "start"} => dsp = "offline"
  /\ switch[t].at = "symlink" => link = "none"
  /\ switch[t].at = "start" => link = switch[t].fw
  /\ switch[t].at = "done" => dsp = "running" /\ loaded = switch[t].fw
  /\ switch[t].at # "idle"

Inside(t) == At(t, "switching") \/ At(t, "restoring")

Switching ==
  /\ \A t \in Thread : Inside(t) =>
       /\ Ladder(t)
       /\ switch[t].fw = IF pc[t] = "switching" THEN "test" ELSE "base"
  /\ pc["main"] \in Middle /\ pc["handler"] = "none" => dsp = "running" /\ loaded = "test"

\* How far wait_for_c7x() has come.
Repairing ==
  /\ boot = "stop" => dsp = "running"
  /\ boot \in {"unlink", "symlink", "start"} => dsp = "offline"
  /\ boot = "symlink" => link = "none"
  /\ boot \in {"state", "start", "poll"} => link = "base"
  /\ boot = "poll" => dsp = "running"
  /\ boot = "true" /\ alone => dsp = "running" /\ link = "base"
  /\ boot # "false"

\* As long as no system call has failed and no signal has come, every switch
\* succeeds and the C7x runs between them.
Calm == trouble \cap {"sysfs", "symlink", "signal"} = {}

HasBuffers ==
  /\ ~misused
  /\ pc["main"] \in {"exited", "switching", "rpmsg", "data", "last"} =>
       \A b \in Buffer : buffers[b] # "ready"
  /\ pc["main"] \in {"param", "free data"} =>
       buffers["data"] = "ready" /\ buffers["param"] # "ready"
  /\ pc["main"] \in {"load", "register", "exchange", "compare", "restoring", "free param"} =>
       buffers["data"] = "ready" /\ buffers["param"] = "ready"

Running ==
  /\ HasBuffers
  /\ pc["main"] \notin {"switching", "restoring"} /\ ~Booting => dsp = "running"
  /\ pc["main"] \in {"switching", "restoring"} =>
       /\ switch["main"].at = "stop" => dsp = "running"
       /\ switch["main"].at # "failed"

\* As long as nothing but the file and the exchange has failed, every process
\* leaves the base firmware.
Clean == trouble \subseteq {"file", "message"}

Left ==
  /\ boot \in {"off", "state", "true"} /\ ~restart
  /\ pc["main"] = "exited" \/ pc["main"] \in Ending => dsp = "running" /\ link = "base"

Unmet == Apart /\ Switching /\ Repairing /\ (Calm => Running) /\ (Clean => Left)

IInv == TypeOK /\ Places /\ (~shared => Unmet)

----------------------------------------------------------------------------
(* What the operations do to the call of switch_firmware() of each thread. *)

LEMMA Threads == Thread = {"main", "handler"} /\ "main" # "handler"
BY DEF Thread

\* A call, a step inside it, and a failure.
LEMMA CallFacts ==
  ASSUME FirmwareTypeOK, NEW t \in Thread, NEW fw \in Image, Call(t, fw)
  PROVE  /\ switch' \in [Thread -> [at : SwitchPC, fw : Image, fault : BOOLEAN]]
         /\ switch'[t].at = "stop" /\ switch'[t].fw = fw
         /\ \A o \in Thread \ {t} : switch'[o] = switch[o]
<1> DEFINE new == [Idle EXCEPT !.at = "stop", !.fw = fw]
<1>1. new \in [at : SwitchPC, fw : Image, fault : BOOLEAN] /\ new.at = "stop" /\ new.fw = fw
  BY DEF Idle, SwitchPC
<1>2. switch' = [switch EXCEPT ![t] = new]
  BY DEF Call
<1> HIDE DEF new
<1> QED BY <1>1, <1>2 DEF FirmwareTypeOK

LEMMA MovesFacts ==
  ASSUME FirmwareTypeOK, NEW t \in Thread, NEW from \in SwitchPC, NEW to \in SwitchPC,
         Moves(t, from, to)
  PROVE  /\ switch' \in [Thread -> [at : SwitchPC, fw : Image, fault : BOOLEAN]]
         /\ switch[t].at = from /\ switch'[t].at = to /\ switch'[t].fw = switch[t].fw
         /\ \A o \in Thread \ {t} : switch'[o] = switch[o]
         /\ trouble' = trouble
<1> DEFINE new == [switch[t] EXCEPT !.at = to]
<1>1. new \in [at : SwitchPC, fw : Image, fault : BOOLEAN] /\ new.at = to /\ new.fw = switch[t].fw
  BY DEF FirmwareTypeOK
<1>2. switch' = [switch EXCEPT ![t] = new]
  BY DEF Moves
<1> HIDE DEF new
<1> QED BY <1>1, <1>2 DEF FirmwareTypeOK, Moves

LEMMA FailsFacts ==
  ASSUME FirmwareTypeOK, NEW t \in Thread, NEW from \in SwitchPC, NEW kind \in Faults,
         Fails(t, from, kind)
  PROVE  /\ switch' \in [Thread -> [at : SwitchPC, fw : Image, fault : BOOLEAN]]
         /\ switch[t].at = from /\ switch'[t].at = "failed" /\ switch'[t].fw = switch[t].fw
         /\ \A o \in Thread \ {t} : switch'[o] = switch[o]
         /\ trouble' = trouble \cup {kind}
<1> DEFINE new == [[switch[t] EXCEPT !.at = "failed"] EXCEPT !.fault = TRUE]
<1>1. new \in [at : SwitchPC, fw : Image, fault : BOOLEAN] /\ new.at = "failed" /\ new.fw = switch[t].fw
  BY DEF FirmwareTypeOK, SwitchPC
<1>2. switch' = [switch EXCEPT ![t] = new]
  BY DEF Fails, FirmwareTypeOK
<1> HIDE DEF new
<1> QED BY <1>1, <1>2 DEF FirmwareTypeOK, Fails, Occurs

----------------------------------------------------------------------------
(* A step inside switch_firmware(). *)

\* The verdict of the ladder: it goes on, ends well, or fails for a reason.
LEMMA StepFacts ==
  ASSUME FirmwareTypeOK, NEW t \in Thread, SwitchStep(t), Ladder(t),
         dsp = "running" => link = loaded
  PROVE  /\ FirmwareTypeOK'
         /\ switch'[t].fw = switch[t].fw
         /\ \A o \in Thread \ {t} : switch'[o] = switch[o]
         /\ Ladder(t)' /\ switch'[t].at # "stop"
         /\ dsp' = "running" => link' = loaded'
         /\ trouble \subseteq trouble'
         /\ switch'[t].at = "failed" =>
              \/ trouble' \cap {"sysfs", "symlink"} # {}
              \/ switch[t].at = "stop" /\ dsp = "offline"
<1>1. switch[t].fw \in Image /\ "none" \notin Image
  BY DEF FirmwareTypeOK, Image
<1>2. {"stop", "unlink", "symlink", "start", "done", "failed"} \subseteq SwitchPC
  BY DEF SwitchPC
<1>3. CASE Stop(t)
  <2>1. Moves(t, "stop", "unlink") /\ dsp' = "offline" /\ link' = link /\ loaded' = loaded
    BY <1>3 DEF Stop, StopsDsp
  <2> QED BY <1>2, <2>1, MovesFacts DEF FirmwareTypeOK, Ladder
<1>4. CASE StopRefused(t)
  <2>1. Moves(t, "stop", "failed") /\ dsp = "offline" /\ UNCHANGED <<dsp, link, loaded>>
    BY <1>4 DEF StopRefused, Refuses, firmware
  <2> QED BY <1>2, <2>1, MovesFacts DEF FirmwareTypeOK, Ladder
<1>5. CASE Unlink(t)
  <2>1. Moves(t, "unlink", "symlink") /\ link' = "none" /\ UNCHANGED <<dsp, loaded>>
    BY <1>5 DEF Unlink
  <2> QED BY <1>2, <2>1, MovesFacts DEF FirmwareTypeOK, Ladder
<1>6. CASE Symlink(t)
  <2>1. Moves(t, "symlink", "start") /\ link' = switch[t].fw /\ UNCHANGED <<dsp, loaded>>
    BY <1>6 DEF Symlink
  <2> QED BY <1>1, <1>2, <2>1, MovesFacts DEF FirmwareTypeOK, Ladder
<1>7. ~SymlinkExists(t)
  <2>1. SymlinkExists(t) => switch[t].at = "symlink" /\ link # "none"
    BY DEF SymlinkExists, Moves
  <2> QED BY <2>1 DEF Ladder
<1>8. CASE StartDsp(t)
  <2>1. /\ Moves(t, "start", "done") /\ dsp' = "running" /\ loaded' = link /\ link' = link
        /\ link = switch[t].fw
    BY <1>8 DEF StartDsp, StartsDsp, Moves, Ladder
  <2> QED BY <1>1, <1>2, <2>1, MovesFacts DEF FirmwareTypeOK, Ladder
<1>9. ~StartRefused(t)
  <2>1. StartRefused(t) => switch[t].at = "start" /\ (dsp = "running" \/ link = "none")
    BY DEF StartRefused, Moves, Refuses
  <2> QED BY <1>1, <2>1 DEF Ladder
<1>10. CASE CallFails(t)
  <2>1. PICK from \in SwitchPC, kind \in {"sysfs", "symlink"} : Fails(t, from, kind)
    BY <1>2, <1>10 DEF CallFails
  <2>2. kind \in Faults /\ UNCHANGED <<dsp, link, loaded>>
    BY <1>10, <2>1 DEF CallFails, Fails, Occurs, firmware
  <2>3. /\ switch' \in [Thread -> [at : SwitchPC, fw : Image, fault : BOOLEAN]]
        /\ switch'[t].at = "failed" /\ switch'[t].fw = switch[t].fw
        /\ \A o \in Thread \ {t} : switch'[o] = switch[o]
        /\ trouble' = trouble \cup {kind}
    BY <2>1, <2>2, FailsFacts
  <2>4. trouble' \cap {"sysfs", "symlink"} # {} /\ trouble \subseteq trouble'
    BY <2>3
  <2>5. FirmwareTypeOK'
    BY <2>2, <2>3 DEF FirmwareTypeOK
  <2> QED BY <2>2, <2>3, <2>4, <2>5 DEF Ladder
<1> QED BY <1>3, <1>4, <1>5, <1>6, <1>7, <1>8, <1>9, <1>10 DEF SwitchStep

----------------------------------------------------------------------------
(* The example moves, and has the C7x to itself. *)

Fine ==
  /\ dsp = "running" => link = loaded
  /\ Switching
  /\ Calm => Running
  /\ Clean => Left

\* Without a signal there is no handler.
LEMMA CalmHasNoHandler == Places /\ Calm => pc["handler"] = "none"
BY DEF Places, Calm

LEMMA CleanIsCalm == Clean => Calm
BY DEF Clean, Calm

\* Failures are not forgotten.
LEMMA StaysTroubled ==
  ASSUME trouble \subseteq trouble'
  PROVE  (Calm' => Calm) /\ (Clean' => Clean)
BY DEF Calm, Clean

LEMMA InSwitchFine ==
  ASSUME FftTypeOK, Places, Fine, ~Booting, UNCHANGED <<boot, restart>>,
         NEW t \in Thread, InSwitch(t)
  PROVE  FftTypeOK' /\ Places' /\ Fine' /\ UNCHANGED pc
<1>1. /\ Inside(t) /\ SwitchStep(t) /\ UNCHANGED <<pc, sigint, buffers, misused, runs>>
      /\ FirmwareTypeOK
  BY DEF InSwitch, Inside, process, FftTypeOK
<1>2. Ladder(t) /\ (dsp = "running" => link = loaded)
  BY <1>1 DEF Fine, Switching
<1>3. /\ FirmwareTypeOK' /\ switch'[t].fw = switch[t].fw
      /\ \A o \in Thread \ {t} : switch'[o] = switch[o]
      /\ Ladder(t)' /\ switch'[t].at # "stop"
      /\ dsp' = "running" => link' = loaded'
      /\ trouble \subseteq trouble'
      /\ switch'[t].at = "failed" =>
           \/ trouble' \cap {"sysfs", "symlink"} # {}
           \/ switch[t].at = "stop" /\ dsp = "offline"
  BY <1>1, <1>2, StepFacts
<1>4. FftTypeOK'
  BY <1>1, <1>3 DEF FftTypeOK
<1>5. Places'
  BY <1>1, <1>3 DEF Places
<1>6. /\ \A o \in Thread \ {t} : ~Inside(o)
      /\ \A o \in Thread : Inside(o)' = Inside(o)
  BY <1>1, Threads DEF Inside, At
<1>7. Switching'
  <2>1. switch'[t].fw = IF pc[t] = "switching" THEN "test" ELSE "base"
    BY <1>1, <1>3 DEF Fine, Switching
  <2>2. ~(pc["main"] \in Middle /\ pc["handler"] = "none")
    BY <1>1, Threads DEF Inside, At, Middle
  <2> QED BY <1>1, <1>3, <1>6, <2>1, <2>2 DEF Switching
<1>8. ASSUME Calm' PROVE Running' /\ t = "main" /\ pc["main"] \in {"switching", "restoring"}
  <2>1. Calm /\ Running /\ pc["handler"] = "none"
    BY <1>3, <1>8, StaysTroubled, CalmHasNoHandler DEF Fine
  <2>2. t = "main" /\ pc["main"] \in {"switching", "restoring"}
    BY <1>1, <2>1, Threads DEF Inside, At
  <2>3. switch'["main"].at # "failed"
    BY <1>3, <1>8, <2>1, <2>2 DEF Calm, Running
  <2> QED BY <1>1, <1>3, <2>1, <2>2, <2>3 DEF Running, HasBuffers
<1>9. ASSUME Clean' PROVE Left'
  <2>1. Clean /\ Left
    BY <1>3, <1>9, StaysTroubled DEF Fine
  <2>2. Calm'
    BY <1>9, CleanIsCalm DEF Clean, Calm
  <2>3. pc["main"] \in {"switching", "restoring"}
    BY <1>8, <2>2
  <2> QED BY <1>1, <2>1, <2>3 DEF Left, Ending
<1> QED BY <1>1, <1>3, <1>4, <1>5, <1>7, <1>8, <1>9 DEF Fine

\* Where a thread goes.
LEMMA GotoFacts ==
  ASSUME FftTypeOK, NEW t \in Thread, NEW where \in Place, Goto(t, where),
         t = "handler" => where \in {"none", "restoring", "free param", "free data", "last"}
  PROVE  /\ pc' \in [Thread -> Place] /\ pc'[t] = where
         /\ \A o \in Thread \ {t} : pc'[o] = pc[o]
         /\ pc'["handler"] \in {"none", "restoring", "free param", "free data", "last"}
BY Threads DEF FftTypeOK, Goto

\* A process begins.
LEMMA StartFine ==
  ASSUME FftTypeOK, Places, Fine, ~Booting, UNCHANGED <<boot, restart>>, Start
  PROVE  FftTypeOK' /\ Places' /\ Fine'
<1>1. /\ pc["main"] = "exited" /\ pc["handler"] = "none" /\ FirmwareTypeOK
      /\ Goto("main", "switching") /\ Call("main", "test") /\ "test" \in Image
      /\ "main" \in Thread /\ "switching" \in Place /\ runs < MaxRuns
      /\ UNCHANGED <<dsp, link, loaded, trouble>>
      /\ sigint' = "default" /\ buffers' = NoBuffers /\ misused' = FALSE /\ runs' = runs + 1
  BY DEF Start, Places, FftTypeOK, Image, Thread, Place, firmware
<1>2. /\ pc' \in [Thread -> Place] /\ pc'["main"] = "switching" /\ pc'["handler"] = "none"
  BY <1>1, GotoFacts, Threads
<1>3. /\ switch' \in [Thread -> [at : SwitchPC, fw : Image, fault : BOOLEAN]]
      /\ switch'["main"].at = "stop" /\ switch'["main"].fw = "test"
  BY <1>1, CallFacts
<1>4. NoBuffers \in [Buffer -> {"none", "ready", "freed"}]
  BY DEF NoBuffers
<1>5. FftTypeOK'
  <2>1. runs' \in 0..MaxRuns
    BY <1>1, FftAssumption DEF FftTypeOK
  <2> QED BY <1>1, <1>2, <1>3, <1>4, <2>1 DEF FftTypeOK, FirmwareTypeOK
<1>6. Places'
  BY <1>2 DEF Places
<1>7. Switching'
  BY <1>2, <1>3, Threads DEF Switching, Inside, At, Ladder, Middle
<1>8. Calm' => Running'
  <2>1. Calm' => dsp = "running"
    BY <1>1 DEF Calm, Fine, Running
  <2>2. \A b \in Buffer : NoBuffers[b] = "none"
    BY DEF NoBuffers
  <2> QED BY <1>1, <1>2, <1>3, <2>1, <2>2 DEF Running, HasBuffers
<1>9. Clean' => Left'
  BY <1>1, <1>2 DEF Clean, Fine, Left, Ending
<1> QED BY <1>1, <1>5, <1>6, <1>7, <1>8, <1>9 DEF Fine

\* main goes on to the middle, or gives up.
LEMMA ReturnsFine ==
  ASSUME FftTypeOK, Places, Fine, ~Booting, UNCHANGED <<boot, restart>>, SwitchReturns
  PROVE  FftTypeOK' /\ Places' /\ Fine'
<1>1. /\ pc["main"] = "switching" /\ pc["handler"] = "none" /\ Inside("main")
      /\ UNCHANGED <<dsp, link, loaded, switch, trouble, sigint, buffers, misused, runs>>
  BY DEF SwitchReturns, At, Inside, firmware, process
<1>2. PICK where \in {"rpmsg", "free param"} :
        /\ Goto("main", where)
        /\ where = "rpmsg" => switch["main"].at = "done"
        /\ where = "free param" => switch["main"].at = "failed"
  BY DEF SwitchReturns, Switched, SwitchFailed
<1>3. /\ pc' \in [Thread -> Place] /\ pc'["main"] = where /\ pc'["handler"] = "none"
  <2>1. where \in Place
    BY DEF Place
  <2> QED BY <1>1, <1>2, <2>1, GotoFacts, Threads
<1>4. Ladder("main") /\ switch["main"].fw = "test"
  BY <1>1, Threads DEF Fine, Switching
<1>5. FftTypeOK' /\ Places'
  BY <1>1, <1>3 DEF FftTypeOK, FirmwareTypeOK, Places
<1>6. Switching'
  BY <1>1, <1>2, <1>3, <1>4, Threads DEF Switching, Inside, At, Ladder, Middle
<1>7. Calm' => Running' /\ where = "rpmsg"
  <2>1. Calm' => Running /\ where = "rpmsg" /\ dsp = "running"
    BY <1>1, <1>2, <1>4 DEF Calm, Fine, Running, Ladder
  <2> QED BY <1>1, <1>2, <1>3, <2>1 DEF Running, HasBuffers
<1>8. Clean' => Left'
  <2>1. Clean' => Left /\ Calm'
    BY <1>1 DEF Clean, Calm, Fine
  <2> QED BY <1>1, <1>3, <1>7, <2>1 DEF Left, Ending
<1> QED BY <1>1, <1>5, <1>6, <1>7, <1>8 DEF Fine

\* The variables of one process.
ProcessTypes ==
  /\ trouble \subseteq Faults /\ sigint \in {"default", "handler"}
  /\ buffers \in [Buffer -> {"none", "ready", "freed"}] /\ misused \in BOOLEAN

\* main goes on between the two switches, or gives up after a failure.
LEMMA MiddleFine ==
  ASSUME FftTypeOK, Places, Fine, ~Booting, UNCHANGED <<boot, restart>>,
         UNCHANGED <<firmware, switch, runs>>, ProcessTypes', trouble \subseteq trouble',
         pc["main"] \in Middle, pc["handler"] = "none",
         NEW where \in Middle \cup {"exited", "free data"}, Goto("main", where),
         where \in {"exited", "free data"} => ~Clean',
         Calm' => HasBuffers'
  PROVE  FftTypeOK' /\ Places' /\ Fine'
<1>1. /\ pc' \in [Thread -> Place] /\ pc'["main"] = where /\ pc'["handler"] = "none"
  <2>1. where \in Place
    BY DEF Place, Middle
  <2> QED BY <2>1, GotoFacts, Threads
<1>2. UNCHANGED <<dsp, link, loaded>> /\ dsp = "running" /\ loaded = "test"
  BY DEF Fine, Switching, firmware
<1>3. FftTypeOK'
  BY <1>1, <1>2 DEF FftTypeOK, FirmwareTypeOK, ProcessTypes
<1>4. Places'
  BY <1>1, Threads DEF Places, Middle
<1>5. Switching'
  BY <1>1, <1>2, Threads DEF Switching, Inside, At, Middle
<1>6. Calm' => Running'
  BY <1>1, <1>2 DEF Running, Middle
<1>7. Clean' => Left'
  <2>1. Clean' => Left /\ where \in Middle
    BY StaysTroubled DEF Fine
  <2> QED BY <1>1, <2>1 DEF Left, Ending, Middle
<1> QED BY <1>2, <1>3, <1>5, <1>6, <1>7, <1>4 DEF Fine

\* The steps between the two switches.
LEMMA MiddleSteps ==
  ASSUME FftTypeOK, Places, Fine, ~Booting, UNCHANGED <<boot, restart>>,
         InitRpmsg \/ AllocateData \/ AllocateParam \/ Load \/ Register
  PROVE  FftTypeOK' /\ Places' /\ Fine'
<1>1. ProcessTypes /\ (Calm => HasBuffers)
  BY DEF ProcessTypes, FftTypeOK, FirmwareTypeOK, Fine, Running
<1>2. CASE InitRpmsg
  <2>1. /\ pc["main"] = "rpmsg" /\ pc["handler"] = "none"
        /\ UNCHANGED <<firmware, switch, runs, sigint, buffers, misused>>
    BY <1>2 DEF InitRpmsg, At, process
  <2>2. PICK where \in {"data", "exited"} :
          /\ Goto("main", where) /\ trouble' \subseteq Faults /\ trouble \subseteq trouble'
          /\ where = "exited" => "rpmsg" \in trouble'
    BY <1>1, <1>2 DEF InitRpmsg, Occurs, ProcessTypes
  <2>3. pc'["main"] = where
    BY <2>2, GotoFacts, Threads DEF Place
  <2>4. Calm' => HasBuffers'
    BY <1>1, <2>1, <2>2, <2>3, StaysTroubled DEF HasBuffers
  <2>5. where = "exited" => ~Clean'
    BY <2>2 DEF Clean
  <2> QED BY <1>1, <2>1, <2>2, <2>4, <2>5, MiddleFine DEF Middle, ProcessTypes
<1>3. ASSUME NEW b \in Buffer, NEW next \in {"param", "load"}, NEW failure \in {"exited", "free data"},
             Allocate(b, next, failure),
             \/ b = "data" /\ next = "param" /\ failure = "exited"
             \/ b = "param" /\ next = "load" /\ failure = "free data"
      PROVE  FftTypeOK' /\ Places' /\ Fine'
  <2>1. /\ pc["main"] = b /\ pc["handler"] = "none"
        /\ UNCHANGED <<firmware, switch, runs, sigint, misused>>
    BY <1>3 DEF Allocate, At
  <2>2. PICK where \in {next, failure} :
          /\ Goto("main", where) /\ trouble' \subseteq Faults /\ trouble \subseteq trouble'
          /\ where = failure => b \in trouble' /\ buffers' = buffers
          /\ where = next => buffers' = [buffers EXCEPT ![b] = "ready"]
    BY <1>1, <1>3 DEF Allocate, Occurs, ProcessTypes
  <2>3. pc'["main"] = where
    <3>1. where \in Place
      BY <1>3, <2>2 DEF Place
    <3> QED BY <2>2, <3>1, GotoFacts, Threads
  <2>4. /\ buffers' \in [Buffer -> {"none", "ready", "freed"}]
        /\ where = next => buffers'[b] = "ready"
        /\ \A o \in Buffer \ {b} : buffers'[o] = buffers[o]
    BY <1>1, <1>3, <2>2 DEF ProcessTypes
  <2>5. Calm' => HasBuffers'
    <3>1. Calm' => HasBuffers
      BY <1>1, <2>2, StaysTroubled
    <3> QED BY <1>3, <2>1, <2>2, <2>3, <2>4, <3>1 DEF HasBuffers, Buffer
  <2>6. where = failure => ~Clean'
    BY <2>2, <1>3 DEF Clean
  <2> QED BY <1>1, <1>3, <2>1, <2>2, <2>4, <2>5, <2>6, MiddleFine DEF Middle, ProcessTypes
<1>4. CASE Load
  <2>1. /\ pc["main"] = "load" /\ pc["handler"] = "none" /\ Goto("main", "register")
        /\ UNCHANGED <<firmware, switch, runs, sigint, buffers, misused>>
        /\ trouble' \subseteq Faults /\ trouble \subseteq trouble'
    BY <1>1, <1>4 DEF Load, At, process, Occurs, ProcessTypes
  <2>2. pc'["main"] = "register"
    BY <2>1, GotoFacts, Threads DEF Place
  <2>3. Calm' => HasBuffers'
    BY <1>1, <2>1, <2>2, StaysTroubled DEF HasBuffers
  <2> QED BY <1>1, <2>1, <2>3, MiddleFine DEF Middle, ProcessTypes
<1>5. CASE Register
  <2>1. /\ pc["main"] = "register" /\ pc["handler"] = "none" /\ Goto("main", "exchange")
        /\ UNCHANGED <<firmware, switch, runs, trouble, buffers, misused>>
        /\ sigint' = "handler"
    BY <1>5 DEF Register, At
  <2>2. pc'["main"] = "exchange"
    BY <2>1, GotoFacts, Threads DEF Place
  <2>3. Calm' => HasBuffers'
    BY <1>1, <2>1, <2>2, StaysTroubled DEF HasBuffers
  <2> QED BY <1>1, <2>1, <2>3, MiddleFine DEF Middle, ProcessTypes
<1> QED BY <1>2, <1>3, <1>4, <1>5 DEF AllocateData, AllocateParam, Buffer

\* main restores the firmware, whether the exchange went well or not.
LEMMA RestoringFine ==
  ASSUME FftTypeOK, Places, Fine, ~Booting, UNCHANGED <<boot, restart>>,
         UNCHANGED <<firmware, process, runs>>, trouble' \subseteq Faults, trouble \subseteq trouble',
         pc["main"] \in {"exchange", "compare"}, pc["handler"] = "none",
         Goto("main", "restoring"), Call("main", "base")
  PROVE  FftTypeOK' /\ Places' /\ Fine'
<1>1. "main" \in Thread /\ "restoring" \in Place /\ "base" \in Image /\ FirmwareTypeOK
  BY DEF Thread, Place, Image, FftTypeOK
<1>2. /\ pc' \in [Thread -> Place] /\ pc'["main"] = "restoring" /\ pc'["handler"] = "none"
  BY <1>1, GotoFacts, Threads
<1>3. /\ switch' \in [Thread -> [at : SwitchPC, fw : Image, fault : BOOLEAN]]
      /\ switch'["main"].at = "stop" /\ switch'["main"].fw = "base"
  BY <1>1, CallFacts
<1>4. UNCHANGED <<dsp, link, loaded, buffers, misused, sigint, runs>> /\ dsp = "running"
  BY DEF Fine, Switching, Middle, firmware, process
<1>5. FftTypeOK'
  BY <1>2, <1>3, <1>4 DEF FftTypeOK, FirmwareTypeOK
<1>6. Places'
  BY <1>2 DEF Places
<1>7. Switching'
  BY <1>2, <1>3, <1>4, Threads DEF Switching, Inside, At, Ladder, Middle
<1>8. Calm' => Running'
  <2>1. Calm' => HasBuffers
    BY StaysTroubled DEF Fine, Running
  <2>2. Calm' => HasBuffers'
    BY <1>2, <1>4, <2>1 DEF HasBuffers
  <2> QED BY <1>2, <1>3, <1>4, <2>2 DEF Running
<1>9. Clean' => Left'
  <2>1. Clean' => Left
    BY StaysTroubled DEF Fine
  <2> QED BY <1>2, <2>1 DEF Left, Ending
<1> QED BY <1>4, <1>5, <1>6, <1>7, <1>8, <1>9 DEF Fine

\* main or the handler goes down the end of cleanup().
LEMMA EndingFine ==
  ASSUME FftTypeOK, Places, Fine, UNCHANGED <<boot, restart>>,
         UNCHANGED <<firmware, switch, trouble, sigint, runs>>,
         buffers' \in [Buffer -> {"none", "ready", "freed"}], misused' \in BOOLEAN,
         NEW t \in Thread, NEW from \in Ending \cup {"restoring"}, At(t, from),
         NEW where \in Ending, Goto(t, where),
         t = "main" /\ Calm => HasBuffers' /\ dsp = "running",
         t = "main" /\ Clean => dsp = "running" /\ link = "base"
  PROVE  FftTypeOK' /\ Places' /\ Fine'
<1>1. /\ pc' \in [Thread -> Place] /\ pc'[t] = where
      /\ \A o \in Thread \ {t} : pc'[o] = pc[o]
      /\ pc'["handler"] \in {"none", "restoring", "free param", "free data", "last"}
  <2>1. where \in Place /\ where \in {"none", "restoring", "free param", "free data", "last"}
    BY DEF Place, Ending
  <2> QED BY <2>1, GotoFacts
<1>2. UNCHANGED <<dsp, link, loaded>>
  BY DEF firmware
<1>3. FftTypeOK'
  BY <1>1, <1>2 DEF FftTypeOK, FirmwareTypeOK
<1>4. pc[t] = from /\ from # "none"
  BY DEF At, Ending
<1>5. Places'
  BY <1>1, <1>4, Threads DEF Places, Ending
<1>6. \/ t = "main" /\ pc'["main"] = where /\ pc'["handler"] = "none"
      \/ t = "handler" /\ pc'["handler"] = where
  BY <1>1, Threads DEF At
<1>7. Switching'
  BY <1>6, Threads DEF Switching, Inside, At, Ending, Middle
<1>8. Calm' => Running'
  <2>1. Calm' => Calm /\ t = "main"
    BY <1>4, Threads, CalmHasNoHandler DEF Calm
  <2> QED BY <1>2, <1>6, <2>1 DEF Running, Ending
<1>9. Clean' => Left'
  <2>1. Clean' => Clean /\ t = "main"
    BY <1>4, Threads, CalmHasNoHandler, CleanIsCalm DEF Clean
  <2> QED BY <1>2, <1>6, <2>1 DEF Left, Fine, Ending
<1> QED BY <1>2, <1>3, <1>5, <1>7, <1>8, <1>9 DEF Fine

\* The rungs of cleanup().
LEMMA EndingSteps ==
  ASSUME FftTypeOK, Places, Fine, ~Booting, UNCHANGED <<boot, restart>>,
         NEW t \in Thread, Restored(t) \/ FreeParam(t) \/ FreeData(t)
  PROVE  FftTypeOK' /\ Places' /\ Fine'
<1>1. /\ buffers \in [Buffer -> {"none", "ready", "freed"}] /\ misused \in BOOLEAN
      /\ Buffer = {"data", "param"}
  BY DEF FftTypeOK, Buffer
<1>2. CASE Restored(t)
  <2>1. /\ At(t, "restoring") /\ Goto(t, "free param")
        /\ UNCHANGED <<firmware, switch, trouble, sigint, buffers, misused, runs>>
        /\ Switched(t) \/ SwitchFailed(t)
    BY <1>2 DEF Restored, process
  <2>2. ASSUME t = "main", Calm PROVE HasBuffers' /\ dsp = "running" /\ link = "base"
    <3>1. Running /\ Inside("main") /\ pc["main"] = "restoring"
      BY <2>1, <2>2 DEF Fine, Inside, At
    <3>2. Switched("main") /\ Ladder("main") /\ switch["main"].fw = "base"
      BY <2>1, <2>2, <3>1, Threads DEF Fine, Switching, Running, SwitchFailed
    <3>3. dsp = "running" /\ link = "base"
      BY <3>2 DEF Ladder, Switched, Fine
    <3>4. pc'["main"] = "free param"
      BY <2>1, <2>2, GotoFacts DEF Place
    <3> QED BY <2>1, <3>1, <3>3, <3>4 DEF Running, HasBuffers
  <2> QED BY <1>1, <2>1, <2>2, CleanIsCalm, EndingFine DEF Ending
<1>3. ASSUME NEW b \in Buffer, NEW from \in Ending, NEW where \in Ending,
             At(t, from), Free(t, b, where),
             \/ b = "param" /\ from = "free param" /\ where = "free data"
             \/ b = "data" /\ from = "free data" /\ where = "last"
      PROVE  FftTypeOK' /\ Places' /\ Fine'
  <2>1. /\ Goto(t, where) /\ UNCHANGED <<firmware, switch, trouble, sigint, runs>>
        /\ misused' = (misused \/ buffers[b] # "ready")
        /\ buffers' = [buffers EXCEPT ![b] = "freed"]
    BY <1>3 DEF Free
  <2>2. /\ buffers' \in [Buffer -> {"none", "ready", "freed"}]
        /\ buffers'[b] # "ready" /\ \A o \in Buffer \ {b} : buffers'[o] = buffers[o]
    BY <1>1, <2>1
  <2>3. misused' \in BOOLEAN
    BY <1>1, <2>1
  <2>4. ASSUME t = "main", Calm PROVE HasBuffers' /\ dsp = "running"
    <3>1. Running /\ pc["main"] = from
      BY <1>3, <2>4 DEF Fine, At
    <3>2. dsp = "running" /\ buffers[b] = "ready"
      BY <1>1, <1>3, <3>1, Threads DEF Running, HasBuffers
    <3>3. pc'["main"] = where
      <4>1. where \in Place
        BY DEF Ending, Place
      <4> QED BY <2>1, <2>4, <4>1, GotoFacts
    <3>4. ~misused'
      BY <2>1, <3>1, <3>2 DEF Running, HasBuffers
    <3> QED BY <1>1, <1>3, <2>2, <3>1, <3>2, <3>3, <3>4 DEF Running, HasBuffers
  <2>5. t = "main" /\ Clean => dsp = "running" /\ link = "base"
    BY <1>3 DEF Fine, Left, At
  <2>6. from \in Ending \cup {"restoring"}
    OBVIOUS
  <2> QED BY <1>3, <2>1, <2>2, <2>3, <2>4, <2>5, <2>6, EndingFine
<1>4. FreeParam(t) => At(t, "free param") /\ Free(t, "param", "free data")
  BY DEF FreeParam, Free
<1>5. FreeData(t) => At(t, "free data") /\ Free(t, "data", "last")
  BY DEF FreeData, Free
<1> QED BY <1>1, <1>2, <1>3, <1>4, <1>5 DEF Ending

\* The process is gone.
LEMMA ExitFine ==
  ASSUME FftTypeOK, Places, Fine, ~Booting, UNCHANGED <<boot, restart>>,
         NEW t \in Thread, Exit(t)
  PROVE  FftTypeOK' /\ Places' /\ Fine'
<1>1. /\ pc[t] = "last" /\ pc \in [Thread -> Place]
      /\ t = "main" => pc["handler"] = "none"
      /\ UNCHANGED <<dsp, link, loaded, switch, trouble, sigint, buffers, misused, runs>>
      /\ pc' = [[pc EXCEPT !["main"] = "exited"] EXCEPT !["handler"] = "none"]
  BY DEF Exit, At, FftTypeOK, firmware, process
<1>2. /\ pc' \in [Thread -> Place] /\ pc'["main"] = "exited" /\ pc'["handler"] = "none"
  BY <1>1, Threads DEF Place
<1>3. FftTypeOK' /\ Places'
  BY <1>1, <1>2 DEF FftTypeOK, FirmwareTypeOK, Places
<1>4. Switching'
  BY <1>2, Threads DEF Switching, Inside, At, Middle
<1>5. Calm' => Calm /\ t = "main"
  BY <1>1, Threads, CalmHasNoHandler DEF Calm
<1>6. Calm' => Running'
  BY <1>1, <1>2, <1>5 DEF Fine, Running, HasBuffers
<1>7. Clean' => Clean /\ t = "main"
  BY <1>1, <1>5, CleanIsCalm DEF Clean, Calm
<1>8. Clean' => Left'
  BY <1>1, <1>2, <1>7 DEF Fine, Left, Ending
<1> QED BY <1>1, <1>3, <1>4, <1>6, <1>8 DEF Fine

\* SIGINT: the end of the process, or of what main does.
LEMMA InterruptFine ==
  ASSUME FftTypeOK, Places, Fine, ~Booting, UNCHANGED <<boot, restart>>, Interrupt
  PROVE  FftTypeOK' /\ Places' /\ Fine'
<1>1. /\ pc["main"] # "exited" /\ pc["handler"] = "none" /\ FirmwareTypeOK
      /\ "main" \in Thread /\ "handler" \in Thread /\ "base" \in Image
      /\ {"exited", "restoring"} \subseteq Place
      /\ "signal" \in trouble' /\ trouble' \subseteq Faults
      /\ UNCHANGED <<dsp, link, loaded, sigint, buffers, misused, runs>>
  BY DEF Interrupt, Occurs, FftTypeOK, FirmwareTypeOK, Thread, Place, Image, firmware, process
<1>2. ~Calm' /\ ~Clean'
  BY <1>1 DEF Calm, Clean
<1>3. CASE Goto("main", "exited") /\ UNCHANGED switch
  <2>1. /\ pc' \in [Thread -> Place] /\ pc'["main"] = "exited" /\ pc'["handler"] = "none"
    BY <1>1, <1>3, GotoFacts, Threads
  <2>2. FftTypeOK' /\ Places'
    BY <1>1, <1>3, <2>1 DEF FftTypeOK, FirmwareTypeOK, Places
  <2>3. Switching'
    BY <2>1, Threads DEF Switching, Inside, At, Middle
  <2> QED BY <1>1, <1>2, <2>2, <2>3 DEF Fine
<1>4. CASE Goto("handler", "restoring") /\ Call("handler", "base")
  <2>1. /\ pc' \in [Thread -> Place] /\ pc'["handler"] = "restoring" /\ pc'["main"] = pc["main"]
    BY <1>1, <1>4, GotoFacts, Threads
  <2>2. /\ switch' \in [Thread -> [at : SwitchPC, fw : Image, fault : BOOLEAN]]
        /\ switch'["handler"].at = "stop" /\ switch'["handler"].fw = "base"
    BY <1>1, <1>4, CallFacts
  <2>3. FftTypeOK' /\ Places'
    BY <1>1, <2>1, <2>2 DEF FftTypeOK, FirmwareTypeOK, Places
  <2>4. Switching'
    BY <2>1, <2>2, Threads DEF Switching, Inside, At, Ladder, Middle
  <2> QED BY <1>1, <1>2, <2>3, <2>4 DEF Fine
<1> QED BY <1>3, <1>4 DEF Interrupt

\* Every step of the example.
LEMMA ExampleFine ==
  ASSUME FftTypeOK, Places, Fine, ~Booting, UNCHANGED <<boot, restart>>, Example
  PROVE  FftTypeOK' /\ Places' /\ Fine'
<1>1. CASE Exchange
  <2>1. /\ pc["main"] = "exchange" /\ pc["handler"] = "none"
        /\ UNCHANGED <<firmware, process, runs>>
        /\ trouble' \subseteq Faults /\ trouble \subseteq trouble'
    BY <1>1 DEF Exchange, At, Occurs, FftTypeOK, FirmwareTypeOK
  <2>2. CASE Goto("main", "restoring") /\ Call("main", "base")
    BY <2>1, <2>2, RestoringFine
  <2>3. CASE Goto("main", "compare") /\ UNCHANGED <<switch, trouble>>
    <3>1. ProcessTypes' /\ UNCHANGED <<buffers, misused>>
      BY <2>1 DEF ProcessTypes, FftTypeOK, process
    <3>2. pc'["main"] = "compare"
      BY <2>3, GotoFacts, Threads DEF Place
    <3>3. Calm' => HasBuffers'
      BY <2>1, <2>3, <3>1, <3>2 DEF Calm, Fine, Running, HasBuffers
    <3> QED BY <2>1, <2>3, <3>1, <3>3, MiddleFine DEF Middle
  <2> QED BY <1>1, <2>2, <2>3 DEF Exchange
<1>2. CASE Compare
  BY <1>2, RestoringFine DEF Compare, At, FftTypeOK, FirmwareTypeOK
<1>3. ASSUME NEW t \in Thread,
             InSwitch(t) \/ Restored(t) \/ FreeParam(t) \/ FreeData(t) \/ Exit(t)
      PROVE  FftTypeOK' /\ Places' /\ Fine'
  BY <1>3, InSwitchFine, EndingSteps, ExitFine
<1> QED BY <1>1, <1>2, <1>3, StartFine, ReturnsFine, MiddleSteps, InterruptFine
        DEF Example, Main

----------------------------------------------------------------------------
(* Types, also where the two have met. *)

LEMMA StepTypes ==
  ASSUME FirmwareTypeOK, NEW t \in Thread, SwitchStep(t)
  PROVE  FirmwareTypeOK' /\ trouble \subseteq trouble'
<1>1. /\ switch[t].fw \in Image /\ link \in Image \cup {"none"} /\ loaded \in Image
      /\ dsp \in {"running", "offline"}
  BY DEF FirmwareTypeOK
<1>2. {"stop", "unlink", "symlink", "start", "done", "failed"} \subseteq SwitchPC
  BY DEF SwitchPC
<1>3. /\ dsp' \in {"running", "offline"}
      /\ link' \in Image \cup {"none"} /\ loaded' \in Image
  BY <1>1 DEF SwitchStep, Stop, StopsDsp, StopRefused, Unlink, Symlink, SymlinkExists,
     StartDsp, StartsDsp, StartRefused, CallFails, firmware
<1>4. \/ \E from, to \in SwitchPC : Moves(t, from, to)
      \/ \E from \in SwitchPC, kind \in Faults : Fails(t, from, kind)
  <2>1. CASE CallFails(t)
    BY <1>2, <2>1 DEF CallFails, Fails, Occurs
  <2> QED BY <1>2, <2>1 DEF SwitchStep, Stop, StopRefused, Unlink, Symlink, SymlinkExists,
             StartDsp, StartRefused
<1>5. CASE \E from, to \in SwitchPC : Moves(t, from, to)
  BY <1>3, <1>5, MovesFacts DEF FirmwareTypeOK
<1>6. CASE \E from \in SwitchPC, kind \in Faults : Fails(t, from, kind)
  BY <1>3, <1>6, FailsFacts DEF FirmwareTypeOK
<1> QED BY <1>4, <1>5, <1>6

\* A thread goes on.
LEMMA GoesOn ==
  ASSUME FftTypeOK, Places, NEW t \in Thread, NEW from \in Place, At(t, from),
         NEW where \in Place \ {"none"}, Goto(t, where),
         t = "main" => from # "exited",
         t = "handler" => from # "none" /\ where \in {"restoring", "free param", "free data", "last"},
         trouble \subseteq trouble'
  PROVE  /\ Places' /\ pc' \in [Thread -> Place]
         /\ pc'["handler"] \in {"none", "restoring", "free param", "free data", "last"}
<1>1. /\ pc' \in [Thread -> Place] /\ pc'[t] = where
      /\ \A o \in Thread \ {t} : pc'[o] = pc[o]
      /\ pc'["handler"] \in {"none", "restoring", "free param", "free data", "last"}
  BY GotoFacts
<1> QED BY <1>1, Threads DEF Places, At

LEMMA MainTypes ==
  ASSUME FftTypeOK, Places, Main
  PROVE  FftTypeOK' /\ Places'
<1>1. /\ "main" \in Thread /\ "base" \in Image /\ FirmwareTypeOK
      /\ buffers \in [Buffer -> {"none", "ready", "freed"}]
      /\ UNCHANGED <<dsp, link, loaded, misused, runs>>
      /\ sigint' \in {"default", "handler"} /\ misused \in BOOLEAN /\ runs \in 0..MaxRuns
  BY DEF Main, SwitchReturns, InitRpmsg, AllocateData, AllocateParam, Allocate, Load, Register,
         Exchange, Compare, FftTypeOK, Thread, Image, firmware, process
<1>2. PICK from \in Place \ {"exited", "none"}, where \in Place \ {"none"} :
        At("main", from) /\ Goto("main", where)
  BY DEF Main, SwitchReturns, InitRpmsg, AllocateData, AllocateParam, Allocate, Load, Register,
         Exchange, Compare, Place
<1>3. trouble' \subseteq Faults /\ trouble \subseteq trouble'
  BY <1>1 DEF Main, SwitchReturns, InitRpmsg, AllocateData, AllocateParam, Allocate, Load,
              Register, Exchange, Compare, Occurs, FirmwareTypeOK
<1>4. buffers' \in [Buffer -> {"none", "ready", "freed"}]
  BY <1>1 DEF Main, SwitchReturns, InitRpmsg, AllocateData, AllocateParam, Allocate, Load,
              Register, Exchange, Compare, process
<1>5. switch' = switch \/ Call("main", "base")
  BY DEF Main, SwitchReturns, InitRpmsg, AllocateData, AllocateParam, Allocate, Load, Register,
         Exchange, Compare
<1>6. switch' \in [Thread -> [at : SwitchPC, fw : Image, fault : BOOLEAN]]
  BY <1>1, <1>5, CallFacts DEF FirmwareTypeOK
<1>7. /\ Places' /\ pc' \in [Thread -> Place]
      /\ pc'["handler"] \in {"none", "restoring", "free param", "free data", "last"}
  BY <1>1, <1>2, <1>3, GoesOn, Threads
<1> QED BY <1>1, <1>3, <1>4, <1>6, <1>7 DEF FftTypeOK, FirmwareTypeOK

LEMMA ExampleTypes ==
  ASSUME FftTypeOK, Places, Example
  PROVE  FftTypeOK' /\ Places'
<1>1. CASE Start
  <2>1. /\ pc["handler"] = "none" /\ FirmwareTypeOK /\ runs < MaxRuns
        /\ "main" \in Thread /\ "switching" \in Place /\ "test" \in Image
        /\ Goto("main", "switching") /\ Call("main", "test")
        /\ UNCHANGED <<dsp, link, loaded, trouble>>
        /\ sigint' = "default" /\ buffers' = NoBuffers /\ misused' = FALSE /\ runs' = runs + 1
    BY <1>1 DEF Start, Places, FftTypeOK, Thread, Place, Image, firmware
  <2>2. /\ pc' \in [Thread -> Place] /\ pc'["main"] = "switching" /\ pc'["handler"] = "none"
    BY <2>1, GotoFacts, Threads
  <2>3. switch' \in [Thread -> [at : SwitchPC, fw : Image, fault : BOOLEAN]]
    BY <2>1, CallFacts
  <2>4. runs' \in 0..MaxRuns /\ NoBuffers \in [Buffer -> {"none", "ready", "freed"}]
    BY <2>1, FftAssumption DEF FftTypeOK, NoBuffers
  <2> QED BY <2>1, <2>2, <2>3, <2>4 DEF FftTypeOK, FirmwareTypeOK, Places
<1>2. CASE Interrupt
  <2>1. /\ pc["main"] # "exited" /\ pc["handler"] = "none" /\ FirmwareTypeOK
        /\ "main" \in Thread /\ "handler" \in Thread /\ "base" \in Image
        /\ {"exited", "restoring"} \subseteq Place
        /\ "signal" \in trouble' /\ trouble' \subseteq Faults
        /\ UNCHANGED <<dsp, link, loaded, sigint, buffers, misused, runs>>
    BY <1>2 DEF Interrupt, Occurs, FftTypeOK, FirmwareTypeOK, Thread, Place, Image, firmware,
                process
  <2>2. CASE Goto("main", "exited") /\ UNCHANGED switch
    <3>1. pc' \in [Thread -> Place] /\ pc'["main"] = "exited" /\ pc'["handler"] = "none"
      BY <2>1, <2>2, GotoFacts, Threads
    <3> QED BY <2>1, <2>2, <3>1 DEF FftTypeOK, FirmwareTypeOK, Places
  <2>3. CASE Goto("handler", "restoring") /\ Call("handler", "base")
    <3>1. pc' \in [Thread -> Place] /\ pc'["handler"] = "restoring" /\ pc'["main"] = pc["main"]
      BY <2>1, <2>3, GotoFacts, Threads
    <3>2. switch' \in [Thread -> [at : SwitchPC, fw : Image, fault : BOOLEAN]]
      BY <2>1, <2>3, CallFacts
    <3> QED BY <2>1, <3>1, <3>2 DEF FftTypeOK, FirmwareTypeOK, Places
  <2> QED BY <1>2, <2>2, <2>3 DEF Interrupt
<1>3. ASSUME NEW t \in Thread, InSwitch(t) PROVE FftTypeOK' /\ Places'
  <2>1. FirmwareTypeOK' /\ trouble \subseteq trouble'
    BY <1>3, StepTypes DEF InSwitch, FftTypeOK
  <2> QED BY <1>3, <2>1 DEF InSwitch, process, FftTypeOK, Places
<1>4. ASSUME NEW t \in Thread, Restored(t) \/ FreeParam(t) \/ FreeData(t)
      PROVE  FftTypeOK' /\ Places'
  <2>1. /\ UNCHANGED <<dsp, link, loaded, switch, trouble, sigint, runs>>
        /\ misused' \in BOOLEAN
    BY <1>4 DEF Restored, FreeParam, FreeData, Free, FftTypeOK, firmware, process
  <2>2. buffers' \in [Buffer -> {"none", "ready", "freed"}]
    BY <1>4 DEF Restored, FreeParam, FreeData, Free, FftTypeOK, process
  <2>3. PICK from \in {"restoring", "free param", "free data"},
             where \in {"free param", "free data", "last"} : At(t, from) /\ Goto(t, where)
    BY <1>4 DEF Restored, FreeParam, FreeData, Free
  <2>4. from \in Place /\ where \in Place
    BY DEF Place
  <2>5. /\ Places' /\ pc' \in [Thread -> Place]
        /\ pc'["handler"] \in {"none", "restoring", "free param", "free data", "last"}
    BY <2>1, <2>3, <2>4, GoesOn
  <2> QED BY <2>1, <2>2, <2>5 DEF FftTypeOK, FirmwareTypeOK
<1>5. ASSUME NEW t \in Thread, Exit(t) PROVE FftTypeOK' /\ Places'
  <2>1. /\ UNCHANGED <<dsp, link, loaded, switch, trouble, sigint, buffers, misused, runs>>
        /\ pc' = [[pc EXCEPT !["main"] = "exited"] EXCEPT !["handler"] = "none"]
        /\ pc \in [Thread -> Place]
    BY <1>5 DEF Exit, FftTypeOK, firmware, process
  <2>2. pc' \in [Thread -> Place] /\ pc'["main"] = "exited" /\ pc'["handler"] = "none"
    BY <2>1, Threads DEF Place
  <2> QED BY <2>1, <2>2 DEF FftTypeOK, FirmwareTypeOK, Places
<1> QED BY <1>1, <1>2, <1>3, <1>4, <1>5, MainTypes DEF Example

----------------------------------------------------------------------------
(* The two programs. *)

Boots ==
  \/ Boot \/ Look \/ BootStop \/ BootUnlink \/ BootSymlink \/ State \/ BootStart \/ Poll \/ BootFails

\* Where there is no process, a step of the example starts one.
LEMMA ExitedStarts ==
  ASSUME FftTypeOK, Places, pc["main"] = "exited", Example
  PROVE  Start /\ pc'["main"] = "switching"
<1>1. pc["handler"] = "none"
  BY DEF Places
<1>2. ~Main
  BY DEF Main, SwitchReturns, InitRpmsg, AllocateData, AllocateParam, Allocate, Load, Register,
         Exchange, Compare, At
<1>3. \A t \in Thread :
        ~(InSwitch(t) \/ Restored(t) \/ FreeParam(t) \/ FreeData(t) \/ Exit(t))
  BY <1>1, Threads DEF InSwitch, Restored, FreeParam, FreeData, Free, Exit, At
<1>4. Start
  BY <1>2, <1>3 DEF Example, Interrupt
<1>5. pc'["main"] = "switching"
  BY <1>4, Threads DEF Start, Goto, FftTypeOK
<1> QED BY <1>4, <1>5

LEMMA FftInv ==
  ASSUME TypeOK, Places, ~shared => Unmet, Fft
  PROVE  IInv'
<1>1. /\ FftTypeOK /\ Example /\ UNCHANGED <<boot, restart, boots>>
      /\ shared' = (shared \/ (Booting /\ pc'["main"] # "exited"))
      /\ alone' = (alone /\ pc'["main"] = "exited")
  BY DEF Fft, TypeOK
<1>2. FftTypeOK' /\ Places'
  BY <1>1, ExampleTypes
<1>3. TypeOK'
  BY <1>1, <1>2 DEF TypeOK
<1>4. ASSUME ~shared' PROVE Unmet'
  <2>1. Unmet /\ ~(Booting /\ pc'["main"] # "exited")
    BY <1>1, <1>4
  <2>2. pc["main"] = "exited" => pc'["main"] = "switching"
    BY <1>1, ExitedStarts
  <2>3. ~Booting /\ ~alone'
    BY <1>1, <2>1, <2>2 DEF Unmet, Apart
  <2>4. Fine
    BY <2>1 DEF Unmet, Apart, Fine
  <2>5. Fine'
    BY <1>1, <2>3, <2>4, ExampleFine
  <2>6. Repairing'
    BY <1>1, <2>1, <2>3 DEF Unmet, Repairing, Booting
  <2>7. Apart'
    BY <1>1, <2>3, <2>5 DEF Apart, Booting, Fine
  <2> QED BY <2>5, <2>6, <2>7 DEF Unmet, Fine
<1> QED BY <1>2, <1>3, <1>4 DEF IInv

\* A step of wait_for_c7x(), with the C7x for itself.
LEMMA BootsInv ==
  ASSUME TypeOK, Places, ~shared => Unmet, Boots
  PROVE  IInv'
<1> USE DEF Boots, Step, firmware, fftVars, process
<1>1. /\ UNCHANGED <<switch, trouble, pc, sigint, buffers, misused, runs>>
      /\ FftTypeOK /\ FirmwareTypeOK
  BY DEF Boot, Look, BootStop, BootUnlink, BootSymlink, State, BootStart, Poll, BootFails,
         TypeOK, FftTypeOK
<1>2. FirmwareTypeOK'
  BY <1>1 DEF Boot, Look, BootStop, BootUnlink, BootSymlink, State, BootStart, Poll, BootFails,
              FirmwareTypeOK, StopsDsp, StartsDsp, Image
<1>3. FftTypeOK' /\ Places'
  BY <1>1, <1>2 DEF FftTypeOK, Places
<1>4. /\ boot' \in {"off", "look", "stop", "unlink", "symlink", "state", "start", "poll",
                    "true", "false"}
      /\ restart' \in BOOLEAN
  BY DEF Boot, Look, BootStop, BootUnlink, BootSymlink, State, BootStart, Poll, BootFails, TypeOK
<1>5. alone' \in BOOLEAN /\ shared' \in BOOLEAN /\ boots' \in 0..MaxBoots
  <2>1. boots' = boots \/ (boots < MaxBoots /\ boots' = boots + 1)
    BY DEF Boot, Look, BootStop, BootUnlink, BootSymlink, State, BootStart, Poll, BootFails
  <2>2. boots' \in 0..MaxBoots
    BY <2>1, SharingAssumption DEF TypeOK
  <2>3. \/ alone' = alone /\ shared' = shared
        \/ alone' = (pc["main"] = "exited") /\ shared' = (shared \/ pc["main"] # "exited")
    BY DEF Boot, Look, BootStop, BootUnlink, BootSymlink, State, BootStart, Poll, BootFails
  <2>4. alone' \in BOOLEAN /\ shared' \in BOOLEAN
    BY <2>3 DEF TypeOK
  <2> QED BY <2>2, <2>4
<1>6. ASSUME ~shared' PROVE Unmet'
  <2>1. Unmet /\ pc["main"] = "exited" /\ pc["handler"] = "none" /\ dsp \in {"running", "offline"}
    BY <1>1, <1>6 DEF Boot, Look, BootStop, BootUnlink, BootSymlink, State, BootStart, Poll,
                      BootFails, Unmet, Apart, Booting, Places, FirmwareTypeOK
  <2>2. Apart'
    BY <1>1, <2>1 DEF Boot, Look, BootStop, BootUnlink, BootSymlink, State, BootStart, Poll,
                      BootFails, Unmet, Apart, Repairing, Booting, StopsDsp, StartsDsp
  <2>3. Switching'
    BY <1>1, <2>1, Threads DEF Switching, Inside, At, Middle
  <2>4. ~BootFails
    BY <2>1 DEF BootFails, Refuses, Unmet, Repairing
  <2>5. Repairing' /\ (~Booting' => dsp' = "running")
    BY <1>1, <2>1, <2>4
       DEF Boot, Look, BootStop, BootUnlink, BootSymlink, State, BootStart, Poll,
           Unmet, Repairing, Booting, StopsDsp, StartsDsp
  <2>6. Calm' => Running'
    BY <1>1, <2>1, <2>5 DEF Calm, Unmet, Running, HasBuffers
  <2>7. Clean' => Left'
    BY <1>1, <2>1, <2>4
       DEF Boot, Look, BootStop, BootUnlink, BootSymlink, State, BootStart, Poll,
           Clean, Unmet, Left, Ending, StopsDsp, StartsDsp
  <2> QED BY <2>2, <2>3, <2>5, <2>6, <2>7 DEF Unmet
<1> QED BY <1>3, <1>4, <1>5, <1>6 DEF IInv, TypeOK

----------------------------------------------------------------------------
(* The invariant. *)

LEMMA InitInv == Init => IInv
<1> SUFFICES ASSUME Init PROVE IInv
  OBVIOUS
<1> USE DEF Init, FftInit, FirmwareInit
<1>1. FirmwareTypeOK
  BY DEF FirmwareTypeOK, Image, Idle, SwitchPC
<1>2. pc["main"] = "exited" /\ pc["handler"] = "none" /\ pc \in [Thread -> Place]
  BY Threads DEF Place
<1>3. FftTypeOK /\ TypeOK
  <2>1. 0 \in 0..MaxRuns /\ 0 \in 0..MaxBoots
    BY FftAssumption, SharingAssumption
  <2>2. NoBuffers \in [Buffer -> {"none", "ready", "freed"}]
    BY DEF NoBuffers
  <2>3. misused \in BOOLEAN /\ restart \in BOOLEAN /\ alone \in BOOLEAN /\ shared \in BOOLEAN
    OBVIOUS
  <2>4. FftTypeOK
    BY <1>1, <1>2, <2>1, <2>2, <2>3 DEF FftTypeOK
  <2>5. boots \in 0..MaxBoots
    BY <2>1
  <2> QED BY <2>3, <2>4, <2>5 DEF TypeOK
<1>5. Switching
  BY <1>2, Threads DEF Switching, Inside, At, Middle
<1>4. \A b \in Buffer : NoBuffers[b] = "none"
  BY DEF NoBuffers
<1>6. Running /\ Left /\ Apart /\ Repairing
  BY <1>2, <1>4 DEF Running, HasBuffers, Left, Ending, Apart, Repairing, Booting
<1> QED BY <1>2, <1>3, <1>5, <1>6 DEF IInv, Places, Unmet

LEMMA NextInv == IInv /\ [Next]_vars => IInv'
<1> SUFFICES ASSUME IInv, [Next]_vars PROVE IInv'
  OBVIOUS
<1>1. CASE Fft
  BY <1>1, FftInv DEF IInv
<1>2. CASE Boots
  BY <1>2, BootsInv DEF IInv
<1>3. CASE UNCHANGED vars
  <2>1. UNCHANGED <<dsp, link, loaded, switch, trouble, pc, sigint, buffers, misused, runs,
                    boot, restart, alone, shared, boots>>
    BY <1>3 DEF vars, firmware, fftVars, process, bootVars
  <2>2. TypeOK' /\ Places'
    <3>1. FftTypeOK' /\ Places'
      BY <2>1 DEF IInv, TypeOK, FftTypeOK, FirmwareTypeOK, Places
    <3> QED BY <2>1, <3>1 DEF IInv, TypeOK
  <2>3. Apart => Apart'
    BY <2>1 DEF Apart, Booting
  <2>4. (Repairing => Repairing') /\ (Switching => Switching')
    <3>1. Switching => Switching'
      BY <2>1 DEF Switching, Inside, At, Ladder
    <3>2. Repairing => Repairing'
      BY <2>1 DEF Repairing
    <3> QED BY <3>1, <3>2
  <2>5. (Calm => Running) => (Calm' => Running')
    BY <2>1 DEF Calm, Running, HasBuffers, Booting
  <2>6. (Clean => Left) => (Clean' => Left')
    BY <2>1 DEF Clean, Left
  <2> QED BY <2>1, <2>2, <2>3, <2>4, <2>5, <2>6 DEF IInv, Unmet
<1> QED BY <1>1, <1>2, <1>3 DEF Next, Boots, Done

THEOREM Invariant == Spec => []IInv
BY InitInv, NextInv, PTL DEF Spec

\* Type correctness of the example, the firmware and the boot, for any number of
\* processes and boots and any set of failures, also where the two have met.
THEOREM TypesHold == Spec => []TypeOK
<1>1. IInv => TypeOK
  BY DEF IInv
<1> QED BY <1>1, Invariant, PTL

\* As long as the two have not met, wait_for_c7x() tells only of a C7x that runs
\* the edge-AI image, whatever the processes before it have left.
THEOREM ReadyIsEdge == Spec => []ReadyMeansEdge
<1>1. IInv => ReadyMeansEdge
  BY DEF IInv, Unmet, Apart, Repairing, ReadyMeansEdge
<1> QED BY <1>1, Invariant, PTL

\* And it never fails over what they have left.
THEOREM BootsSucceed == Spec => []BootRepairs
<1>1. IInv => BootRepairs
  BY DEF IInv, Unmet, Repairing, BootRepairs
<1> QED BY <1>1, Invariant, PTL

\* A process leaves the base firmware, as long as only the input file and the
\* exchange have failed.
THEOREM LeavesBaseFirmware == Spec => []BaseAfterExit
<1>1. IInv => BaseAfterExit
  BY DEF IInv, Unmet, Apart, Clean, Left, BaseAfterExit
<1> QED BY <1>1, Invariant, PTL

\* cleanup() frees what was initialised, all of it and nothing else, where no
\* switch fails, no signal comes and no boot has met a process.
THEOREM FreesRight == Spec => []FreesWhatItHas
<1>1. IInv => FreesWhatItHas
  BY DEF IInv, Unmet, Calm, Running, HasBuffers, FreesWhatItHas
<1> QED BY <1>1, Invariant, PTL

\* The message goes to the firmware that this process has started, as long as
\* no boot of the daemon has met a process of the example.
THEOREM TalksRight == Spec => []TalksToItsFirmware
<1>1. IInv => TalksToItsFirmware
  BY DEF IInv, Unmet, Switching, Middle, TalksToItsFirmware
<1> QED BY <1>1, Invariant, PTL

=============================================================================
