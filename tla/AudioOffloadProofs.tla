------------------------- MODULE AudioOffloadProofs -------------------------
(***************************************************************************)
(* Proofs about AudioOffload for a file of any length and any set of       *)
(* failures.  The inductive invariant says who owns what: the buffers, by  *)
(* the places of main and the audio thread and start_requested between     *)
(* them (HandOver), the configuration (Frees), and the C7x, by the places  *)
(* of main and the handler (Borrows), and what a frame that was played     *)
(* unprocessed needs (Filters).                                            *)
(***************************************************************************)
EXTENDS AudioOffload, TLAPS

Everyone == Thread \cup {"audio"}

MainPlace == {"load", "switching", "rpmsg", "buffers", "host", "filter", "loop", "create",
              "destroy", "restoring", "config", "exit"}
HandlerPlace == {"none", "restoring", "config", "exit"}
AudioPlace == {"none", "open", "read", "send", "reply", "play", "blocked", "close",
               "ended"}

Shape == TypeOK /\ pc \in [Everyone -> MainPlace \cup HandlerPlace \cup AudioPlace]

\* As long as the audio thread works, main waits in its loop.
HandOver ==
  /\ pc["main"] \in {"load", "switching", "rpmsg", "buffers", "host", "filter"} =>
       pc["audio"] = "none" /\ start = "START"
  /\ pc["main"] = "loop" =>
       \/ pc["audio"] = "none" /\ start = "START"
       \/ pc["audio"] = "ended" /\ start = "EXIT"
       \/ pc["audio"] \notin {"none", "ended"} /\ start = "STOP"
  /\ pc["main"] = "create" => pc["audio"] = "none" /\ start = "STOP"
  /\ pc["main"] \in {"destroy", "restoring", "config", "exit"} => pc["audio"] \in {"none", "ended"}
  /\ pc["main"] \in {"host", "filter", "loop", "create"} => buffers \in {"ready", "unmapped"}
  /\ buffers = "unmapped" => "buffer" \in trouble

\* Whoever has freed the configuration is about to leave; only exit(1) is earlier.
Frees ==
  /\ config = "freed" => pc["main"] = "exit" \/ pc["handler"] = "exit"
  /\ pc["handler"] # "none" => "signal" \in trouble
  /\ fate = "exited" => IF pc["handler"] = "none" THEN pc["main"] = "exit" \/ "uart" \in trouble
                        ELSE pc["handler"] = "exit"

Calm == trouble \cap {"sysfs", "symlink"} = {} /\ ~cut

RunsImage(fw) == dsp = "running" /\ link = fw /\ loaded = fw

\* How far a switch has come that does not fail.
Ladder(t, fw) ==
  /\ switch[t].fw = fw
  /\ switch[t].at \in {"stop", "unlink", "symlink", "start", "done"}
  /\ switch[t].at = "stop" => dsp = "running"
  /\ switch[t].at \in {"unlink", "symlink", "start"} => dsp = "offline"
  /\ switch[t].at = "symlink" => link = "none"
  /\ switch[t].at = "start" => link = fw
  /\ switch[t].at = "done" => RunsImage(fw)

Between == {"rpmsg", "buffers", "host", "filter", "loop", "create", "destroy"}

\* What main has made of the C7x, and the handler after it.
Borrows ==
  /\ pc["handler"] = "none" => ~cut
  /\ pc["main"] = "load" => mode = "ARM" /\ pc["handler"] = "none"
  /\ mode = "ARM" => /\ RunsImage("base")
                     /\ pc["main"] \notin {"switching", "restoring"} /\ pc["handler"] # "restoring"
  /\ mode = "DSP" /\ pc["handler"] = "none" /\ Calm =>
       /\ pc["main"] = "switching" => Ladder("main", "test")
       /\ pc["main"] \in Between => RunsImage("test")
       /\ pc["main"] = "restoring" => Ladder("main", "base")
       /\ pc["main"] \in {"config", "exit"} => RunsImage("base")
  /\ mode = "DSP" /\ Calm =>
       /\ pc["handler"] = "restoring" => Ladder("handler", "base")
       /\ pc["handler"] \in {"config", "exit"} => RunsImage("base")

Quiet == trouble \cap {"sysfs", "symlink", "rpmsg", "message", "signal"} = {}

\* Without a failure, a frame finds the endpoint open.
Filters ==
  /\ pc["audio"] \in {"send", "reply"} => mode = "DSP"
  /\ Quiet => ~unfiltered /\ (pc["main"] \in Between \ {"rpmsg"} => rpmsg)

Owns == HandOver /\ Frees /\ CrashesOnlyBy /\ Borrows /\ Filters

IInv == Shape /\ Owns

----------------------------------------------------------------------------
(* What the operations do to pc and to the calls of switch_firmware(). *)

LEMMA Threads == Thread = {"main", "handler"} /\ Everyone = {"main", "handler", "audio"}
BY DEF Thread, Everyone

\* Where a thread goes; the others stay.
LEMMA GotoFacts ==
  ASSUME Shape, NEW t \in Everyone,
         NEW where \in MainPlace \cup HandlerPlace \cup AudioPlace, Goto(t, where)
  PROVE  /\ pc' \in [Everyone -> MainPlace \cup HandlerPlace \cup AudioPlace]
         /\ pc'["main"] = IF t = "main" THEN where ELSE pc["main"]
         /\ pc'["handler"] = IF t = "handler" THEN where ELSE pc["handler"]
         /\ pc'["audio"] = IF t = "audio" THEN where ELSE pc["audio"]
BY Threads DEF Shape, Goto

\* A call begins with the stop.
LEMMA CallFacts ==
  ASSUME FirmwareTypeOK, NEW t \in Thread, NEW fw \in Image, Call(t, fw)
  PROVE  /\ switch' \in [Thread -> [at : SwitchPC, fw : Image, fault : BOOLEAN]]
         /\ switch'[t].at = "stop" /\ switch'[t].fw = fw
<1> DEFINE new == [Idle EXCEPT !.at = "stop", !.fw = fw]
<1>1. new \in [at : SwitchPC, fw : Image, fault : BOOLEAN] /\ new.at = "stop" /\ new.fw = fw
  BY DEF Idle, SwitchPC
<1>2. switch' = [switch EXCEPT ![t] = new]
  BY DEF Call
<1> HIDE DEF new
<1> QED BY <1>1, <1>2 DEF FirmwareTypeOK

LEMMA MovesFacts ==
  ASSUME FirmwareTypeOK, NEW t \in Thread, NEW from \in SwitchPC, NEW to \in SwitchPC,
         Moves(t, from, to)
  PROVE  /\ switch' \in [Thread -> [at : SwitchPC, fw : Image, fault : BOOLEAN]]
         /\ switch[t].at = from /\ switch'[t].at = to /\ switch'[t].fw = switch[t].fw
         /\ trouble' = trouble
<1> DEFINE new == [switch[t] EXCEPT !.at = to]
<1>1. new \in [at : SwitchPC, fw : Image, fault : BOOLEAN] /\ new.at = to /\ new.fw = switch[t].fw
  BY DEF FirmwareTypeOK
<1>2. switch' = [switch EXCEPT ![t] = new]
  BY DEF Moves
<1> HIDE DEF new
<1> QED BY <1>1, <1>2 DEF FirmwareTypeOK, Moves

LEMMA FailsFacts ==
  ASSUME FirmwareTypeOK, NEW t \in Thread, NEW from \in SwitchPC, NEW kind \in Faults,
         Fails(t, from, kind)
  PROVE  /\ switch' \in [Thread -> [at : SwitchPC, fw : Image, fault : BOOLEAN]]
         /\ trouble' = trouble \cup {kind}
<1> DEFINE new == [[switch[t] EXCEPT !.at = "failed"] EXCEPT !.fault = TRUE]
<1>1. new \in [at : SwitchPC, fw : Image, fault : BOOLEAN]
  BY DEF FirmwareTypeOK, SwitchPC
<1>2. switch' = [switch EXCEPT ![t] = new]
  BY DEF Fails, FirmwareTypeOK
<1> HIDE DEF new
<1> QED BY <1>1, <1>2 DEF FirmwareTypeOK, Fails, Occurs

\* A step inside switch_firmware(): types hold whatever it meets, and a ladder
\* that is in order stays so unless a system call fails.
LEMMA StepFacts ==
  ASSUME FirmwareTypeOK, NEW t \in Thread, SwitchStep(t)
  PROVE  /\ FirmwareTypeOK' /\ trouble \subseteq trouble'
         /\ \A fw \in Image : Ladder(t, fw) =>
              Ladder(t, fw)' \/ trouble' \cap {"sysfs", "symlink"} # {}
<1>1. /\ switch[t].fw \in Image /\ link \in Image \cup {"none"} /\ loaded \in Image
      /\ dsp \in {"running", "offline"} /\ "none" \notin Image
  BY DEF FirmwareTypeOK, Image
<1>2. {"stop", "unlink", "symlink", "start", "done", "failed"} \subseteq SwitchPC
  BY DEF SwitchPC
<1>3. CASE Stop(t)
  <2>1. Moves(t, "stop", "unlink") /\ dsp' = "offline" /\ link' = link /\ loaded' = loaded
    BY <1>3 DEF Stop, StopsDsp
  <2> QED BY <1>2, <2>1, MovesFacts DEF FirmwareTypeOK, Ladder
<1>4. CASE StopRefused(t)
  <2>1. Moves(t, "stop", "failed") /\ dsp = "offline" /\ UNCHANGED <<dsp, link, loaded>>
    BY <1>4 DEF StopRefused, Refuses, firmware
  <2> QED BY <1>2, <2>1, MovesFacts DEF FirmwareTypeOK, Ladder
<1>5. CASE Unlink(t)
  <2>1. Moves(t, "unlink", "symlink") /\ link' = "none" /\ UNCHANGED <<dsp, loaded>>
    BY <1>5 DEF Unlink
  <2> QED BY <1>2, <2>1, MovesFacts DEF FirmwareTypeOK, Ladder
<1>6. CASE Symlink(t)
  <2>1. Moves(t, "symlink", "start") /\ link' = switch[t].fw /\ UNCHANGED <<dsp, loaded>>
    BY <1>6 DEF Symlink
  <2> QED BY <1>1, <1>2, <2>1, MovesFacts DEF FirmwareTypeOK, Ladder
<1>7. CASE SymlinkExists(t)
  <2>1. Moves(t, "symlink", "failed") /\ link # "none" /\ UNCHANGED <<dsp, link, loaded>>
    BY <1>7 DEF SymlinkExists, firmware
  <2> QED BY <1>2, <2>1, MovesFacts DEF FirmwareTypeOK, Ladder
<1>8. CASE StartDsp(t)
  <2>1. /\ Moves(t, "start", "done") /\ dsp' = "running" /\ loaded' = link /\ link' = link
        /\ link # "none"
    BY <1>8 DEF StartDsp, StartsDsp
  <2> QED BY <1>1, <1>2, <2>1, MovesFacts DEF FirmwareTypeOK, Ladder, RunsImage
<1>9. CASE StartRefused(t)
  <2>1. /\ Moves(t, "start", "failed") /\ UNCHANGED <<dsp, link, loaded>>
        /\ dsp = "running" \/ link = "none"
    BY <1>9 DEF StartRefused, Refuses, firmware
  <2> QED BY <1>1, <1>2, <2>1, MovesFacts DEF FirmwareTypeOK, Ladder
<1>10. CASE CallFails(t)
  <2>1. PICK from \in SwitchPC, kind \in {"sysfs", "symlink"} : Fails(t, from, kind)
    BY <1>2, <1>10 DEF CallFails
  <2>2. kind \in Faults /\ UNCHANGED <<dsp, link, loaded>>
    BY <1>10, <2>1 DEF CallFails, Fails, Occurs, firmware
  <2>3. /\ switch' \in [Thread -> [at : SwitchPC, fw : Image, fault : BOOLEAN]]
        /\ trouble' = trouble \cup {kind}
    BY <2>1, <2>2, FailsFacts
  <2>4. trouble' \cap {"sysfs", "symlink"} # {} /\ trouble \subseteq trouble'
    BY <2>3
  <2> QED BY <2>2, <2>3, <2>4 DEF FirmwareTypeOK
<1> QED BY <1>3, <1>4, <1>5, <1>6, <1>7, <1>8, <1>9, <1>10 DEF SwitchStep

\* Failures are not forgotten.
LEMMA StaysTroubled ==
  ASSUME trouble \subseteq trouble'
  PROVE  /\ Quiet' => Quiet
         /\ cut' = cut => (Calm' => Calm)
BY DEF Quiet, Calm

LEMMA QuietIsCalm == Frees /\ Borrows /\ Quiet => Calm /\ pc["handler"] = "none"
BY DEF Frees, Borrows, Quiet, Calm

----------------------------------------------------------------------------
(* Steps that leave the C7x alone. *)

\* A thread stays on its side of the switches.
Stays(t) ==
  \/ pc'[t] = pc[t]
  \/ pc[t] \in Between /\ pc'[t] \in Between
  \/ pc[t] \in {"config", "exit"} /\ pc'[t] \in {"config", "exit"}

LEMMA PlainBorrows ==
  ASSUME Borrows, UNCHANGED <<firmware, switch, mode, cut>>, trouble \subseteq trouble',
         Stays("main"), Stays("handler")
  PROVE  Borrows'
<1>1. UNCHANGED <<dsp, link, loaded, switch, mode, cut>> /\ (Calm' => Calm)
  BY StaysTroubled DEF firmware
<1>2. \A fw \in {"base", "test"} : RunsImage(fw)' = RunsImage(fw)
  BY <1>1 DEF RunsImage
<1>3. \A t \in {"main", "handler"}, fw \in {"base", "test"} : Ladder(t, fw)' = Ladder(t, fw)
  BY <1>1 DEF Ladder, RunsImage
<1>4. \A t \in {"main", "handler"} :
        /\ pc'[t] = "none" <=> pc[t] = "none"
        /\ pc'[t] = "load" <=> pc[t] = "load"
        /\ pc'[t] = "switching" <=> pc[t] = "switching"
        /\ pc'[t] = "restoring" <=> pc[t] = "restoring"
        /\ pc'[t] \in Between <=> pc[t] \in Between
        /\ pc'[t] \in {"config", "exit"} <=> pc[t] \in {"config", "exit"}
  BY DEF Stays, Between
<1> QED BY <1>1, <1>2, <1>3, <1>4 DEF Borrows

\* What such a step has to show.
LEMMA PlainInv ==
  ASSUME IInv, UNCHANGED <<firmware, switch, mode, cut>>, trouble \subseteq trouble',
         trouble' \subseteq Faults, Stays("main"), Stays("handler"),
         pc' \in [Everyone -> MainPlace \cup HandlerPlace \cup AudioPlace],
         pc'["main"] \in MainPlace, pc'["handler"] \in HandlerPlace, pc'["audio"] \in AudioPlace,
         start' \in {"START", "STOP", "EXIT"}, rpmsg' \in BOOLEAN,
         buffers' \in {"none", "ready", "unmapped", "gone"},
         config' \in {"none", "there", "freed"}, left' \in 0..Frames, unfiltered' \in BOOLEAN,
         fate' \in {"alive", "exited", "crashed"},
         HandOver', Frees', CrashesOnlyBy', Filters'
  PROVE  IInv'
<1>1. UNCHANGED <<dsp, link, loaded, switch, mode, cut>>
  BY DEF firmware
<1>2. FirmwareTypeOK'
  BY <1>1 DEF IInv, Shape, TypeOK, FirmwareTypeOK
<1>3. mode' \in {"ARM", "DSP"} /\ cut' \in BOOLEAN
  BY <1>1 DEF IInv, Shape, TypeOK
<1>4. TypeOK'
  BY <1>2, <1>3 DEF TypeOK, MainPlace, HandlerPlace, AudioPlace
<1>5. Borrows'
  BY PlainBorrows DEF IInv, Owns
<1> QED BY <1>4, <1>5 DEF IInv, Owns, Shape

\* The variables of the program have their types.
LEMMA ProgramTypes ==
  ASSUME IInv
  PROVE  /\ pc \in [Everyone -> MainPlace \cup HandlerPlace \cup AudioPlace]
         /\ pc["main"] \in MainPlace /\ pc["handler"] \in HandlerPlace /\ pc["audio"] \in AudioPlace
         /\ start \in {"START", "STOP", "EXIT"} /\ rpmsg \in BOOLEAN
         /\ buffers \in {"none", "ready", "unmapped", "gone"}
         /\ config \in {"none", "there", "freed"} /\ left \in 0..Frames /\ unfiltered \in BOOLEAN
         /\ fate \in {"alive", "exited", "crashed"} /\ mode \in {"ARM", "DSP"} /\ cut \in BOOLEAN
         /\ trouble \subseteq Faults
BY DEF IInv, Shape, TypeOK, FirmwareTypeOK, MainPlace, HandlerPlace, AudioPlace

\* init_rpmsg() opens the endpoint, without a failure.
LEMMA InitRpmsgInv == ASSUME IInv, InitRpmsg PROVE IInv'
<1>1. /\ pc["main"] = "rpmsg" /\ pc["handler"] = "none" /\ Goto("main", "buffers")
      /\ UNCHANGED <<firmware, switch, mode, start, buffers, config, left, unfiltered, cut, fate>>
      /\ trouble' \subseteq Faults /\ trouble \subseteq trouble'
      /\ rpmsg' \in BOOLEAN
  BY ProgramTypes DEF InitRpmsg, At, Occurs
<1>2. /\ pc' \in [Everyone -> MainPlace \cup HandlerPlace \cup AudioPlace]
      /\ pc'["main"] = "buffers" /\ pc'["handler"] = pc["handler"] /\ pc'["audio"] = pc["audio"]
  BY <1>1, GotoFacts, Threads DEF IInv, MainPlace
<1>3. HandOver' /\ Frees' /\ CrashesOnlyBy'
  BY <1>1, <1>2 DEF IInv, Owns, HandOver, Frees, CrashesOnlyBy
<1>4. Quiet' => rpmsg'
  <2>1. Quiet => dsp = "running"
    BY <1>1, ProgramTypes, QuietIsCalm DEF IInv, Owns, Borrows, RunsImage, Between
  <2> QED BY <1>1, <2>1, StaysTroubled DEF InitRpmsg, Occurs, Quiet
<1>5. Filters'
  BY <1>1, <1>2, <1>4, StaysTroubled DEF IInv, Owns, Filters
<1> QED BY <1>1, <1>2, <1>3, <1>5, ProgramTypes, PlainInv DEF Stays, Between, MainPlace

\* The buffers are mapped, or a failure to map one is not looked at.
LEMMA InitBuffersInv == ASSUME IInv, InitBuffers PROVE IInv'
<1>1. /\ pc["main"] = "buffers" /\ pc["handler"] = "none" /\ Goto("main", "host")
      /\ UNCHANGED <<firmware, switch, mode, start, rpmsg, config, left, unfiltered, cut, fate>>
      /\ trouble' \subseteq Faults /\ trouble \subseteq trouble'
      /\ buffers' \in {"ready", "unmapped"} /\ (buffers' = "unmapped" => "buffer" \in trouble')
  BY ProgramTypes DEF InitBuffers, At, Occurs
<1>2. /\ pc' \in [Everyone -> MainPlace \cup HandlerPlace \cup AudioPlace]
      /\ pc'["main"] = "host" /\ pc'["handler"] = pc["handler"] /\ pc'["audio"] = pc["audio"]
  BY <1>1, GotoFacts, Threads DEF IInv, MainPlace
<1>3. HandOver' /\ Frees' /\ CrashesOnlyBy'
  BY <1>1, <1>2 DEF IInv, Owns, HandOver, Frees, CrashesOnlyBy, InitBuffers, At
<1>4. Filters'
  BY <1>1, <1>2, StaysTroubled DEF IInv, Owns, Filters, Between
<1> QED BY <1>1, <1>2, <1>3, <1>4, ProgramTypes, PlainInv DEF Stays, Between, MainPlace

\* The UART is opened, or the process exits there and then.
LEMMA InitHostInterfaceInv == ASSUME IInv, InitHostInterface PROVE IInv'
<1>1. /\ pc["main"] = "host" /\ pc["handler"] = "none" /\ fate = "alive"
      /\ UNCHANGED <<firmware, switch, mode, start, rpmsg, buffers, config, left, unfiltered, cut>>
      /\ trouble' \subseteq Faults /\ trouble \subseteq trouble'
      /\ \/ fate' = "exited" /\ "uart" \in trouble' /\ UNCHANGED pc
         \/ fate' = fate /\ Goto("main", "filter")
  BY ProgramTypes DEF InitHostInterface, At, Occurs, Dies, program
<1>2. /\ pc' \in [Everyone -> MainPlace \cup HandlerPlace \cup AudioPlace]
      /\ pc'["handler"] = pc["handler"] /\ pc'["audio"] = pc["audio"]
      /\ \/ fate' = "exited" /\ "uart" \in trouble' /\ pc'["main"] = pc["main"]
         \/ fate' = fate /\ pc'["main"] = "filter"
  BY <1>1, GotoFacts, ProgramTypes, Threads DEF IInv, MainPlace
<1>3. HandOver' /\ Frees' /\ CrashesOnlyBy'
  BY <1>1, <1>2 DEF IInv, Owns, HandOver, Frees, CrashesOnlyBy
<1>4. Filters'
  BY <1>1, <1>2, StaysTroubled DEF IInv, Owns, Filters, Between
<1> QED BY <1>1, <1>2, <1>3, <1>4, ProgramTypes, PlainInv DEF Stays, Between, MainPlace

\* Steps of main in its loop, before and after the thread.
LEMMA RequestInv == ASSUME IInv, Request PROVE IInv'
<1>1. /\ pc["main"] = "loop" /\ pc["handler"] = "none" /\ start = "START" /\ start' = "STOP"
      /\ Goto("main", "create")
      /\ UNCHANGED <<firmware, switch, trouble, mode, rpmsg, buffers, config, left, unfiltered,
                     cut, fate>>
  BY DEF Request, At
<1>2. /\ pc' \in [Everyone -> MainPlace \cup HandlerPlace \cup AudioPlace]
      /\ pc'["main"] = "create" /\ pc'["handler"] = pc["handler"] /\ pc'["audio"] = pc["audio"]
  BY <1>1, GotoFacts, Threads DEF IInv, MainPlace
<1>3. HandOver' /\ Frees' /\ CrashesOnlyBy'
  BY <1>1, <1>2 DEF IInv, Owns, HandOver, Frees, CrashesOnlyBy
<1>4. Filters'
  BY <1>1, <1>2, StaysTroubled DEF IInv, Owns, Filters, Between
<1> QED BY <1>1, <1>2, <1>3, <1>4, ProgramTypes, PlainInv DEF Stays, Between, MainPlace

LEMMA CreateInv == ASSUME IInv, Create PROVE IInv'
<1>1. /\ pc["main"] = "create" /\ pc["handler"] = "none"
      /\ UNCHANGED <<firmware, switch, mode, start, rpmsg, buffers, config, left, unfiltered, cut,
                     fate>>
      /\ trouble' \subseteq Faults /\ trouble \subseteq trouble'
  BY ProgramTypes DEF Create, At, Occurs, program
<1>2. /\ pc' \in [Everyone -> MainPlace \cup HandlerPlace \cup AudioPlace]
      /\ pc'["handler"] = pc["handler"]
      /\ \/ pc'["main"] = "loop" /\ pc'["audio"] = "open"
         \/ pc'["main"] = "destroy" /\ pc'["audio"] = pc["audio"]
  <2>1. CASE pc' = [[pc EXCEPT !["main"] = "loop"] EXCEPT !["audio"] = "open"]
    BY <2>1, ProgramTypes, Threads DEF MainPlace, AudioPlace
  <2>2. CASE Goto("main", "destroy")
    BY <2>2, GotoFacts, Threads DEF IInv, MainPlace
  <2> QED BY <2>1, <2>2 DEF Create
<1>3. HandOver' /\ Frees' /\ CrashesOnlyBy'
  BY <1>1, <1>2 DEF IInv, Owns, HandOver, Frees, CrashesOnlyBy
<1>4. Filters'
  BY <1>1, <1>2, StaysTroubled DEF IInv, Owns, Filters, Between
<1> QED BY <1>1, <1>2, <1>3, <1>4, ProgramTypes, PlainInv
        DEF Stays, Between, MainPlace, AudioPlace

LEMMA SeesExitInv == ASSUME IInv, SeesExit PROVE IInv'
<1>1. /\ pc["main"] = "loop" /\ pc["handler"] = "none" /\ start = "EXIT" /\ Goto("main", "destroy")
      /\ UNCHANGED <<firmware, switch, trouble, mode, start, rpmsg, buffers, config, left,
                     unfiltered, cut, fate>>
  BY DEF SeesExit, At, program
<1>2. /\ pc' \in [Everyone -> MainPlace \cup HandlerPlace \cup AudioPlace]
      /\ pc'["main"] = "destroy" /\ pc'["handler"] = pc["handler"] /\ pc'["audio"] = pc["audio"]
  BY <1>1, GotoFacts, Threads DEF IInv, MainPlace
<1>3. HandOver' /\ Frees' /\ CrashesOnlyBy'
  BY <1>1, <1>2 DEF IInv, Owns, HandOver, Frees, CrashesOnlyBy
<1>4. Filters'
  BY <1>1, <1>2, StaysTroubled DEF IInv, Owns, Filters, Between
<1> QED BY <1>1, <1>2, <1>3, <1>4, ProgramTypes, PlainInv DEF Stays, Between, MainPlace

\* The filter value is written through a buffer that may not be mapped.
LEMMA StoreFilterInv == ASSUME IInv, StoreFilter PROVE IInv'
<1>1. /\ pc["main"] = "filter" /\ pc["handler"] = "none" /\ fate = "alive"
      /\ UNCHANGED <<firmware, switch, trouble, mode, start, rpmsg, buffers, config, left,
                     unfiltered, cut>>
      /\ \/ fate' = "crashed" /\ buffers = "unmapped" /\ UNCHANGED pc
         \/ fate' = fate /\ Goto("main", "loop")
  BY DEF StoreFilter, At, Dies, program
<1>2. /\ pc' \in [Everyone -> MainPlace \cup HandlerPlace \cup AudioPlace]
      /\ pc'["handler"] = pc["handler"] /\ pc'["audio"] = pc["audio"]
      /\ \/ fate' = "crashed" /\ buffers = "unmapped" /\ pc'["main"] = pc["main"]
         \/ fate' = fate /\ pc'["main"] = "loop"
  BY <1>1, GotoFacts, ProgramTypes, Threads DEF IInv, MainPlace
<1>3. HandOver' /\ Frees' /\ CrashesOnlyBy'
  BY <1>1, <1>2 DEF IInv, Owns, HandOver, Frees, CrashesOnlyBy
<1>4. Filters'
  BY <1>1, <1>2, StaysTroubled DEF IInv, Owns, Filters, Between
<1> QED BY <1>1, <1>2, <1>3, <1>4, ProgramTypes, PlainInv DEF Stays, Between, MainPlace

\* cleanup_config(): the second call is the handler's.
LEMMA FreeConfigInv == ASSUME IInv, NEW t \in Thread, FreeConfig(t) PROVE IInv'
<1>1. /\ pc[t] = "config" /\ fate = "alive" /\ (t = "main" => pc["handler"] = "none")
      /\ UNCHANGED <<firmware, switch, trouble, mode, start, rpmsg, buffers, left, unfiltered, cut>>
      /\ \/ config = "freed" /\ config' = config /\ fate' = "crashed" /\ UNCHANGED pc
         \/ config' = "freed" /\ fate' = fate /\ Goto(t, "exit")
  BY DEF FreeConfig, At, Dies
<1>2. CASE config = "freed" /\ config' = config /\ fate' = "crashed" /\ UNCHANGED pc
  <2>1. t = "handler"
    BY <1>1, <1>2, Threads DEF IInv, Owns, Frees
  <2>2. HandOver' /\ Frees' /\ CrashesOnlyBy'
    BY <1>1, <1>2, <2>1 DEF IInv, Owns, HandOver, Frees, CrashesOnlyBy
  <2>3. Filters'
    BY <1>1, <1>2, StaysTroubled DEF IInv, Owns, Filters
  <2> QED BY <1>1, <1>2, <2>2, <2>3, ProgramTypes, PlainInv DEF Stays
<1>3. CASE config' = "freed" /\ fate' = fate /\ Goto(t, "exit")
  <2>1. /\ pc' \in [Everyone -> MainPlace \cup HandlerPlace \cup AudioPlace]
        /\ pc'["main"] = IF t = "main" THEN "exit" ELSE pc["main"]
        /\ pc'["handler"] = IF t = "handler" THEN "exit" ELSE pc["handler"]
        /\ pc'["audio"] = pc["audio"]
    BY <1>3, GotoFacts, Threads DEF IInv, MainPlace
  <2>2. HandOver' /\ Frees' /\ CrashesOnlyBy'
    BY <1>1, <1>3, <2>1, Threads DEF IInv, Owns, HandOver, Frees, CrashesOnlyBy
  <2>3. Filters'
    BY <1>1, <1>3, <2>1, Threads, StaysTroubled DEF IInv, Owns, Filters, Between
  <2>4. Stays("main") /\ Stays("handler")
    BY <1>1, <2>1, Threads DEF Stays
  <2> QED BY <1>1, <1>3, <2>1, <2>2, <2>3, <2>4, ProgramTypes, PlainInv
          DEF MainPlace, HandlerPlace
<1> QED BY <1>1, <1>2, <1>3

LEMMA ExitInv == ASSUME IInv, NEW t \in Thread, Exit(t) PROVE IInv'
<1>1. /\ pc[t] = "exit" /\ fate = "alive" /\ fate' = "exited" /\ (t = "main" => pc["handler"] = "none")
      /\ UNCHANGED <<firmware, switch, trouble, pc, mode, start, rpmsg, buffers, config, left,
                     unfiltered, cut>>
  BY DEF Exit, At, Dies
<1>2. HandOver' /\ Frees' /\ CrashesOnlyBy'
  BY <1>1, Threads DEF IInv, Owns, HandOver, Frees, CrashesOnlyBy
<1>3. Filters'
  BY <1>1, StaysTroubled DEF IInv, Owns, Filters
<1> QED BY <1>1, <1>2, <1>3, ProgramTypes, PlainInv DEF Stays

\* The command thread writes through a buffer that is not there.
LEMMA CommandInv == ASSUME IInv, Command PROVE IInv'
<1>1. /\ fate = "alive" /\ fate' = "crashed" /\ buffers \in {"gone", "unmapped"}
      /\ UNCHANGED <<firmware, switch, pc, mode, start, rpmsg, buffers, config, left, unfiltered, cut>>
      /\ "command" \in trouble' /\ trouble' \subseteq Faults /\ trouble \subseteq trouble'
  BY ProgramTypes DEF Command, Dies, Occurs
<1>2. HandOver' /\ Frees' /\ CrashesOnlyBy'
  BY <1>1 DEF IInv, Owns, HandOver, Frees, CrashesOnlyBy
<1>3. Filters'
  BY <1>1, StaysTroubled DEF IInv, Owns, Filters
<1> QED BY <1>1, <1>2, <1>3, ProgramTypes, PlainInv DEF Stays

\* The GUI has left, and what has been played is sent to it.
LEMMA BrokenPipeInv == ASSUME IInv, BrokenPipe PROVE IInv'
<1>1. /\ fate = "alive" /\ fate' = "crashed" /\ left < Frames
      /\ UNCHANGED <<firmware, switch, pc, mode, start, rpmsg, buffers, config, left, unfiltered, cut>>
      /\ "viewer" \in trouble' /\ trouble' \subseteq Faults /\ trouble \subseteq trouble'
  BY ProgramTypes DEF BrokenPipe, Dies, Occurs
<1>2. HandOver' /\ Frees' /\ CrashesOnlyBy'
  BY <1>1 DEF IInv, Owns, HandOver, Frees, CrashesOnlyBy
<1>3. Filters'
  BY <1>1, StaysTroubled DEF IInv, Owns, Filters
<1> QED BY <1>1, <1>2, <1>3, ProgramTypes, PlainInv DEF Stays

----------------------------------------------------------------------------
(* The audio thread. *)

\* What a step of it has to show: main waits for it in its loop.
LEMMA AudioMoves ==
  ASSUME IInv, pc["audio"] \notin {"none", "ended"}, fate = "alive",
         NEW where \in AudioPlace \ {"none"}, Goto("audio", where),
         UNCHANGED <<firmware, switch, mode, rpmsg, buffers, config, cut, fate>>,
         trouble' \subseteq Faults, trouble \subseteq trouble',
         start' = IF where = "ended" THEN "EXIT" ELSE start,
         left' \in 0..Frames, unfiltered' \in BOOLEAN,
         where \in {"send", "reply"} => mode = "DSP",
         Quiet' => unfiltered' = unfiltered
  PROVE  IInv'
<1>1. /\ pc' \in [Everyone -> MainPlace \cup HandlerPlace \cup AudioPlace]
      /\ pc'["audio"] = where /\ pc'["main"] = pc["main"] /\ pc'["handler"] = pc["handler"]
  BY GotoFacts, Threads DEF IInv
<1>2. pc["main"] = "loop" /\ start = "STOP" /\ buffers \in {"ready", "unmapped"}
  BY ProgramTypes DEF IInv, Owns, HandOver, MainPlace
<1>3. HandOver' /\ Frees' /\ CrashesOnlyBy'
  BY <1>1, <1>2 DEF IInv, Owns, HandOver, Frees, CrashesOnlyBy
<1>4. Filters'
  BY <1>1, StaysTroubled DEF IInv, Owns, Filters
<1> QED BY <1>1, <1>2, <1>3, <1>4, ProgramTypes, PlainInv DEF Stays

\* It reads and plays from a buffer that was never mapped.
LEMMA AudioCrashes ==
  ASSUME IInv, pc["audio"] \notin {"none", "ended"}, buffers # "ready", fate = "alive",
         Dies("crashed"), UNCHANGED <<firmware, switch, trouble, pc>>
  PROVE  IInv'
<1>1. /\ fate' = "crashed"
      /\ UNCHANGED <<mode, start, rpmsg, buffers, config, left, unfiltered, cut>>
  BY DEF Dies
<1>2. buffers = "unmapped"
  BY ProgramTypes DEF IInv, Owns, HandOver, MainPlace
<1>3. HandOver' /\ Frees' /\ CrashesOnlyBy'
  BY <1>1, <1>2 DEF IInv, Owns, HandOver, Frees, CrashesOnlyBy
<1>4. Filters'
  BY <1>1, StaysTroubled DEF IInv, Owns, Filters
<1> QED BY <1>1, <1>3, <1>4, ProgramTypes, PlainInv DEF Stays

LEMMA AudioInv == ASSUME IInv, Audio PROVE IInv'
<1>1. {"open", "read", "send", "reply", "play", "blocked", "close", "ended"} \subseteq AudioPlace
  BY DEF AudioPlace
<1>2. CASE Open
  BY <1>1, <1>2, ProgramTypes, AudioMoves DEF Open, At, Occurs
<1>3. CASE Read
  <2>1. pc["audio"] = "read" /\ fate = "alive" /\ UNCHANGED <<firmware, switch, trouble>>
    BY <1>3 DEF Read, At
  <2>2. CASE buffers # "ready" /\ Dies("crashed") /\ UNCHANGED pc
    BY <2>1, <2>2, AudioCrashes
  <2>3. CASE /\ left > 0 /\ left' = left - 1
             /\ Goto("audio", IF mode = "DSP" THEN "send" ELSE "play")
             /\ UNCHANGED <<mode, start, rpmsg, buffers, config, unfiltered, cut, fate>>
    <3>1. left' \in 0..Frames
      BY <2>3, ProgramTypes, OffloadAssumption
    <3>2. PICK where \in {"send", "play"} : Goto("audio", where) /\ (where = "send" => mode = "DSP")
      BY <2>3
    <3> QED BY <1>1, <2>1, <2>3, <3>1, <3>2, ProgramTypes, AudioMoves
  <2>4. CASE Goto("audio", "close") /\ UNCHANGED program
    BY <1>1, <2>1, <2>4, ProgramTypes, AudioMoves DEF program
  <2> QED BY <1>3, <2>2, <2>3, <2>4 DEF Read
<1>4. CASE Send
  <2>1. /\ pc["audio"] = "send" /\ fate = "alive" /\ mode = "DSP"
        /\ UNCHANGED <<firmware, switch, mode, start, rpmsg, buffers, config, left, cut, fate>>
        /\ trouble' \subseteq Faults /\ trouble \subseteq trouble' /\ unfiltered' \in BOOLEAN
    BY <1>4, ProgramTypes DEF Send, At, Occurs, IInv, Owns, Filters
  <2>2. pc["main"] = "loop"
    BY <2>1, ProgramTypes DEF IInv, Owns, HandOver, MainPlace
  <2>3. Quiet => rpmsg /\ dsp = "running"
    BY <2>1, <2>2, QuietIsCalm DEF IInv, Owns, Borrows, Filters, Between, RunsImage
  <2>4. Quiet' => unfiltered' = unfiltered
    <3>1. dsp = "running" => dsp # "offline"
      OBVIOUS
    <3> QED BY <1>4, <2>1, <2>3, <3>1, StaysTroubled DEF Send, Occurs, Quiet
  <2>5. PICK where \in {"reply", "play"} : Goto("audio", where)
    BY <1>4 DEF Send
  <2> QED BY <1>1, <2>1, <2>4, <2>5, ProgramTypes, AudioMoves
<1>5. CASE Reply
  <2>1. /\ pc["audio"] = "reply" /\ fate = "alive" /\ mode = "DSP" /\ Goto("audio", "play")
        /\ UNCHANGED <<firmware, switch, trouble, mode, start, rpmsg, buffers, config, left, cut,
                       fate>>
        /\ unfiltered' \in BOOLEAN
    BY <1>5, ProgramTypes DEF Reply, At, IInv, Owns, Filters
  <2>2. pc["main"] = "loop"
    BY <2>1, ProgramTypes DEF IInv, Owns, HandOver, MainPlace
  <2>3. Quiet => dsp = "running"
    BY <2>1, <2>2, QuietIsCalm DEF IInv, Owns, Borrows, Between, RunsImage
  <2>4. Quiet' => unfiltered' = unfiltered
    BY <1>5, <2>1, <2>3, StaysTroubled DEF Reply
  <2> QED BY <1>1, <2>1, <2>4, ProgramTypes, AudioMoves
<1>6. CASE Play
  <2>1. pc["audio"] = "play" /\ fate = "alive" /\ UNCHANGED <<firmware, switch>>
    BY <1>6 DEF Play, At
  <2>2. CASE buffers # "ready" /\ Dies("crashed") /\ UNCHANGED <<pc, trouble>>
    BY <2>1, <2>2, AudioCrashes
  <2>3. CASE /\ UNCHANGED program
             /\ \/ Goto("audio", "read") /\ UNCHANGED trouble
                \/ Goto("audio", "blocked") /\ Occurs("stall")
    <3>1. PICK where \in {"read", "blocked"} : Goto("audio", where)
      BY <2>3
    <3>2. trouble' \subseteq Faults /\ trouble \subseteq trouble'
      BY <2>3, ProgramTypes DEF Occurs
    <3> QED BY <1>1, <2>1, <2>3, <3>1, <3>2, ProgramTypes, AudioMoves DEF program
  <2> QED BY <1>6, <2>2, <2>3 DEF Play
<1>7. CASE Close
  BY <1>1, <1>7, ProgramTypes, AudioMoves DEF Close, At
<1> QED BY <1>2, <1>3, <1>4, <1>5, <1>6, <1>7 DEF Audio

\* The GUI reads again.
LEMMA UnblockInv == ASSUME IInv, Unblock PROVE IInv'
<1>1. "read" \in AudioPlace
  BY DEF AudioPlace
<1>2. /\ pc["audio"] = "blocked" /\ fate = "alive" /\ Goto("audio", "read")
      /\ UNCHANGED <<firmware, switch, trouble, program>>
  BY DEF Unblock, At
<1> QED BY <1>1, <1>2, ProgramTypes, AudioMoves DEF program

----------------------------------------------------------------------------
(* Steps that move the C7x, and the proofs' end. *)

\* What such a step has to show.
LEMMA C7xInv ==
  ASSUME IInv, FirmwareTypeOK', mode' \in {"ARM", "DSP"}, cut' \in BOOLEAN,
         UNCHANGED <<start, rpmsg, left, unfiltered, fate>>,
         buffers' \in {"none", "ready", "unmapped", "gone"},
         config' \in {"none", "there", "freed"},
         pc' \in [Everyone -> MainPlace \cup HandlerPlace \cup AudioPlace],
         pc'["main"] \in MainPlace, pc'["handler"] \in HandlerPlace, pc'["audio"] = pc["audio"],
         HandOver', Frees', Borrows', CrashesOnlyBy', Filters'
  PROVE  IInv'
<1>1. TypeOK'
  BY ProgramTypes DEF TypeOK, MainPlace, HandlerPlace, AudioPlace
<1> QED BY <1>1 DEF IInv, Owns, Shape

\* The mode is read, and in DSP mode main calls switch_firmware().
LEMMA ConfigureInv == ASSUME IInv, Configure PROVE IInv'
<1>1. /\ pc["main"] = "load" /\ pc["handler"] = "none" /\ config' = "there" /\ FirmwareTypeOK
      /\ pc["audio"] = "none" /\ start = "START" /\ RunsImage("base") /\ ~cut /\ fate = "alive"
      /\ UNCHANGED <<dsp, link, loaded, trouble, start, rpmsg, buffers, left, unfiltered, cut, fate>>
  BY DEF Configure, At, IInv, Owns, Shape, TypeOK, HandOver, Borrows, firmware
<1>2. PICK where \in {"rpmsg", "switching"} :
        /\ Goto("main", where)
        /\ where = "rpmsg" => mode' = "ARM" /\ switch' = switch
        /\ where = "switching" => mode' = "DSP" /\ Call("main", "test")
  BY DEF Configure
<1>3. /\ pc' \in [Everyone -> MainPlace \cup HandlerPlace \cup AudioPlace]
      /\ pc'["main"] = where /\ pc'["handler"] = "none" /\ pc'["audio"] = "none"
  BY <1>1, <1>2, GotoFacts, Threads DEF IInv, MainPlace
<1>4. /\ switch' \in [Thread -> [at : SwitchPC, fw : Image, fault : BOOLEAN]]
      /\ where = "switching" => switch'["main"].at = "stop" /\ switch'["main"].fw = "test"
  BY <1>1, <1>2, CallFacts, Threads DEF FirmwareTypeOK, Image
<1>5. FirmwareTypeOK'
  BY <1>1, <1>4 DEF FirmwareTypeOK
<1>6. RunsImage("base")' /\ (where = "switching" => Ladder("main", "test")')
  BY <1>1, <1>4 DEF RunsImage, Ladder
<1>7. Borrows'
  BY <1>1, <1>2, <1>3, <1>6 DEF Borrows, Between
<1>8. HandOver' /\ Frees' /\ CrashesOnlyBy'
  BY <1>1, <1>3 DEF IInv, Owns, HandOver, Frees, CrashesOnlyBy
<1>9. Filters'
  BY <1>1, <1>2, <1>3, StaysTroubled DEF IInv, Owns, Filters, Between
<1> QED BY <1>1, <1>2, <1>3, <1>5, <1>7, <1>8, <1>9, ProgramTypes, C7xInv
        DEF MainPlace, HandlerPlace

\* A thread that is inside a switch is in DSP mode, and its ladder is in order.
LEMMA Inside ==
  ASSUME IInv, NEW t \in Thread, NEW from \in {"switching", "restoring"}, At(t, from)
  PROVE  /\ mode = "DSP" /\ fate = "alive"
         /\ t = "main" => pc["handler"] = "none"
         /\ t = "handler" => from = "restoring"
         /\ Calm => Ladder(t, IF from = "switching" THEN "test" ELSE "base")
<1>1. /\ pc[t] = from /\ fate = "alive" /\ (t = "main" => pc["handler"] = "none")
      /\ t = "handler" => from = "restoring"
  BY ProgramTypes DEF At, HandlerPlace
<1>2. mode = "DSP"
  BY <1>1, Threads, ProgramTypes DEF IInv, Owns, Borrows
<1> QED BY <1>1, <1>2, Threads DEF IInv, Owns, Borrows

LEMMA InSwitchInv == ASSUME IInv, NEW t \in Thread, InSwitch(t) PROVE IInv'
<1>1. /\ SwitchStep(t) /\ FirmwareTypeOK
      /\ UNCHANGED <<pc, mode, start, rpmsg, buffers, config, left, unfiltered, cut, fate>>
  BY DEF InSwitch, program, IInv, Shape, TypeOK
<1>2. PICK from \in {"switching", "restoring"} : At(t, from)
  BY DEF InSwitch
<1> DEFINE fw == IF from = "switching" THEN "test" ELSE "base"
<1>3. /\ pc[t] = from /\ mode = "DSP" /\ fate = "alive"
      /\ t = "main" => pc["handler"] = "none"
      /\ t = "handler" => from = "restoring"
      /\ Calm => Ladder(t, fw)
  BY <1>2, Inside DEF At
<1>4. /\ FirmwareTypeOK' /\ trouble \subseteq trouble'
      /\ Ladder(t, fw) => Ladder(t, fw)' \/ trouble' \cap {"sysfs", "symlink"} # {}
  <2>1. fw \in Image
    BY DEF Image
  <2> HIDE DEF fw
  <2> QED BY <1>1, <2>1, StepFacts
<1>5. Calm' => Ladder(t, fw)'
  <2>1. Calm' => Calm /\ trouble' \cap {"sysfs", "symlink"} = {}
    BY <1>1, <1>4, StaysTroubled DEF Calm
  <2> HIDE DEF fw
  <2> QED BY <1>3, <1>4, <2>1
<1>6. Borrows'
  <2>1. CASE t = "main"
    BY <1>1, <1>3, <1>5, <2>1 DEF IInv, Owns, Borrows, Between
  <2>2. CASE t = "handler"
    BY <1>1, <1>3, <1>5, <2>2 DEF IInv, Owns, Borrows
  <2> QED BY <2>1, <2>2, Threads
<1>7. HandOver' /\ Frees' /\ CrashesOnlyBy'
  BY <1>1, <1>3, <1>4 DEF IInv, Owns, HandOver, Frees, CrashesOnlyBy
<1>8. Filters'
  BY <1>1, <1>4, StaysTroubled DEF IInv, Owns, Filters
<1> QED BY <1>1, <1>4, <1>6, <1>7, <1>8, ProgramTypes, C7xInv

\* switch_firmware() returns, to main or to the handler.
LEMMA SwitchReturnsInv ==
  ASSUME IInv, NEW t \in Thread, NEW from \in {"switching", "restoring"},
         NEW to \in {"rpmsg", "config"}, SwitchReturns(t, from, to),
         \/ t = "main" /\ from = "switching" /\ to = "rpmsg"
         \/ from = "restoring" /\ to = "config"
  PROVE  IInv'
<1>1. /\ At(t, from) /\ Goto(t, to) /\ (Switched(t) \/ SwitchFailed(t)) /\ FirmwareTypeOK
      /\ UNCHANGED <<dsp, link, loaded, switch, trouble, mode, start, rpmsg, buffers, config, left,
                     unfiltered, cut, fate>>
  BY DEF SwitchReturns, program, firmware, IInv, Shape, TypeOK
<1>2. /\ pc[t] = from /\ mode = "DSP" /\ fate = "alive"
      /\ t = "main" => pc["handler"] = "none"
      /\ Calm => RunsImage(IF from = "switching" THEN "test" ELSE "base")
  BY <1>1, Inside DEF At, Ladder, Switched, SwitchFailed
<1>3. /\ pc' \in [Everyone -> MainPlace \cup HandlerPlace \cup AudioPlace]
      /\ pc'["main"] = IF t = "main" THEN to ELSE pc["main"]
      /\ pc'["handler"] = IF t = "handler" THEN to ELSE pc["handler"]
      /\ pc'["audio"] = pc["audio"]
  BY <1>1, GotoFacts, Threads DEF IInv, MainPlace
<1>4. FirmwareTypeOK' /\ (Calm' => Calm)
  BY <1>1 DEF FirmwareTypeOK, Calm
<1>5. Calm' => RunsImage(IF from = "switching" THEN "test" ELSE "base")'
  BY <1>1, <1>2, <1>4 DEF RunsImage
<1>6. Borrows'
  <2>1. CASE t = "main"
    BY <1>1, <1>2, <1>3, <1>5, <2>1 DEF IInv, Owns, Borrows, Between
  <2>2. CASE t = "handler"
    BY <1>1, <1>2, <1>3, <1>5, <2>2 DEF IInv, Owns, Borrows
  <2> QED BY <2>1, <2>2, Threads
<1>7. HandOver' /\ Frees' /\ CrashesOnlyBy'
  BY <1>1, <1>2, <1>3, Threads DEF IInv, Owns, HandOver, Frees, CrashesOnlyBy
<1>8. Filters'
  BY <1>1, <1>2, <1>3, Threads, StaysTroubled DEF IInv, Owns, Filters, Between
<1>9. pc'["main"] \in MainPlace /\ pc'["handler"] \in HandlerPlace
  BY <1>3, ProgramTypes, Threads DEF MainPlace, HandlerPlace
<1> QED BY <1>1, <1>3, <1>4, <1>6, <1>7, <1>8, <1>9, ProgramTypes, C7xInv

\* main takes its buffers down; in DSP mode it calls switch_firmware() again.
LEMMA DestroyInv == ASSUME IInv, Destroy PROVE IInv'
<1>1. /\ pc["main"] = "destroy" /\ pc["handler"] = "none" /\ fate = "alive" /\ buffers' = "gone"
      /\ FirmwareTypeOK
      /\ UNCHANGED <<dsp, link, loaded, trouble, mode, start, rpmsg, config, left, unfiltered, cut,
                     fate>>
  BY DEF Destroy, At, firmware, IInv, Shape, TypeOK
<1>2. PICK where \in {"config", "restoring"} :
        /\ Goto("main", where)
        /\ where = "config" => mode = "ARM" /\ switch' = switch
        /\ where = "restoring" => mode = "DSP" /\ Call("main", "base")
  BY ProgramTypes DEF Destroy
<1>3. /\ pc' \in [Everyone -> MainPlace \cup HandlerPlace \cup AudioPlace]
      /\ pc'["main"] = where /\ pc'["handler"] = "none" /\ pc'["audio"] = pc["audio"]
  BY <1>1, <1>2, GotoFacts, Threads DEF IInv, MainPlace
<1>4. /\ switch' \in [Thread -> [at : SwitchPC, fw : Image, fault : BOOLEAN]]
      /\ where = "restoring" => switch'["main"].at = "stop" /\ switch'["main"].fw = "base"
  BY <1>1, <1>2, CallFacts, Threads DEF FirmwareTypeOK, Image
<1>5. FirmwareTypeOK' /\ (Calm' => Calm)
  BY <1>1, <1>4 DEF FirmwareTypeOK, Calm
<1>6. /\ where = "restoring" /\ Calm' => Ladder("main", "base")'
      /\ where = "config" => RunsImage("base")'
  BY <1>1, <1>2, <1>4, <1>5 DEF IInv, Owns, Borrows, Between, RunsImage, Ladder
<1>7. Borrows'
  BY <1>1, <1>2, <1>3, <1>6 DEF IInv, Owns, Borrows, Between
<1>8. HandOver' /\ Frees' /\ CrashesOnlyBy'
  BY <1>1, <1>3 DEF IInv, Owns, HandOver, Frees, CrashesOnlyBy
<1>9. Filters'
  BY <1>1, <1>3, StaysTroubled DEF IInv, Owns, Filters, Between
<1> QED BY <1>1, <1>2, <1>3, <1>5, <1>7, <1>8, <1>9, ProgramTypes, C7xInv
        DEF MainPlace, HandlerPlace

\* SIGINT: unless it comes inside a switch, the C7x runs when the handler begins.
LEMMA InterruptInv == ASSUME IInv, Interrupt PROVE IInv'
<1>1. /\ pc["handler"] = "none" /\ pc["main"] # "load" /\ fate = "alive" /\ FirmwareTypeOK /\ ~cut
      /\ UNCHANGED <<dsp, link, loaded, mode, start, rpmsg, buffers, config, left, unfiltered, fate>>
      /\ "signal" \in trouble' /\ trouble' \subseteq Faults /\ trouble \subseteq trouble'
      /\ cut' = (/\ pc["main"] \in {"switching", "restoring"}
                 /\ switch["main"].at \notin {"done", "failed"})
  BY ProgramTypes DEF Interrupt, Occurs, firmware, IInv, Owns, Borrows, Shape, TypeOK
<1>2. PICK where \in {"config", "restoring"} :
        /\ Goto("handler", where)
        /\ where = "config" => mode = "ARM" /\ switch' = switch
        /\ where = "restoring" => mode = "DSP" /\ Call("handler", "base")
  BY ProgramTypes DEF Interrupt
<1>3. /\ pc' \in [Everyone -> MainPlace \cup HandlerPlace \cup AudioPlace]
      /\ pc'["main"] = pc["main"] /\ pc'["handler"] = where /\ pc'["audio"] = pc["audio"]
  BY <1>1, <1>2, GotoFacts, Threads DEF IInv, MainPlace
<1>4. /\ switch' \in [Thread -> [at : SwitchPC, fw : Image, fault : BOOLEAN]]
      /\ where = "restoring" => switch'["handler"].at = "stop" /\ switch'["handler"].fw = "base"
  BY <1>1, <1>2, CallFacts, Threads DEF FirmwareTypeOK, Image
<1>5. FirmwareTypeOK' /\ cut' \in BOOLEAN
  <2>1. cut' \in BOOLEAN
    BY <1>1
  <2> QED BY <1>1, <1>4, <2>1 DEF FirmwareTypeOK
<1>6. mode = "DSP" /\ Calm' => dsp = "running"
  <2>1. Calm' => Calm /\ ~(/\ pc["main"] \in {"switching", "restoring"}
                           /\ switch["main"].at \notin {"done", "failed"})
    BY <1>1 DEF Calm
  <2> QED BY <1>1, <2>1, ProgramTypes
          DEF IInv, Owns, Borrows, Between, RunsImage, Ladder, MainPlace
<1>7. Borrows'
  <2>1. where = "restoring" /\ Calm' => Ladder("handler", "base")'
    BY <1>1, <1>2, <1>4, <1>6 DEF Ladder
  <2>2. RunsImage("base") => RunsImage("base")'
    BY <1>1 DEF RunsImage
  <2> QED BY <1>1, <1>2, <1>3, <2>1, <2>2 DEF IInv, Owns, Borrows
<1>8. HandOver' /\ Frees' /\ CrashesOnlyBy'
  BY <1>1, <1>3 DEF IInv, Owns, HandOver, Frees, CrashesOnlyBy
<1>9. Filters'
  BY <1>1, <1>3, StaysTroubled DEF IInv, Owns, Filters, Between
<1> QED BY <1>1, <1>3, <1>2, <1>5, <1>7, <1>8, <1>9, ProgramTypes, C7xInv
        DEF MainPlace, HandlerPlace

LEMMA InitInv == Init => IInv
<1> SUFFICES ASSUME Init PROVE IInv
  OBVIOUS
<1> USE DEF Init, FirmwareInit
<1>1. FirmwareTypeOK
  BY DEF FirmwareTypeOK, Image, Idle, SwitchPC
<1>2. /\ pc["main"] = "load" /\ pc["handler"] = "none" /\ pc["audio"] = "none"
      /\ pc \in [Everyone -> MainPlace \cup HandlerPlace \cup AudioPlace]
  BY Threads DEF Everyone, MainPlace, HandlerPlace, AudioPlace
<1>3. left \in 0..Frames
  BY OffloadAssumption
<1>4. rpmsg \in BOOLEAN /\ unfiltered \in BOOLEAN /\ cut \in BOOLEAN
  OBVIOUS
<1>5. Shape
  BY <1>1, <1>2, <1>3, <1>4 DEF Shape, TypeOK
<1>6. Owns
  BY <1>2 DEF Owns, HandOver, Frees, CrashesOnlyBy, Borrows, Filters, RunsImage, Between
<1> QED BY <1>5, <1>6 DEF IInv

LEMMA NextInv == IInv /\ [Next]_vars => IInv'
<1> SUFFICES ASSUME IInv, [Next]_vars PROVE IInv'
  OBVIOUS
<1>1. CASE Main \/ Handler
  <2>1. {"main", "handler"} \subseteq Thread
    BY Threads
  <2>2. CASE \/ SwitchReturns("main", "switching", "rpmsg")
             \/ SwitchReturns("main", "restoring", "config")
             \/ SwitchReturns("handler", "restoring", "config")
    BY <2>1, <2>2, SwitchReturnsInv
  <2> QED BY <1>1, <2>1, <2>2, ConfigureInv, InSwitchInv, InitRpmsgInv, InitBuffersInv,
             InitHostInterfaceInv, StoreFilterInv, RequestInv, CreateInv, SeesExitInv, DestroyInv, FreeConfigInv, ExitInv
          DEF Main, Handler
<1>2. CASE UNCHANGED vars
  <2>1. UNCHANGED <<dsp, link, loaded, switch, trouble, pc, mode, start, rpmsg, buffers, config,
                    left, unfiltered, cut, fate>>
    BY <1>2 DEF vars, firmware, program
  <2>2. HandOver' /\ Frees' /\ CrashesOnlyBy'
    BY <2>1 DEF IInv, Owns, HandOver, Frees, CrashesOnlyBy
  <2>3. Filters'
    BY <2>1 DEF IInv, Owns, Filters, Quiet
  <2> QED BY <2>1, <2>2, <2>3, ProgramTypes, PlainInv DEF Stays, firmware
<1> QED BY <1>1, <1>2, AudioInv, InterruptInv, CommandInv, UnblockInv, BrokenPipeInv
    DEF Next, Over, StaysMute

THEOREM Invariant == Spec => []IInv
BY InitInv, NextInv, PTL DEF Spec

\* Type correctness, for a file of any length and any set of failures.
THEOREM TypesHold == Spec => []TypeOK
<1>1. IInv => TypeOK
  BY DEF IInv, Shape
<1> QED BY <1>1, Invariant, PTL

\* A process crashes only in the four ways that CrashesOnlyBy names, in any order of
\* main, the audio thread, the handler, the host's commands and the GUI's leaving.
THEOREM CrashesFor == Spec => []CrashesOnlyBy
<1>1. IInv => CrashesOnlyBy
  BY DEF IInv, Owns
<1> QED BY <1>1, Invariant, PTL

\* A process that exits leaves the base firmware running, unless a write to sysfs or
\* the link has failed, SIGINT came inside switch_firmware(), or the exit is the one
\* for a UART that cannot be opened.  Of a process that crashes it says nothing.
THEOREM LeavesBaseFirmware == Spec => []BaseAfterExit
<1>1. ASSUME IInv PROVE BaseAfterExit
  BY <1>1, ProgramTypes DEF IInv, Owns, Frees, Borrows, Calm, RunsImage, BaseAfterExit
<1> QED BY <1>1, Invariant, PTL

\* The audio thread never gets ahead of the C7x.
THEOREM NothingUnprocessed == Spec => []PlaysFiltered
<1>1. IInv => PlaysFiltered
  BY DEF IInv, Owns, Filters, Quiet, PlaysFiltered
<1> QED BY <1>1, Invariant, PTL

=============================================================================
