----------------------- MODULE SigchainControlProofs -----------------------
(***************************************************************************)
(* Proofs about SigchainControl for any number of polls and of commands    *)
(* and any set of worlds: its types and its four invariants.  The state    *)
(* that they are about is spread over the shared word, the thread that     *)
(* executes commands and the dialogue with the GUI.  Torn says what a      *)
(* signal has taken down; Sent, Dialogue and Powered say how the rest fits *)
(* together until then, each resting on the ones before it.                *)
(***************************************************************************)
EXTENDS SigchainControl, TLAPS

Up == pc["cleaner"] = "none"

\* Nothing is torn down before cleanup() runs, and the buffer goes last.
Torn ==
  /\ Up => process = "up" /\ on /\ connected
  /\ Up \/ Mode = "cli" \/ "signal" \in Faults
  /\ ~mapped => pc["cleaner"] \in {"restore", "over"}
  /\ pc["cleaner"] = "over" => process # "up"
  /\ DiesOnlyInCommand
  /\ pc["worker"] \notin {"none", "caught", "check", "codecs", "close", "destroy", "restore"}

\* Where the command is in the shared word, and where it has been done.
Written == {"poll", "polling", "clear", "clearing"}
Seen == {"clear", "clearing"}
Sending == {"log", "logging", "write", "writing"} \cup Written

\* A thread that sends has a command, and one that polls has polls left.
Sends == \A t \in Thread :
  /\ pc[t] \in Sending => cur[t] \in Control
  /\ pc[t] \in {"poll", "polling"} => tries[t] # 0

\* The thread is the only one to write the word.
Sent ==
  /\ pc["worker"] = "codec" => cur["worker"] \notin Control
  /\ Mode = "cli" => cur["worker"] \in Control /\ pc["worker"] \notin {"recv", "codec"}
  /\ Up /\ "sync" \notin Faults =>
       /\ pc["worker"] \in Written => command = cur["worker"]
       /\ pc["worker"] \in Seen => running = Expected(cur["worker"])
       /\ pc["worker"] = "done" /\ ok["worker"] /\ cur["worker"] \in Control
            => running = Expected(cur["worker"]) /\ command = "NO_CHANGE"

Left == gpc \in {"leaving", "parting", "gone"}

\* The command that the GUI waits for.
Asked == CASE gpc = "stopping" -> "STOP"
           [] gpc = "shutting" -> "CODEC_SHUTDOWN"
           [] gpc = "powering" -> "CODEC_INIT"
           [] gpc = "starting" -> "START"
           [] gpc = "idle" -> "none"

\* Until the GUI leaves, which it may do in the middle of one, it is under way,
\* being executed or answered, and nothing else is.
Dialogue ==
  /\ Mode = "cli" => gpc = "idle" /\ inbox = <<>> /\ replies = <<>>
  /\ Mode = "client" /\ Up /\ "timeout" \notin Faults /\ ~Left =>
       \/ gpc = "idle" /\ pc["worker"] = "recv" /\ inbox = <<>> /\ replies = <<>>
       \/ gpc # "idle" /\ pc["worker"] = "recv" /\ inbox = <<Asked>> /\ replies = <<>>
       \/ /\ gpc # "idle" /\ pc["worker"] # "recv" /\ cur["worker"] = Asked
          /\ inbox = <<>> /\ replies = <<>>
       \/ /\ gpc # "idle" /\ pc["worker"] = "recv" /\ cur["worker"] = Asked
          /\ inbox = <<>> /\ replies = <<IF ok["worker"] THEN "OK" ELSE "ERROR">>

\* A command sent and not yet answered.
Queued(c) == \E i \in DOMAIN inbox : inbox[i] = c
UnderWay(c) ==
  \/ Queued(c)
  \/ pc["worker"] # "recv" /\ cur["worker"] = c

\* What is to start the demo has its codecs, and they stay until it stopped, or
\* until the GUI has left and the demo has been told to stop.
Starts ==
  \/ running \/ command = "START"
  \/ pc["worker"] \in Sending /\ cur["worker"] = "START"
  \/ gpc = "starting"
  \/ Queued("START")
Stopped == ~running /\ command = "NO_CHANGE"
Told == command # "START" /\ (running => command = "STOP")

OnlyStops == \A c \in Command : UnderWay(c) => c \in {"STOP", "CODEC_SHUTDOWN"}

Done == pc["worker"] = "done" \/ replies # <<>>
Answered == Done /\ ok["worker"]

\* Before the GUI leaves.
Stays ==
  /\ Starts => powered = "all"
  /\ gpc = "shutting" => Stopped
  /\ Answered /\ gpc = "powering" => powered = "all"
  /\ Answered /\ gpc = "stopping" => Stopped
  /\ Done /\ gpc = "stopping" => Told

\* While it stops the demo, and when it goes without doing so.
Leaving ==
  /\ OnlyStops
  /\ Starts => powered = "all"
  /\ UnderWay("CODEC_SHUTDOWN") => Stopped
  /\ \A i \in DOMAIN inbox : inbox[i] = "CODEC_SHUTDOWN" => i = 1 /\ pc["worker"] = "recv"
  /\ Done => Told
Parted == OnlyStops /\ Told
Gone == ~UnderWay("CODEC_SHUTDOWN") /\ (Starts => powered = "all")

Powered ==
  Up /\ Faults \cap {"timeout", "sync"} = {} =>
    /\ ~Left => Stays
    /\ gpc = "leaving" => Leaving
    /\ gpc = "parting" => Parted
    /\ gpc = "gone" => Parted \/ Gone

IInv == TypeOK /\ Sends /\ Torn /\ Sent /\ Dialogue /\ Powered

----------------------------------------------------------------------------
(* Types. *)

\* Every place that a step goes to.
LEMMA AtOf ==
  /\ {"none", "recv", "next", "codec", "log", "logging", "write"} \subseteq At
  /\ {"writing", "poll", "polling", "clear", "clearing", "done", "finish"} \subseteq At
  /\ {"caught", "check", "codecs", "close", "destroy", "restore", "over"} \subseteq At
BY DEF At

\* recv() takes a prefix.
LEMMA TakenOff ==
  ASSUME NEW S, NEW s \in Seq(S), NEW k \in 1..Len(s)
  PROVE  SubSeq(s, k + 1, Len(s)) \in Seq(S)
OBVIOUS

\* TypeOK in three parts.
BoardType ==
  /\ world \in Worlds
  /\ command \in {"NO_CHANGE"} \cup Control /\ running \in BOOLEAN
  /\ mapped \in BOOLEAN /\ fw \in {"sigchain", "base", "none"}
  /\ powered \in {"none", "some", "all"} /\ flagged \in BOOLEAN
  /\ process \in {"up", "exited", "killed"} /\ on \in BOOLEAN
ThreadType ==
  /\ lock \in Thread \cup {"free"}
  /\ pc \in [Thread -> At]
  /\ cur \in [Thread -> Command]
  /\ tries \in [Thread -> 0..Polls]
  /\ ok \in [Thread -> BOOLEAN]
LinkType ==
  /\ connected \in BOOLEAN
  /\ inbox \in Seq(Command) /\ replies \in Seq({"OK", "ERROR"})
  /\ gpc \in {"idle", "stopping", "shutting", "powering", "starting",
              "leaving", "parting", "gone"}
  /\ stats \in BOOLEAN /\ toggles \in 0..Toggles

LEMMA CodecTypes ==
  ASSUME TypeOK, NEW result \in BOOLEAN, CodecInit(result) \/ CodecShutdown(result)
  PROVE  powered' \in {"none", "some", "all"} /\ flagged' \in BOOLEAN
BY DEF TypeOK, CodecInit, CodecShutdown, codecs

LEMMA SendTypes ==
  ASSUME TypeOK, Sends, NEW t \in Thread, SendControl(t)
  PROVE  TypeOK'
<1> USE SigchainAssumption DEF TypeOK, memory, codecs, link, gui, thread
<1>1. CASE Log(t)
  <2>1. pc' \in [Thread -> At] BY <1>1, AtOf DEF Log, Go
  <2> QED BY <1>1, <2>1 DEF Log
<1>2. CASE Logged(t)
  <2>1. pc' \in [Thread -> At] BY <1>2, AtOf DEF Logged, Go
  <2> QED BY <1>2, <2>1 DEF Logged
<1>3. CASE SyncStart(t)
  <2>1. pc' \in [Thread -> At] BY <1>3, AtOf DEF SyncStart
  <2> QED BY <1>3, <2>1 DEF SyncStart
<1>4. CASE SyncFails(t)
  <2>1. pc' \in [Thread -> At] BY <1>4, AtOf DEF SyncFails
  <2>2. ok' \in [Thread -> BOOLEAN] BY <1>4, Zenon DEF SyncFails
  <2> QED BY <1>4, <2>1, <2>2 DEF SyncFails
<1>5. CASE Segfault(t)
  <2>1. pc' \in [Thread -> At] BY <1>5, AtOf DEF Segfault
  <2> QED BY <1>5, <2>1 DEF Segfault
<1>6. CASE Write(t)
  <2>1. pc' \in [Thread -> At] BY <1>6, AtOf DEF Write, Go
  <2>2. BoardType'
    <3>1. cur[t] \in Control BY <1>6 DEF Write, Go, Sends, Sending
    <3> QED BY <1>6, <3>1 DEF Write, TypeOK, BoardType
  <2>3. ThreadType'
    <3>1. Polls \in 0..Polls OBVIOUS
    <3> QED BY <1>6, <2>1, <3>1 DEF Write, TypeOK, ThreadType
  <2>4. LinkType' BY <1>6, <2>1 DEF Write, TypeOK, LinkType
  <2> QED BY <2>2, <2>3, <2>4 DEF TypeOK, BoardType, ThreadType, LinkType
<1>7. CASE WriteFails(t)
  <2>1. pc' \in [Thread -> At] BY <1>7, AtOf DEF WriteFails, Go
  <2>2. BoardType'
    <3>1. cur[t] \in Control BY <1>7 DEF WriteFails, Go, Sends, Sending
    <3> QED BY <1>7, <3>1 DEF WriteFails, TypeOK, BoardType
  <2>3. ThreadType' BY <1>7, <2>1 DEF WriteFails, TypeOK, ThreadType
  <2>4. LinkType' BY <1>7, <2>1 DEF WriteFails, TypeOK, LinkType
  <2> QED BY <2>2, <2>3, <2>4 DEF TypeOK, BoardType, ThreadType, LinkType
<1>8. CASE PollWaits(t)
  <2>1. pc' \in [Thread -> At] BY <1>8, AtOf DEF PollWaits
  <2>2. BoardType' BY <1>8, <2>1 DEF PollWaits, TypeOK, BoardType
  <2>3. ThreadType'
    <3>1. tries[t] - 1 \in 0..Polls BY <1>8 DEF PollWaits, Sends
    <3> QED BY <1>8, <2>1, <3>1 DEF PollWaits, TypeOK, ThreadType
  <2>4. LinkType' BY <1>8, <2>1 DEF PollWaits, TypeOK, LinkType
  <2> QED BY <2>2, <2>3, <2>4 DEF TypeOK, BoardType, ThreadType, LinkType
<1>9. CASE PollEnds(t)
  <2>1. pc' \in [Thread -> At] BY <1>9, AtOf DEF PollEnds, Go
  <2> QED BY <1>9, <2>1 DEF PollEnds
<1>10. CASE Clear(t)
  <2>1. pc' \in [Thread -> At] BY <1>10, AtOf DEF Clear, Go
  <2>2. BoardType' BY <1>10, <2>1 DEF Clear, TypeOK, BoardType
  <2>3. ThreadType' BY <1>10, <2>1 DEF Clear, TypeOK, ThreadType
  <2>4. LinkType' BY <1>10, <2>1 DEF Clear, TypeOK, LinkType
  <2> QED BY <2>2, <2>3, <2>4 DEF TypeOK, BoardType, ThreadType, LinkType
<1> QED
   BY <1>1, <1>2, <1>3, <1>4, <1>5, <1>6, <1>7, <1>8, <1>9, <1>10 DEF SendControl

LEMMA WorkTypes ==
  ASSUME TypeOK, Sends, Work
  PROVE  TypeOK'
<1> USE DEF memory, codecs, link, gui, thread
<1>1. CASE SendControl("worker") BY <1>1, SendTypes DEF Thread
<1>2. CASE Recv("worker")
  <2>1. Head(inbox) \in Command /\ inbox' \in Seq(Command)
     BY <1>2, TakenOff DEF Recv, TypeOK
  <2>2. pc' \in [Thread -> At] BY <1>2, AtOf DEF Recv, TypeOK
  <2>3. BoardType' BY <1>2, <2>1, <2>2 DEF Recv, TypeOK, BoardType
  <2>4. ThreadType' BY <1>2, <2>1, <2>2 DEF Recv, TypeOK, ThreadType
  <2>5. LinkType' BY <1>2, <2>1, <2>2 DEF Recv, TypeOK, LinkType
  <2> QED BY <2>3, <2>4, <2>5 DEF TypeOK, BoardType, ThreadType, LinkType
<1>3. CASE Codec("worker")
  <2>1. PICK result \in BOOLEAN : /\ ok' = [ok EXCEPT !["worker"] = result]
                                  /\ CodecInit(result) \/ CodecShutdown(result)
     BY <1>3 DEF Codec, CodecResult
  <2>2. pc' \in [Thread -> At] BY <1>3, AtOf DEF Codec, Go, TypeOK
  <2>3. powered' \in {"none", "some", "all"} /\ flagged' \in BOOLEAN BY <2>1, CodecTypes
  <2>4. BoardType' BY <1>3, <2>1, <2>2, <2>3 DEF Codec, TypeOK, BoardType
  <2>5. ThreadType' BY <1>3, <2>1, <2>2, <2>3 DEF Codec, TypeOK, ThreadType
  <2>6. LinkType' BY <1>3, <2>1, <2>2, <2>3 DEF Codec, TypeOK, LinkType
  <2> QED BY <2>4, <2>5, <2>6 DEF TypeOK, BoardType, ThreadType, LinkType
<1>4. CASE Reply("worker")
  <2>1. replies' \in Seq({"OK", "ERROR"}) BY <1>4 DEF Reply, TypeOK
  <2>2. pc' \in [Thread -> At] BY <1>4, AtOf DEF Reply, TypeOK
  <2> QED BY <1>4, <2>1, <2>2 DEF Reply, TypeOK
<1>5. CASE CliStart
  <2>1. PICK result \in BOOLEAN : CodecInit(result) /\ pc' \in [Thread -> At]
     BY <1>5, AtOf DEF CliStart, CodecResult, TypeOK
  <2>2. powered' \in {"none", "some", "all"} /\ flagged' \in BOOLEAN BY <2>1, CodecTypes
  <2> QED BY <1>5, <2>1, <2>2, SigchainAssumption DEF CliStart, TypeOK, Command, Control
<1>6. CASE CliStop
  <2>1. pc' \in [Thread -> At] BY <1>6, AtOf DEF CliStop, Go, TypeOK
  <2>2. BoardType' BY <1>6, <2>1, SigchainAssumption DEF CliStop, Command, Control, TypeOK, BoardType
  <2>3. ThreadType' BY <1>6, <2>1, SigchainAssumption DEF CliStop, Command, Control, TypeOK, ThreadType
  <2>4. LinkType' BY <1>6, <2>1, SigchainAssumption DEF CliStop, Command, Control, TypeOK, LinkType
  <2> QED BY <2>2, <2>3, <2>4 DEF TypeOK, BoardType, ThreadType, LinkType
<1>7. CASE CliDone
  <2>1. /\ UNCHANGED codecs \/ \E result \in BOOLEAN : CodecShutdown(result)
        /\ pc' \in [Thread -> At]
     BY <1>7, AtOf DEF CliDone, CodecResult, TypeOK
  <2>2. powered' \in {"none", "some", "all"} /\ flagged' \in BOOLEAN
     BY <2>1, CodecTypes DEF TypeOK
  <2> QED BY <1>7, <2>1, <2>2 DEF CliDone, TypeOK
<1>8. CASE CliFinish
  <2>1. pc' \in [Thread -> At] BY <1>8, AtOf DEF CliFinish, Thread
  <2> QED BY <1>8, <2>1 DEF CliFinish, TypeOK
<1> QED BY <1>1, <1>2, <1>3, <1>4, <1>5, <1>6, <1>7, <1>8 DEF Work

LEMMA CleanTypes ==
  ASSUME TypeOK, Sends, Clean
  PROVE  TypeOK'
<1> USE DEF memory, codecs, link, gui, thread
<1>1. CASE SendControl("cleaner") BY <1>1, SendTypes DEF Thread
<1>2. CASE Caught
  <2>1. pc' \in [Thread -> At] BY <1>2, AtOf DEF Caught, Go, TypeOK
  <2> QED BY <1>2, <2>1 DEF Caught, TypeOK
<1>3. CASE Check
  <2>1. pc' \in [Thread -> At] BY <1>3, AtOf DEF Check, Go, TypeOK, Command, Control
  <2>2. BoardType' BY <1>3, <2>1 DEF Check, Command, Control, TypeOK, BoardType
  <2>3. ThreadType' BY <1>3, <2>1 DEF Check, Command, Control, TypeOK, ThreadType
  <2>4. LinkType' BY <1>3, <2>1 DEF Check, Command, Control, TypeOK, LinkType
  <2> QED BY <2>2, <2>3, <2>4 DEF TypeOK, BoardType, ThreadType, LinkType
<1>4. CASE StopSent
  <2>1. pc' \in [Thread -> At] BY <1>4, AtOf DEF StopSent, Go, TypeOK
  <2> QED BY <1>4, <2>1 DEF StopSent, TypeOK
<1>5. CASE ShutCodecs
  <2>1. PICK result \in BOOLEAN : CodecShutdown(result)
     BY <1>5 DEF ShutCodecs, CodecResult
  <2>2. pc' \in [Thread -> At] BY <1>5, AtOf DEF ShutCodecs, Go, TypeOK
  <2>3. powered' \in {"none", "some", "all"} /\ flagged' \in BOOLEAN BY <2>1, CodecTypes
  <2> QED BY <1>5, <2>2, <2>3 DEF ShutCodecs, TypeOK
<1>6. CASE CloseSockets
  <2>1. pc' \in [Thread -> At] BY <1>6, AtOf DEF CloseSockets, Go, TypeOK
  <2>2. BoardType' BY <1>6, <2>1 DEF CloseSockets, TypeOK, BoardType
  <2>3. ThreadType' BY <1>6, <2>1 DEF CloseSockets, TypeOK, ThreadType
  <2>4. LinkType' BY <1>6, <2>1 DEF CloseSockets, TypeOK, LinkType
  <2> QED BY <2>2, <2>3, <2>4 DEF TypeOK, BoardType, ThreadType, LinkType
<1>7. CASE Destroy
  <2>1. pc' \in [Thread -> At] BY <1>7, AtOf DEF Destroy, Go, TypeOK
  <2>2. BoardType' BY <1>7, <2>1 DEF Destroy, TypeOK, BoardType
  <2>3. ThreadType' BY <1>7, <2>1 DEF Destroy, TypeOK, ThreadType
  <2>4. LinkType' BY <1>7, <2>1 DEF Destroy, TypeOK, LinkType
  <2> QED BY <2>2, <2>3, <2>4 DEF TypeOK, BoardType, ThreadType, LinkType
<1>8. CASE Restore
  <2>1. pc' \in [Thread -> At] BY <1>8, AtOf DEF Restore, Go, TypeOK
  <2>2. BoardType' BY <1>8, <2>1 DEF Restore, TypeOK, BoardType
  <2>3. ThreadType' BY <1>8, <2>1 DEF Restore, TypeOK, ThreadType
  <2>4. LinkType' BY <1>8, <2>1 DEF Restore, TypeOK, LinkType
  <2> QED BY <2>2, <2>3, <2>4 DEF TypeOK, BoardType, ThreadType, LinkType
<1>9. CASE RestoreFails
  <2>1. pc' \in [Thread -> At] BY <1>9, AtOf DEF RestoreFails, Go, TypeOK
  <2>2. BoardType' BY <1>9, <2>1 DEF RestoreFails, TypeOK, BoardType
  <2>3. ThreadType' BY <1>9, <2>1 DEF RestoreFails, TypeOK, ThreadType
  <2>4. LinkType' BY <1>9, <2>1 DEF RestoreFails, TypeOK, LinkType
  <2> QED BY <2>2, <2>3, <2>4 DEF TypeOK, BoardType, ThreadType, LinkType
<1> QED BY <1>1, <1>2, <1>3, <1>4, <1>5, <1>6, <1>7, <1>8, <1>9 DEF Clean

LEMMA SendGui ==
  ASSUME TypeOK, NEW c \in Command, NEW to, GuiSend(c, to)
  PROVE  gpc' = to /\ inbox' \in Seq(Command)
BY DEF GuiSend, TypeOK

\* What the GUI does when a call is over.
LEMMA GoesOn ==
  ASSUME TypeOK, NEW result \in BOOLEAN, GuiGoesOn(result)
  PROVE  \/ gpc' = "idle" /\ inbox' = inbox /\ gpc \notin {"leaving", "parting"}
         \/ result /\ gpc = "stopping" /\ GuiSend("CODEC_SHUTDOWN", "shutting")
         \/ result /\ gpc = "powering" /\ GuiSend("START", "starting")
         \/ gpc = "leaving" /\ GuiSend("CODEC_SHUTDOWN", "parting")
         \/ gpc = "parting" /\ gpc' = "gone" /\ inbox' = inbox
<1>1. CASE gpc = "leaving" BY <1>1 DEF GuiGoesOn
<1>2. CASE gpc = "parting" BY <1>2 DEF GuiGoesOn
<1>3. CASE gpc = "stopping" BY <1>3 DEF GuiGoesOn
<1>4. CASE gpc = "powering" BY <1>4 DEF GuiGoesOn
<1>5. CASE gpc \notin {"leaving", "parting", "stopping", "powering"} BY <1>5 DEF GuiGoesOn
<1> QED BY <1>1, <1>2, <1>3, <1>4, <1>5

LEMMA GoesOnTypes ==
  ASSUME TypeOK, NEW result \in BOOLEAN, GuiGoesOn(result)
  PROVE  /\ gpc' \in {"idle", "shutting", "starting", "parting", "gone"}
         /\ inbox' \in Seq(Command)
BY GoesOn, SendGui DEF TypeOK, Command, Control

LEMMA Types == TypeOK /\ Sends /\ [Next]_vars => TypeOK'
<1> SUFFICES ASSUME TypeOK, Sends, [Next]_vars PROVE TypeOK'
   OBVIOUS
<1> USE AtOf DEF memory, codecs, link, gui, thread
<1>1. CASE C7x BY <1>1 DEF C7x, TypeOK, Expected
<1>2. CASE Signal
  <2>1. pc' \in [Thread -> At] BY <1>2, AtOf DEF Signal, TypeOK
  <2> QED BY <1>2, <2>1 DEF Signal, TypeOK
<1>3. CASE Toggle
  <2>1. gpc' \in {"stopping", "powering"} /\ inbox' \in Seq(Command)
     BY <1>3, SendGui DEF Toggle, Command, Control
  <2> QED BY <1>3, <2>1, SigchainAssumption DEF Toggle, TypeOK
<1>4. CASE GuiReads
  <2>1. replies' \in Seq({"OK", "ERROR"}) BY <1>4, TakenOff DEF GuiReads, TypeOK
  <2>2. PICK result \in BOOLEAN : GuiGoesOn(result) BY <1>4 DEF GuiReads
  <2> QED BY <1>4, <2>1, <2>2, GoesOnTypes DEF GuiReads, TypeOK
<1>5. CASE GuiSeesEof \/ GuiTimesOut
  <2>1. GuiGoesOn(FALSE) BY <1>5 DEF GuiSeesEof, GuiTimesOut
  <2>2. /\ gpc' \in {"idle", "shutting", "starting", "parting", "gone"}
        /\ inbox' \in Seq(Command)
     BY <2>1, GoesOnTypes
  <2>3. UNCHANGED <<world, memory, codecs, thread, process, on, connected, replies, stats, toggles>>
     BY <1>5 DEF GuiSeesEof, GuiTimesOut
  <2> QED BY <2>2, <2>3 DEF TypeOK
<1>7. CASE GuiStats BY <1>7 DEF GuiStats, TypeOK
<1>8. CASE Quiet \/ UNCHANGED vars BY <1>8 DEF Quiet, vars, TypeOK
<1>9. CASE Leave
  <2>1. gpc' \in {"leaving", "gone"} /\ inbox' \in Seq(Command)
     BY <1>9, SendGui DEF Leave, Command, Control, TypeOK
  <2> QED BY <1>9, <2>1 DEF Leave, TypeOK
<1> QED
   BY <1>1, <1>2, <1>3, <1>4, <1>5, <1>7, <1>8, <1>9, WorkTypes, CleanTypes DEF Next, Gui

----------------------------------------------------------------------------
(* A thread that sends a command. *)

\* What a step of c7x_comm_send_control_command() changes, by where it is.
LEMMA SendMoves ==
  ASSUME TypeOK, NEW t \in Thread, SendControl(t)
  PROVE  /\ UNCHANGED <<world, running, mapped, fw, codecs, cur, on, link, gui>>
         /\ \A u \in Thread \ {t} : pc'[u] = pc[u] /\ tries'[u] = tries[u] /\ ok'[u] = ok[u]
         /\ pc[t] \in Sending /\ Runs(t)
         /\ \/ process' = process
            \/ process' = "killed" /\ ~mapped /\ pc[t] \in {"writing", "polling", "clearing"}
         /\ pc'[t] \in Sending \cup {"done"}
         /\ pc'[t] \in {"poll", "polling"} =>
              \/ pc[t] \in {"poll", "polling"} /\ tries'[t] = tries[t]
              \/ tries'[t] = Polls
              \/ pc[t] = "polling" /\ tries[t] # 1 /\ tries'[t] = tries[t] - 1
<1> USE DEF TypeOK, Go, Sending, Written, memory, codecs, thread, link, gui
<1>1. CASE Log(t) BY <1>1 DEF Log
<1>2. CASE Logged(t) BY <1>2 DEF Logged
<1>3. CASE SyncStart(t) BY <1>3 DEF SyncStart
<1>4. CASE SyncFails(t) BY <1>4 DEF SyncFails
<1>5. CASE Segfault(t) BY <1>5 DEF Segfault
<1>6. CASE Write(t) BY <1>6 DEF Write
<1>7. CASE WriteFails(t) BY <1>7 DEF WriteFails
<1>8. CASE PollWaits(t) BY <1>8 DEF PollWaits
<1>9. CASE PollEnds(t) BY <1>9 DEF PollEnds
<1>10. CASE Clear(t) BY <1>10 DEF Clear
<1> QED
   BY <1>1, <1>2, <1>3, <1>4, <1>5, <1>6, <1>7, <1>8, <1>9, <1>10 DEF SendControl

LEMMA SendsKept == TypeOK /\ Sends /\ [Next]_vars => Sends'
<1> SUFFICES ASSUME TypeOK, Sends, [Next]_vars PROVE Sends'
   OBVIOUS
<1> USE DEF Sends, Sending, Written
<1>1. ASSUME NEW t \in Thread, SendControl(t) PROVE Sends'
  <2>1. \A u \in Thread \ {t} : pc'[u] = pc[u] /\ tries'[u] = tries[u] /\ cur' = cur
     BY <1>1, SendMoves
  <2>2. pc[t] \in Sending /\ cur' = cur BY <1>1, SendMoves
  <2>3. pc'[t] \in {"poll", "polling"} => tries'[t] # 0
    <3>1. pc'[t] \in {"poll", "polling"} =>
            \/ pc[t] \in {"poll", "polling"} /\ tries'[t] = tries[t]
            \/ tries'[t] = Polls
            \/ tries[t] # 1 /\ tries'[t] = tries[t] - 1
       BY <1>1, SendMoves
    <3>2. tries[t] \in Nat /\ Polls # 0 BY SigchainAssumption DEF TypeOK
    <3>3. pc[t] \in {"poll", "polling"} => tries[t] # 0 OBVIOUS
    <3> QED BY <3>1, <3>2, <3>3
  <2> QED BY <2>1, <2>2, <2>3
<1>2. CASE Recv("worker") BY <1>2 DEF Recv, TypeOK, Thread
<1>3. CASE Codec("worker") BY <1>3 DEF Codec, Go, TypeOK, Thread
<1>4. CASE Reply("worker") BY <1>4 DEF Reply, TypeOK, Thread
<1>5. CASE CliStart BY <1>5 DEF CliStart, TypeOK, Thread, Control
<1>6. CASE CliStop BY <1>6 DEF CliStop, Go, TypeOK, Thread, Control
<1>7. CASE CliDone BY <1>7 DEF CliDone, TypeOK, Thread
<1>8. CASE CliFinish BY <1>8 DEF CliFinish, Thread
<1>9. CASE Caught \/ StopSent \/ ShutCodecs \/ CloseSockets \/ Destroy \/ Restore \/ RestoreFails
   BY <1>9 DEF Caught, StopSent, ShutCodecs, CloseSockets, Destroy, Restore, RestoreFails, Go, TypeOK, Thread
<1>10. CASE Check BY <1>10 DEF Check, Go, TypeOK, Thread, Control
<1>11. CASE Signal BY <1>11 DEF Signal, TypeOK, Thread
<1>12. CASE UNCHANGED thread BY <1>12 DEF thread
<1> QED
   BY <1>1, <1>2, <1>3, <1>4, <1>5, <1>6, <1>7, <1>8, <1>9, <1>10, <1>11, <1>12
   DEF Next, Work, Clean, Gui, C7x, Toggle, Leave, GuiReads, GuiSeesEof, GuiTimesOut, GuiStats,
       Quiet, vars, thread, Thread

----------------------------------------------------------------------------
(* Tearing down. *)

LEMMA TornKept == TypeOK /\ Sends /\ Torn /\ [Next]_vars => Torn'
<1> SUFFICES ASSUME TypeOK, Sends, Torn, [Next]_vars PROVE Torn'
   OBVIOUS
<1> USE DEF Torn, Up, Mode, Faults, DiesOnlyInCommand
<1>1. CASE SendControl("worker")
  <2>1. /\ UNCHANGED <<world, mapped, fw, on, connected>> /\ pc'["cleaner"] = pc["cleaner"]
        /\ \/ process' = process
           \/ process' = "killed" /\ ~mapped /\ pc["worker"] \in {"writing", "polling", "clearing"}
        /\ pc'["worker"] \in Sending \cup {"done"} /\ Runs("worker")
     BY <1>1, SendMoves DEF Thread, link
  <2>2. pc'["worker"] \notin {"none", "caught", "check", "codecs", "close", "destroy", "restore"}
     BY <2>1 DEF Sending, Written
  <2>3. process = "up" /\ (Mode = "cli" => Up) BY <2>1 DEF Runs
  <2>4. CASE process' = process BY <2>1, <2>2, <2>3, <2>4
  <2>5. CASE process' # process
    <3>1. pc' = pc
       BY <1>1, <2>5 DEF SendControl, Log, Logged, SyncStart, SyncFails, Segfault, Write,
                         WriteFails, PollWaits, PollEnds, Clear, thread
    <3>2. pc["cleaner"] = "restore" BY <2>1, <2>3, <2>5
    <3>3. Mode = "client" BY <2>3, <3>2, SigchainAssumption DEF TypeOK
    <3> QED BY <2>1, <2>2, <2>5, <3>1, <3>2, <3>3
  <2> QED BY <2>4, <2>5
<1>2. CASE SendControl("cleaner")
  <2>1. /\ UNCHANGED <<world, mapped, fw, on, connected>> /\ pc'["worker"] = pc["worker"]
        /\ process' = process \/ ~mapped
        /\ pc["cleaner"] \in Sending /\ pc'["cleaner"] \in Sending \cup {"done"}
        /\ process = "up"
     BY <1>2, SendMoves DEF Thread, link, Runs
  <2>2. /\ mapped /\ ~Up' /\ ~Up /\ process' = process
        /\ pc'["cleaner"] # "over"
     BY <2>1 DEF Sending, Written
  <2> QED BY <2>1, <2>2
<1>3. CASE Recv("worker") BY <1>3 DEF Recv, TypeOK, Thread, memory
<1>4. CASE Codec("worker") BY <1>4 DEF Codec, Go, TypeOK, Thread, memory, link
<1>5. CASE Reply("worker") BY <1>5 DEF Reply, TypeOK, Thread, memory
<1>6. CASE CliStart BY <1>6 DEF CliStart, TypeOK, Thread, memory, link
<1>7. CASE CliStop BY <1>7 DEF CliStop, Go, TypeOK, Thread, memory, link
<1>8. CASE CliDone BY <1>8 DEF CliDone, TypeOK, Thread, memory, link
<1>9. CASE CliFinish BY <1>9 DEF CliFinish, Runs, Thread, memory, link
<1>10. CASE Caught \/ StopSent \/ ShutCodecs
   BY <1>10 DEF Caught, StopSent, ShutCodecs, Go, TypeOK, Thread, memory, link
<1>11. CASE Check BY <1>11 DEF Check, Go, TypeOK, Thread, memory, link
<1>12. CASE CloseSockets BY <1>12 DEF CloseSockets, Go, TypeOK, Thread, memory, link
<1>13. CASE Destroy BY <1>13 DEF Destroy, Go, TypeOK, Thread, memory, link
<1>14. CASE Restore BY <1>14 DEF Restore, Go, TypeOK, Thread, memory, link
<1>17. CASE RestoreFails BY <1>17 DEF RestoreFails, Go, TypeOK, Thread, memory, link
<1>15. CASE Signal BY <1>15 DEF Signal, TypeOK, Thread, memory, link
<1>16. CASE UNCHANGED <<world, mapped, fw, process, on, connected, pc>> BY <1>16
<1> QED
   BY <1>1, <1>2, <1>3, <1>4, <1>5, <1>6, <1>7, <1>8, <1>9, <1>10, <1>11, <1>12, <1>13,
      <1>14, <1>15, <1>16, <1>17
   DEF Next, Work, Clean, Gui, C7x, Toggle, Leave, GuiReads, GuiSeesEof, GuiTimesOut, GuiStats,
       Quiet, vars, thread, Thread, memory, link

----------------------------------------------------------------------------
(* The shared word. *)

\* The steps of main and of the handler leave the worker's part alone, and
\* what is said of it holds only until they begin.
LEMMA CleanMoves ==
  ASSUME TypeOK, Torn, Sends, Clean
  PROVE  /\ ~Up /\ ~Up' /\ UNCHANGED <<world, inbox, replies, gui>>
         /\ pc'["worker"] = pc["worker"] /\ cur'["worker"] = cur["worker"]
<1> USE DEF Up, TypeOK, Thread, Go, link
<1>1. CASE SendControl("cleaner") BY <1>1, SendMoves DEF Sending, Written
<1>2. CASE Caught \/ StopSent \/ ShutCodecs \/ CloseSockets \/ Destroy \/ Restore \/ RestoreFails
   BY <1>2 DEF Caught, StopSent, ShutCodecs, CloseSockets, Destroy, Restore, RestoreFails
<1>3. CASE Check BY <1>3 DEF Check
<1> QED BY <1>1, <1>2, <1>3 DEF Clean

LEMMA SentKept == TypeOK /\ Sends /\ Torn /\ Sent /\ [Next]_vars => Sent'
<1> SUFFICES ASSUME TypeOK, Sends, Torn, Sent, [Next]_vars PROVE Sent'
   OBVIOUS
<1> USE DEF Sent, Written, Seen
<1>1. CASE SendControl("worker")
  <2>1. /\ UNCHANGED <<world, running, cur>> /\ pc["worker"] \in Sending
        /\ pc'["cleaner"] = pc["cleaner"] /\ pc'["worker"] \notin {"recv", "codec"}
        /\ cur["worker"] \in Control
     BY <1>1, SendMoves DEF Thread, Sends, Sending
  <2> USE DEF TypeOK, Go, Sending, memory, codecs, Thread, Faults, Up, Mode
  <2>2. CASE Log("worker") BY <2>1, <2>2 DEF Log
  <2>3. CASE Logged("worker") BY <2>1, <2>3 DEF Logged
  <2>4. CASE SyncStart("worker") BY <2>1, <2>4 DEF SyncStart
  <2>5. CASE SyncFails("worker") BY <2>1, <2>5 DEF SyncFails, Torn
  <2>6. CASE Segfault("worker") BY <2>1, <2>6 DEF Segfault, thread
  <2>7. CASE Write("worker") BY <2>1, <2>7 DEF Write
  <2>8. CASE WriteFails("worker") BY <2>1, <2>8 DEF WriteFails
  <2>9. CASE PollWaits("worker") BY <2>1, <2>9 DEF PollWaits
  <2>10. CASE PollEnds("worker") BY <2>1, <2>10 DEF PollEnds
  <2>11. CASE Clear("worker") BY <2>1, <2>11 DEF Clear
  <2> QED
     BY <1>1, <2>2, <2>3, <2>4, <2>5, <2>6, <2>7, <2>8, <2>9, <2>10, <2>11 DEF SendControl
<1> USE DEF Thread, TypeOK, Up, Mode, Faults, memory
<1>2. CASE Recv("worker")
   BY <1>2 DEF Recv
<1>3. CASE Codec("worker") BY <1>3 DEF Codec, Go
<1>4. CASE Reply("worker") BY <1>4 DEF Reply
<1>5. CASE CliStart BY <1>5 DEF CliStart, Control
<1>6. CASE CliStop BY <1>6 DEF CliStop, Go, Control
<1>7. CASE CliDone BY <1>7 DEF CliDone
<1>8. CASE CliFinish BY <1>8 DEF CliFinish
<1>9. CASE Clean BY <1>9, CleanMoves
<1>10. CASE Signal BY <1>10 DEF Signal
<1>11. CASE C7x
  <2>1. command \in Control /\ running # Expected(command) /\ "NO_CHANGE" \notin Control
     BY <1>11 DEF C7x, Control
  <2> QED BY <1>11, <2>1 DEF C7x, thread
<1>12. CASE UNCHANGED <<world, memory, thread>> BY <1>12 DEF thread
<1> QED
   BY <1>1, <1>2, <1>3, <1>4, <1>5, <1>6, <1>7, <1>8, <1>9, <1>10, <1>11, <1>12
   DEF Next, Work, Gui, Toggle, Leave, GuiReads, GuiSeesEof, GuiTimesOut, GuiStats, Quiet, vars

----------------------------------------------------------------------------
(* The dialogue. *)

\* What recv() can take when one message has arrived.
LEMMA OneArrived ==
  ASSUME NEW S, NEW e \in S, NEW k \in 1..Len(<<e>>)
  PROVE  k = 1 /\ Head(<<e>>) = e /\ SubSeq(<<e>>, k + 1, Len(<<e>>)) = <<>>
OBVIOUS

LEMMA DialogueKept == TypeOK /\ Sends /\ Torn /\ Sent /\ Dialogue /\ [Next]_vars => Dialogue'
<1> SUFFICES ASSUME TypeOK, Sends, Torn, Sent, Dialogue, [Next]_vars PROVE Dialogue'
   OBVIOUS
<1> USE DEF Dialogue, Mode, Faults, Up, Thread, Left
<1>1. CASE SendControl("worker")
  <2>1. /\ UNCHANGED <<world, gpc, inbox, replies, cur>> /\ pc'["cleaner"] = pc["cleaner"]
        /\ pc["worker"] # "recv" /\ pc'["worker"] # "recv"
     BY <1>1, SendMoves DEF link, gui, Sending, Written
  <2> QED BY <2>1 DEF Asked
<1>2. CASE Recv("worker")
  <2>1. inbox # <<>> BY <1>2 DEF Recv, TypeOK
  <2>2. /\ UNCHANGED <<world, gpc, replies>> /\ pc'["cleaner"] = pc["cleaner"]
        /\ pc["worker"] = "recv" /\ pc'["worker"] # "recv" /\ cur'["worker"] = Head(inbox)
        /\ \E k \in 1..Len(inbox) : inbox' = SubSeq(inbox, k + 1, Len(inbox))
     BY <1>2 DEF Recv, TypeOK, gui
  <2>3. CASE inbox = <<Asked>>
    <3>1. inbox' = <<>> /\ cur'["worker"] = Asked BY <2>2, <2>3, OneArrived
    <3>2. Asked' = Asked BY <2>2 DEF Asked
    <3> QED BY <2>1, <2>2, <3>1, <3>2
  <2>4. CASE inbox # <<Asked>> BY <2>1, <2>2, <2>4
  <2> QED BY <2>3, <2>4
<1>3. CASE Codec("worker")
  <2>1. /\ UNCHANGED <<world, gpc, inbox, replies, cur>> /\ pc'["cleaner"] = pc["cleaner"]
        /\ pc["worker"] # "recv" /\ pc'["worker"] # "recv"
     BY <1>3 DEF Codec, Go, link, gui, TypeOK
  <2> QED BY <2>1 DEF Asked
<1>4. CASE Reply("worker")
  <2>1. /\ UNCHANGED <<world, gpc, inbox, cur, ok>> /\ pc'["cleaner"] = pc["cleaner"]
        /\ pc["worker"] # "recv" /\ Mode = "client"
        /\ Up => on /\ connected /\ pc'["worker"] = "recv"
        /\ Up => replies' = Append(replies, IF ok["worker"] THEN "OK" ELSE "ERROR")
     BY <1>4 DEF Reply, Torn, gui, TypeOK
  <2>2. Append(<<>>, IF ok["worker"] THEN "OK" ELSE "ERROR") = <<IF ok["worker"] THEN "OK" ELSE "ERROR">>
     OBVIOUS
  <2> QED BY <2>1, <2>2 DEF Asked
<1>5. CASE CliStart \/ CliStop \/ CliDone \/ CliFinish
   BY <1>5 DEF CliStart, CliStop, CliDone, CliFinish, Go, link, gui
<1>6. CASE Clean BY <1>6, CleanMoves DEF gui
<1>7. CASE Signal BY <1>7 DEF Signal, TypeOK, link, gui
<1>8. CASE Toggle
  <2>1. PICK c \in Command, to \in {"stopping", "powering"} :
          /\ GuiSend(c, to) /\ c = (IF to = "stopping" THEN "STOP" ELSE "CODEC_INIT")
     BY <1>8 DEF Toggle, Command, Control
  <2>2. gpc' = to /\ Asked' = c BY <2>1 DEF GuiSend, Asked
  <2>3. /\ gpc = "idle" /\ Mode = "client" /\ UNCHANGED <<world, pc, replies>>
     BY <1>8 DEF Toggle, thread
  <2>4. Up => inbox' = Append(inbox, c) BY <2>1 DEF GuiSend, Receiving, Torn
  <2>5. Append(<<>>, c) = <<c>> OBVIOUS
  <2> QED BY <2>1, <2>2, <2>3, <2>4, <2>5
<1>9. CASE GuiReads
  <2>1. /\ gpc # "idle" /\ replies # <<>> /\ UNCHANGED <<world, pc, cur, ok>>
        /\ \E k \in 1..Len(replies) : replies' = SubSeq(replies, k + 1, Len(replies))
     BY <1>9 DEF GuiReads, Waits, thread
  <2>4. PICK result \in BOOLEAN : GuiGoesOn(result) BY <1>9 DEF GuiReads
  <2>5. \/ gpc' = "idle" /\ inbox' = inbox /\ ~Left
        \/ gpc = "stopping" /\ GuiSend("CODEC_SHUTDOWN", "shutting")
        \/ gpc = "powering" /\ GuiSend("START", "starting")
        \/ Left'
     BY <1>9, <2>4, GoesOn DEF Left, GuiSend, GuiReads, Waits
  <2>2. CASE Mode = "client" /\ Up /\ "timeout" \notin Faults /\ ~Left /\ ~Left'
    <3>1. pc["worker"] = "recv" /\ inbox = <<>> /\ replies' = <<>>
       BY <2>1, <2>2, OneArrived
    <3>2. Receiving BY <2>2 DEF Receiving, Torn
    <3>3. Append(<<>>, "CODEC_SHUTDOWN") = <<"CODEC_SHUTDOWN">> /\ Append(<<>>, "START") = <<"START">>
       OBVIOUS
    <3>4. \/ gpc' = "idle" /\ inbox' = <<>>
          \/ gpc' # "idle" /\ inbox' = <<Asked'>>
       BY <2>2, <2>5, <3>1, <3>2, <3>3 DEF GuiSend, Asked
    <3> QED BY <2>1, <2>2, <3>1, <3>4
  <2>3. CASE Mode = "cli" BY <2>1, <2>3
  <2>6. Left => Left' BY <1>9, <2>4, GoesOn DEF Left, GuiSend, GuiReads, Waits
  <2>7. Mode \in {"client", "cli"} BY SigchainAssumption DEF TypeOK
  <2> QED BY <2>1, <2>2, <2>3, <2>6, <2>7
<1>10. CASE GuiSeesEof
  <2>1. Mode = "client" /\ Up => FALSE BY <1>10 DEF GuiSeesEof, Receiving, Torn
  <2> QED BY <1>10, <2>1, SigchainAssumption DEF GuiSeesEof, Waits, thread, link, TypeOK
<1>11. CASE GuiTimesOut
   BY <1>11, SigchainAssumption DEF GuiTimesOut, Waits, thread, link, TypeOK
<1>13. CASE Leave
   BY <1>13, SigchainAssumption DEF Leave, GuiSend, Left, thread, link, TypeOK
<1>12. CASE UNCHANGED <<world, pc, cur, ok, gpc, inbox, replies>> BY <1>12 DEF Asked
<1> QED
   BY <1>1, <1>2, <1>3, <1>4, <1>5, <1>6, <1>7, <1>8, <1>9, <1>10, <1>11, <1>12, <1>13
   DEF Next, Work, Gui, C7x, GuiStats, Quiet, vars, thread, link, gui

----------------------------------------------------------------------------
(* The codecs. *)

Taken ==
  \/ inbox' = inbox
  \/ \E k \in 1..Len(inbox) : inbox' = SubSeq(inbox, k + 1, Len(inbox))

\* No step but the GUI's own puts a command under way.
LEMMA QueuedBefore ==
  ASSUME TypeOK, NEW c, Taken, Queued(c)'
  PROVE  Queued(c)
<1>1. CASE inbox' = inbox BY <1>1 DEF Queued
<1>2. CASE inbox' # inbox
  <2>1. PICK k \in 1..Len(inbox) : inbox' = SubSeq(inbox, k + 1, Len(inbox)) BY <1>2 DEF Taken
  <2>2. PICK i \in DOMAIN inbox' : inbox'[i] = c BY DEF Queued
  <2>3. i + k \in DOMAIN inbox /\ inbox[i + k] = c BY <2>1, <2>2 DEF TypeOK
  <2> QED BY <2>3 DEF Queued
<1> QED BY <1>1, <1>2

LEMMA NothingNew ==
  ASSUME TypeOK, NEW c, Taken,
         \/ pc'["worker"] = "recv"
         \/ pc["worker"] # "recv" /\ cur'["worker"] = cur["worker"]
         \/ pc["worker"] = "recv" /\ inbox # <<>> /\ cur'["worker"] = Head(inbox),
         UnderWay(c)'
  PROVE  UnderWay(c)
<1>1. CASE Queued(c)' BY <1>1, QueuedBefore DEF UnderWay
<1>2. CASE pc'["worker"] # "recv" /\ cur'["worker"] = c
  <2>1. CASE pc["worker"] = "recv" /\ inbox # <<>> /\ cur'["worker"] = Head(inbox)
    <3>1. Len(inbox) # 0 /\ Len(inbox) \in Nat /\ Head(inbox) = inbox[1] BY <2>1 DEF TypeOK
    <3>2. 1 \in DOMAIN inbox BY <3>1 DEF TypeOK
    <3> QED BY <1>2, <2>1, <3>1, <3>2 DEF UnderWay, Queued
  <2> QED BY <1>2, <2>1 DEF UnderWay
<1> QED BY <1>1, <1>2 DEF UnderWay

\* What a command that is sent adds.
LEMMA OneQueued ==
  ASSUME TypeOK, NEW c, NEW d \in Command, NEW to, GuiSend(d, to), Queued(c)'
  PROVE  Queued(c) \/ c = d
<1>1. PICK i \in DOMAIN inbox' : inbox'[i] = c BY DEF Queued
<1>2. (i \in DOMAIN inbox /\ inbox[i] = c) \/ c = d BY <1>1 DEF GuiSend, TypeOK
<1> QED BY <1>2 DEF Queued

LEMMA OneNew ==
  ASSUME TypeOK, NEW c, NEW d \in Command, NEW to, GuiSend(d, to),
         UNCHANGED <<pc, cur>>, UnderWay(c)'
  PROVE  UnderWay(c) \/ c = d
BY OneQueued DEF UnderWay

\* A GUI that has left does not come back.
LEMMA LeftStays ==
  ASSUME TypeOK, [Next]_vars, Left
  PROVE  Left'
<1>1. CASE Work \/ Clean
  <2>1. gpc' = gpc
     BY <1>1
     DEF Work, Clean, SendControl, Log, Logged, SyncStart, SyncFails, Segfault, Write, WriteFails,
         PollWaits, PollEnds, Clear, Recv, Codec, Reply, CliStart, CliStop, CliDone, CliFinish,
         Caught, Check, StopSent, ShutCodecs, CloseSockets, Destroy, Restore, RestoreFails, gui
  <2> QED BY <2>1 DEF Left
<1>2. CASE GuiReads \/ GuiSeesEof \/ GuiTimesOut
  <2>1. PICK result \in BOOLEAN : GuiGoesOn(result)
     BY <1>2 DEF GuiReads, GuiSeesEof, GuiTimesOut
  <2> QED BY <1>2, <2>1, GoesOn DEF Left, GuiSend, GuiReads, GuiSeesEof, GuiTimesOut, Waits
<1>3. CASE Toggle \/ Leave BY <1>3 DEF Toggle, Leave, Left
<1>4. CASE C7x \/ Signal \/ GuiStats \/ Quiet \/ UNCHANGED vars
   BY <1>4 DEF C7x, Signal, GuiStats, Quiet, vars, gui, Left
<1> QED BY <1>1, <1>2, <1>3, <1>4 DEF Next, Gui

\* What has not begun to be torn down had not begun before.
LEMMA UpBefore ==
  ASSUME TypeOK, Sends, Torn, [Next]_vars, Up'
  PROVE  world' = world /\ Up
<1>1. CASE Clean BY <1>1, CleanMoves
<1>2. CASE SendControl("worker") BY <1>2, SendMoves DEF Up, Thread
<1>3. CASE Recv("worker") \/ Codec("worker") \/ Reply("worker")
   BY <1>3 DEF Recv, Codec, Reply, Go, TypeOK, Up, Thread
<1>4. CASE CliStart \/ CliStop \/ CliDone \/ CliFinish
   BY <1>4 DEF CliStart, CliStop, CliDone, CliFinish, Go, TypeOK, Up, Thread
<1>5. CASE C7x \/ Toggle \/ Leave \/ Gui \/ GuiTimesOut \/ GuiStats \/ Quiet \/ UNCHANGED vars
   BY <1>5 DEF C7x, Toggle, Leave, Gui, GuiReads, GuiSeesEof, GuiTimesOut, GuiStats, Quiet, vars,
               thread, Up
<1>6. CASE Signal BY <1>6 DEF Signal, TypeOK, Up, Thread
<1> QED BY <1>1, <1>2, <1>3, <1>4, <1>5, <1>6 DEF Next, Work

LEMMA EntersLeft ==
  ASSUME TypeOK, [Next]_vars, ~Left, ~Leave
  PROVE  ~Left'
<1>1. CASE Work \/ Clean
  <2>1. gpc' = gpc
     BY <1>1
     DEF Work, Clean, SendControl, Log, Logged, SyncStart, SyncFails, Segfault, Write, WriteFails,
         PollWaits, PollEnds, Clear, Recv, Codec, Reply, CliStart, CliStop, CliDone, CliFinish,
         Caught, Check, StopSent, ShutCodecs, CloseSockets, Destroy, Restore, RestoreFails, gui
  <2> QED BY <2>1 DEF Left
<1>2. CASE GuiReads \/ GuiSeesEof \/ GuiTimesOut
  <2>1. PICK result \in BOOLEAN : GuiGoesOn(result)
     BY <1>2 DEF GuiReads, GuiSeesEof, GuiTimesOut
  <2> QED BY <1>2, <2>1, GoesOn DEF Left, GuiSend
<1>3. CASE Toggle BY <1>3 DEF Toggle, GuiSend, Left
<1>4. CASE C7x \/ Signal \/ GuiStats \/ Quiet \/ UNCHANGED vars
   BY <1>4 DEF C7x, Signal, GuiStats, Quiet, vars, gui, Left
<1> QED BY <1>1, <1>2, <1>3, <1>4 DEF Next, Gui

\* A STOP whose execution is over has been written or done.
LEMMA StopTells ==
  ASSUME TypeOK, Sends, Torn, Sent, Up, "sync" \notin Faults, SendControl("worker"),
         cur["worker"] = "STOP"
  PROVE  (pc'["worker"] = "done" => Told') /\ (Told => Told')
<1> USE DEF TypeOK, Go, Thread, memory, Told
<1>1. mapped /\ running' = running BY SendMoves DEF Torn, Up
<1>2. /\ pc["worker"] \in Written => command = "STOP"
      /\ pc["worker"] \in Seen => ~running
   BY DEF Sent, Expected
<1> USE DEF Written, Seen
<1>3. CASE Log("worker") BY <1>1, <1>3 DEF Log
<1>4. CASE Logged("worker") BY <1>1, <1>4 DEF Logged
<1>5. CASE SyncStart("worker") BY <1>1, <1>5 DEF SyncStart
<1>6. CASE SyncFails("worker") BY <1>1, <1>6 DEF SyncFails
<1>7. CASE Segfault("worker") BY <1>1, <1>7 DEF Segfault
<1>8. CASE Write("worker") BY <1>1, <1>8 DEF Write
<1>9. CASE WriteFails("worker") BY <1>9 DEF WriteFails
<1>10. CASE PollWaits("worker") BY <1>1, <1>2, <1>10 DEF PollWaits
<1>11. CASE PollEnds("worker") BY <1>1, <1>11 DEF PollEnds
<1>12. CASE Clear("worker") BY <1>1, <1>2, <1>12 DEF Clear
<1> QED
   BY <1>3, <1>4, <1>5, <1>6, <1>7, <1>8, <1>9, <1>10, <1>11, <1>12 DEF SendControl

LEMMA StaysKept ==
  ASSUME TypeOK, Sends, Torn, Sent, Sent', Dialogue, Powered, [Next]_vars,
         Up', (Faults \cap {"timeout", "sync"} = {})', ~Left'
  PROVE  Stays'
<1> SUFFICES /\ Starts' => powered' = "all"
             /\ gpc' = "shutting" => Stopped'
             /\ Answered' /\ gpc' = "powering" => powered' = "all"
             /\ Answered' /\ gpc' = "stopping" => Stopped'
             /\ Done' /\ gpc' = "stopping" => Told'
   BY DEF Stays
<1>1. world' = world /\ Up BY UpBefore
<1>2. "timeout" \notin Faults /\ "sync" \notin Faults BY <1>1 DEF Faults
<1>19. ~Left BY LeftStays
<1>3. /\ Starts => powered = "all"
      /\ gpc = "shutting" => Stopped
      /\ Answered /\ gpc = "powering" => powered = "all"
      /\ Answered /\ gpc = "stopping" => Stopped
      /\ Done /\ gpc = "stopping" => Told
   BY <1>1, <1>2, <1>19 DEF Powered, Stays, Faults
\* What the dialogue says, in both modes.
<1>4. /\ Mode = "cli" => gpc = "idle" /\ replies = <<>>
      /\ gpc = "idle" => replies = <<>> /\ inbox = <<>>
      /\ gpc = "idle" /\ Mode = "client" => pc["worker"] = "recv"
      /\ pc["worker"] # "recv" => replies = <<>> /\ (gpc # "idle" => cur["worker"] = Asked)
      /\ replies = <<>> \/ replies = <<IF ok["worker"] THEN "OK" ELSE "ERROR">>
      /\ replies = <<>> \/ pc["worker"] = "recv"
      /\ inbox = <<>> \/ inbox = <<Asked>>
      /\ inbox # <<>> => replies = <<>> /\ gpc # "idle"
   BY <1>1, <1>2, <1>19, SigchainAssumption DEF Dialogue, Mode, TypeOK
<1>20. Queued("START") => gpc = "starting"
  <2> SUFFICES ASSUME Queued("START") PROVE gpc = "starting"
     OBVIOUS
  <2>1. inbox = <<Asked>> /\ gpc # "idle" BY <1>4 DEF Queued
  <2>2. Asked = "START" BY <2>1 DEF Queued
  <2> QED BY <1>19, <2>1, <2>2 DEF Asked, Left, TypeOK
<1>5. Mode \in {"client", "cli"} BY SigchainAssumption DEF TypeOK, Mode
\* What the steps leave queued.
<1>21. inbox' = inbox => (Queued("START")' <=> Queued("START")) BY DEF Queued
<1> DEFINE w == "worker"
<1>6. CASE SendControl("worker")
  <2>1. /\ UNCHANGED <<running, powered, cur, gpc, replies, inbox>>
        /\ pc[w] \in Sending /\ pc'[w] \in Sending \cup {"done"}
     BY <1>6, SendMoves DEF Thread, codecs, link, gui
  <2>2. cur[w] \in Control BY <2>1 DEF Sends, Thread
  <2>3. gpc \in {"idle", "stopping", "starting"} /\ (gpc = "stopping" => cur[w] = "STOP")
     BY <1>4, <1>19, <2>1, <2>2 DEF Asked, Sending, Written, Control, TypeOK, Left
  <2>4. command' \in {command, cur[w], "NO_CHANGE"}
     BY <1>6
     DEF SendControl, Log, Logged, SyncStart, SyncFails, Segfault, Write, WriteFails, PollWaits,
         PollEnds, Clear, memory
  <2>5. Starts' => Starts BY <1>21, <2>1, <2>4 DEF Starts
  <2>6. replies' = <<>> BY <1>4, <2>1 DEF Sending, Written
  <2>7. Answered' /\ gpc' = "stopping" => Stopped'
    <3> SUFFICES ASSUME Answered', gpc' = "stopping" PROVE Stopped'
       OBVIOUS
    <3>1. pc'[w] = "done" /\ ok'[w] /\ cur'[w] = "STOP" BY <2>1, <2>3, <2>6 DEF Answered, Done
    <3> QED BY <1>1, <1>2, <3>1 DEF Sent, Faults, Stopped, Expected, Control
  <2>8. Done' /\ gpc' = "stopping" => Told'
     BY <1>1, <1>2, <1>6, <2>1, <2>3, <2>6, StopTells DEF Done
  <2>9. ~Answered' \/ gpc' # "powering" BY <2>1, <2>3
  <2> QED BY <1>3, <2>1, <2>3, <2>5, <2>7, <2>8, <2>9
<1>7. CASE Recv("worker")
  <2>1. /\ UNCHANGED <<running, command, powered, ok, gpc, replies>>
        /\ pc'[w] # "done" /\ cur'[w] = Head(inbox) /\ inbox # <<>> /\ Taken
     BY <1>7 DEF Recv, memory, codecs, gui, TypeOK, Thread, Taken
  <2>2. cur'[w] = Asked /\ replies' = <<>> BY <1>4, <2>1
  <2>3. cur'[w] = "START" => gpc = "starting" BY <1>19, <2>2 DEF Asked, TypeOK, Left
  <2>5. Queued("START")' => Queued("START") BY <2>1, QueuedBefore
  <2>4. Starts' => Starts BY <2>1, <2>3, <2>5 DEF Starts
  <2> QED BY <1>3, <2>1, <2>2, <2>4 DEF Answered, Done, Stopped
<1>8. CASE Codec("worker")
  <2>1. /\ UNCHANGED <<running, command, cur, gpc, replies, inbox>> /\ pc[w] = "codec" /\ pc'[w] = "done"
     BY <1>8 DEF Codec, Go, memory, link, gui, TypeOK, Thread
  <2>2. PICK result \in BOOLEAN :
          /\ ok' = [ok EXCEPT ![w] = result]
          /\ IF cur[w] = "CODEC_INIT" THEN CodecInit(result) ELSE CodecShutdown(result)
     BY <1>8 DEF Codec, CodecResult
  <2>3. cur[w] = Asked /\ gpc \in {"shutting", "powering"} /\ Mode = "client"
    <3>1. Mode = "client" BY <1>5, <2>1 DEF Sent
    <3>2. cur[w] = Asked /\ cur[w] \notin Control BY <1>4, <2>1, <3>1 DEF Sent
    <3>3. gpc # "idle" BY <1>4, <2>1, <3>1
    <3> QED BY <1>19, <3>1, <3>2, <3>3 DEF Asked, Control, TypeOK, Left
  <2>4. CASE gpc = "powering"
    <3>1. CodecInit(result) BY <2>2, <2>3, <2>4 DEF Asked
    <3>2. powered = "all" \/ result => powered' = "all" BY <3>1 DEF CodecInit
    <3>3. ok'[w] = result BY <2>2 DEF TypeOK, Thread
    <3>4. Starts' => Starts BY <1>21, <2>1 DEF Starts, Sending, Written
    <3>5. Answered' => result BY <3>3 DEF Answered
    <3> QED BY <1>3, <2>1, <2>4, <3>2, <3>4, <3>5
  <2>5. CASE gpc = "shutting"
    <3>1. Stopped /\ Stopped' BY <1>3, <2>1, <2>5 DEF Stopped
    <3>2. ~Starts' BY <1>20, <1>21, <2>1, <2>5, <3>1 DEF Starts, Stopped, Sending, Written
    <3> QED BY <2>1, <2>5, <3>1, <3>2
  <2> QED BY <2>3, <2>4, <2>5
<1>9. CASE Reply("worker")
  <2>1. /\ UNCHANGED <<running, command, powered, cur, ok, gpc, inbox>>
        /\ pc[w] = "done" /\ pc'[w] \in {"recv", "over"}
     BY <1>9 DEF Reply, memory, codecs, gui, TypeOK, Thread
  <2>2. (Answered' => Answered) /\ Done BY <2>1 DEF Answered, Done
  <2>3. Starts' => Starts BY <1>21, <2>1 DEF Starts, Sending, Written
  <2> QED BY <1>3, <2>1, <2>2, <2>3 DEF Stopped, Told
<1>10. CASE CliStart
  <2>1. /\ UNCHANGED <<running, command, gpc, inbox>> /\ Mode = "cli"
     BY <1>10 DEF CliStart, memory, link
  <2>2. PICK result \in BOOLEAN :
          CodecInit(result) /\ pc'[w] = (IF result THEN "log" ELSE "finish")
     BY <1>10 DEF CliStart, CodecResult, TypeOK, Thread
  <2>3. powered = "all" \/ result => powered' = "all" BY <2>2 DEF CodecInit
  <2>4. Starts' => Starts \/ result BY <1>21, <2>1, <2>2 DEF Starts, Sending, Written
  <2> QED BY <1>3, <1>4, <2>1, <2>3, <2>4
<1>11. CASE CliStop
  <2>1. /\ UNCHANGED <<running, command, powered, gpc, inbox>> /\ Mode = "cli" /\ cur'[w] = "STOP"
     BY <1>11 DEF CliStop, memory, codecs, link, TypeOK, Thread
  <2> QED BY <1>3, <1>4, <1>21, <2>1 DEF Starts
<1>12. CASE CliDone
  <2>1. /\ UNCHANGED <<running, command, gpc, cur, inbox>> /\ Mode = "cli" /\ pc[w] = "done"
        /\ \E to \in {"next", "finish"} : pc' = [pc EXCEPT ![w] = to]
     BY <1>12 DEF CliDone, memory, gui, link
  <2>4. pc'[w] \in {"next", "finish"} BY <2>1 DEF TypeOK, Thread
  <2>2. CASE ok[w] /\ cur[w] = "STOP"
    <3>1. Stopped BY <1>1, <1>2, <2>1, <2>2 DEF Sent, Stopped, Expected, Control
    <3> QED BY <1>4, <1>20, <1>21, <2>1, <2>4, <3>1 DEF Starts, Stopped, Sending, Written
  <2>3. CASE ~(ok[w] /\ cur[w] = "STOP")
    <3>1. powered' = powered BY <1>12, <2>3 DEF CliDone, codecs
    <3> QED BY <1>3, <1>4, <1>21, <2>1, <2>4, <3>1 DEF Starts, Sending, Written
  <2> QED BY <2>2, <2>3
<1>13. CASE Clean \/ Signal \/ CliFinish
   BY <1>13, CleanMoves DEF Signal, CliFinish, TypeOK, Thread, Up
<1>14. CASE C7x
  <2>1. /\ UNCHANGED <<command, powered, pc, cur, ok, gpc, replies, inbox>> /\ ~Stopped
        /\ running' => command = "START"
     BY <1>14 DEF C7x, codecs, thread, gui, link, Stopped, Control, Expected
  <2>2. Starts' => Starts BY <1>21, <2>1 DEF Starts
  <2>3. (Answered' => Answered) /\ (Done' => Done) BY <2>1 DEF Answered, Done
  <2>4. Told => Told' BY <2>1 DEF Told
  <2> QED BY <1>3, <2>1, <2>2, <2>3, <2>4
<1>15. CASE Toggle
  <2>1. /\ UNCHANGED <<running, command, powered, pc, cur, replies>> /\ gpc = "idle"
        /\ Mode = "client" /\ gpc' \in {"stopping", "powering"}
     BY <1>15 DEF Toggle, GuiSend, memory, codecs, thread
  <2>2. PICK c \in {"STOP", "CODEC_INIT"}, to \in {"stopping", "powering"} : GuiSend(c, to)
     BY <1>15 DEF Toggle
  <2>3. Queued("START")' => Queued("START") BY <2>2, OneQueued DEF Command, Control
  <2>4. Starts' => Starts BY <2>1, <2>3 DEF Starts
  <2>5. ~Done' BY <1>4, <2>1 DEF Done
  <2> QED BY <1>3, <2>1, <2>4, <2>5 DEF Answered
<1>16. CASE GuiReads
  <2>1. /\ UNCHANGED <<running, command, powered, pc, cur, ok>>
        /\ gpc # "idle" /\ replies # <<>>
     BY <1>16 DEF GuiReads, Waits, memory, codecs, thread
  <2>2. PICK k \in 1..Len(replies) :
          /\ replies' = SubSeq(replies, k + 1, Len(replies))
          /\ GuiGoesOn(k = 1 /\ Head(replies) = "OK")
     BY <1>16 DEF GuiReads
  <2>3. replies' = <<>> /\ pc[w] = "recv" BY <1>4, <2>1, <2>2, OneArrived
  <2>4. Head(replies) = "OK" => Answered BY <1>4, <2>1 DEF Answered, Done
  <2>5. ~Done' BY <2>1, <2>3 DEF Done
  <2>6. PICK result \in BOOLEAN : GuiGoesOn(result) /\ (result => Answered) BY <2>2, <2>4
  <2>7. CASE gpc' = "idle" /\ inbox' = inbox
     BY <1>3, <1>21, <2>1, <2>5, <2>7 DEF Starts, Answered
  <2>8. CASE result /\ gpc = "stopping" /\ GuiSend("CODEC_SHUTDOWN", "shutting")
    <3>1. Queued("START")' => Queued("START") BY <2>8, OneQueued DEF Command
    <3>2. Starts' => Starts BY <2>1, <2>8, <3>1 DEF Starts, GuiSend
    <3>3. Stopped' BY <1>3, <2>1, <2>6, <2>8 DEF Stopped
    <3> QED BY <1>3, <2>1, <2>5, <2>8, <3>2, <3>3 DEF Answered, GuiSend
  <2>9. CASE result /\ gpc = "powering" /\ GuiSend("START", "starting")
     BY <1>3, <2>1, <2>5, <2>6, <2>9 DEF Answered, GuiSend
  <2> QED BY <1>19, <2>6, <2>7, <2>8, <2>9, GoesOn DEF Left
<1>17. CASE GuiSeesEof \/ GuiTimesOut
   BY <1>1, <1>2, <1>5, <1>4, <1>17 DEF GuiSeesEof, GuiTimesOut, Waits, Receiving, Torn
<1>18. CASE UNCHANGED <<running, command, powered, pc, cur, ok, gpc, replies, inbox>>
   BY <1>3, <1>18, <1>21 DEF Starts, Answered, Done, Stopped, Told
<1>22. CASE Leave BY <1>22 DEF Leave, GuiSend, Left
<1> QED
   BY <1>6, <1>7, <1>8, <1>9, <1>10, <1>11, <1>12, <1>13, <1>14, <1>15, <1>16, <1>17, <1>18, <1>22
   DEF Next, Work, Gui, GuiStats, Quiet, vars, memory, codecs, thread, link, gui

\* It goes: what it leaves under way.
LEMMA LeaveKept ==
  ASSUME TypeOK, Torn, Dialogue, Stays, Leave, ~Left, Up, "timeout" \notin Faults
  PROVE  /\ gpc' = "leaving" => Leaving'
         /\ gpc' = "gone" => Gone'
         /\ gpc' \in {"leaving", "gone"}
<1>1. /\ UNCHANGED <<running, command, powered, pc, cur, ok, replies>> /\ Mode = "client"
   BY DEF Leave, memory, codecs, thread
<1>2. /\ gpc = "idle" => pc["worker"] = "recv" /\ inbox = <<>> /\ replies = <<>>
      /\ gpc # "idle" => inbox = <<>> \/ (inbox = <<Asked>> /\ pc["worker"] = "recv")
      /\ gpc # "idle" /\ pc["worker"] # "recv" => cur["worker"] = Asked
  <2>1. \/ gpc = "idle" /\ pc["worker"] = "recv" /\ inbox = <<>> /\ replies = <<>>
        \/ gpc # "idle" /\ pc["worker"] = "recv" /\ inbox = <<Asked>>
        \/ gpc # "idle" /\ pc["worker"] # "recv" /\ cur["worker"] = Asked /\ inbox = <<>>
        \/ gpc # "idle" /\ pc["worker"] = "recv" /\ inbox = <<>>
     BY <1>1 DEF Dialogue
  <2> QED BY <2>1
<1>3. ASSUME NEW c, UnderWay(c) PROVE gpc # "idle" /\ c = Asked
   BY <1>2, <1>3 DEF UnderWay, Queued
<1>4. ASSUME Queued("CODEC_SHUTDOWN")
      PROVE  inbox = <<"CODEC_SHUTDOWN">> /\ pc["worker"] = "recv" /\ gpc = "shutting"
  <2>1. inbox = <<Asked>> /\ pc["worker"] = "recv" BY <1>2, <1>4 DEF Queued
  <2>2. Asked = "CODEC_SHUTDOWN" BY <1>4, <2>1 DEF Queued
  <2> QED BY <2>1, <2>2 DEF Asked, Left, TypeOK
<1>5. CASE DemoSeen
  <2>1. GuiSend("STOP", "leaving") /\ gpc' = "leaving" BY <1>5 DEF Leave, GuiSend
  <2>2. gpc \in {"idle", "stopping", "shutting"} BY <1>5 DEF DemoSeen
  <2>3. ASSUME NEW c \in Command, UnderWay(c)'
        PROVE  c = "STOP" \/ (c = "CODEC_SHUTDOWN" /\ gpc = "shutting")
    <3>1. UnderWay(c) \/ c = "STOP" BY <1>1, <2>1, <2>3, OneNew DEF Command, Control
    <3> QED BY <1>3, <2>2, <3>1 DEF Asked
  <2>4. OnlyStops' BY <2>3 DEF OnlyStops
  <2>5. Starts' => Starts
    <3>1. ~Queued("START")' BY <2>3 DEF UnderWay, Command, Control
    <3> QED BY <1>1, <2>1, <3>1 DEF Starts
  <2>6. UnderWay("CODEC_SHUTDOWN")' => Stopped'
    <3>1. UnderWay("CODEC_SHUTDOWN")' => gpc = "shutting" BY <2>3 DEF Command
    <3> QED BY <1>1, <3>1 DEF Stays, Stopped
  <2>7. ASSUME NEW i \in DOMAIN inbox', inbox'[i] = "CODEC_SHUTDOWN"
        PROVE  i = 1 /\ pc'["worker"] = "recv"
    <3>1. inbox' = Append(inbox, "STOP") \/ inbox' = inbox BY <2>1 DEF GuiSend
    <3>2. i \in DOMAIN inbox /\ inbox[i] = "CODEC_SHUTDOWN"
      <4>1. CASE inbox' = inbox BY <2>7, <4>1
      <4>2. CASE inbox' = Append(inbox, "STOP")
        <5>1. inbox \in Seq(Command) BY DEF TypeOK
        <5>2. i \in DOMAIN Append(inbox, "STOP") /\ Append(inbox, "STOP")[i] = "CODEC_SHUTDOWN"
           BY <2>7, <4>2
        <5> QED BY <5>1, <5>2
      <4> QED BY <3>1, <4>1, <4>2
    <3>3. Queued("CODEC_SHUTDOWN") BY <3>2 DEF Queued
    <3>4. inbox = <<"CODEC_SHUTDOWN">> /\ pc["worker"] = "recv" BY <1>4, <3>3
    <3> QED BY <1>1, <3>2, <3>4
  <2>8. Done' => Told'
    <3>1. Done => gpc # "idle" BY <1>2 DEF Done
    <3> QED BY <1>1, <2>2, <3>1 DEF Done, Stays, Stopped, Told
  <2> QED BY <1>1, <2>1, <2>4, <2>5, <2>6, <2>7, <2>8 DEF Leaving, Stays
<1>6. CASE ~DemoSeen
  <2>1. gpc' = "gone" /\ inbox' = inbox BY <1>6 DEF Leave
  <2>2. gpc \notin {"stopping", "shutting"} BY <1>6 DEF DemoSeen
  <2>3. ~UnderWay("CODEC_SHUTDOWN")' 
    <3>1. ~UnderWay("CODEC_SHUTDOWN") BY <1>3, <2>2 DEF Asked, Left, TypeOK
    <3> QED BY <1>1, <2>1, <3>1 DEF UnderWay, Queued
  <2>4. Starts' => Starts BY <1>1, <2>1 DEF Starts, Queued
  <2> QED BY <1>1, <2>1, <2>3, <2>4 DEF Gone, Stays
<1> QED BY <1>5, <1>6

\* What the worker does when the GUI has left or is leaving.
LEMMA LeftWorkKept ==
  ASSUME TypeOK, Sends, Torn, Sent, Sent', Left, Up, Work, Mode = "client", "sync" \notin Faults
  PROVE  /\ Leaving => Leaving'
         /\ Parted => Parted'
         /\ Gone => Gone'
<1> DEFINE w == "worker"
<1>1. CASE SendControl("worker")
  <2>1. /\ UNCHANGED <<running, powered, cur, gpc, replies, inbox>>
        /\ pc[w] \in Sending /\ pc'[w] \in Sending \cup {"done"}
     BY <1>1, SendMoves DEF Thread, codecs, link, gui
  <2>2. cur[w] \in Control BY <2>1 DEF Sends, Thread
  <2>3. \A c : UnderWay(c)' => UnderWay(c) BY <2>1 DEF UnderWay, Queued, Sending, Written
  <2>4. command' \in {command, cur[w], "NO_CHANGE"}
     BY <1>1
     DEF SendControl, Log, Logged, SyncStart, SyncFails, Segfault, Write, WriteFails, PollWaits,
         PollEnds, Clear, memory
  <2>5. Starts' => Starts BY <2>1, <2>4 DEF Starts, Queued
  <2>6. UnderWay(cur[w]) BY <2>1 DEF UnderWay, Sending, Written
  <2>7. OnlyStops => OnlyStops' /\ cur[w] = "STOP"
     BY <2>2, <2>3, <2>6 DEF OnlyStops, Control, Command
  <2>8. OnlyStops => (pc'[w] = "done" => Told') /\ (Told => Told') BY <1>1, <2>7, StopTells
  <2>9. Leaving => Leaving'
    <3> SUFFICES ASSUME Leaving PROVE Leaving'
       OBVIOUS
    <3>1. ~Queued("CODEC_SHUTDOWN") /\ ~UnderWay("CODEC_SHUTDOWN")
       BY <2>1, <2>7 DEF Leaving, Queued, UnderWay, Sending, Written
    <3>2. ~UnderWay("CODEC_SHUTDOWN")' BY <2>3, <3>1
    <3>3. Done' => Told' BY <2>1, <2>8 DEF Leaving, Done
    <3>4. \A i \in DOMAIN inbox' : inbox'[i] # "CODEC_SHUTDOWN" BY <2>1, <3>1 DEF Queued
    <3> QED BY <2>1, <2>5, <2>7, <3>2, <3>3, <3>4 DEF Leaving
  <2>10. Parted => Parted' BY <2>7, <2>8 DEF Parted
  <2>11. Gone => Gone' BY <2>1, <2>3, <2>5 DEF Gone
  <2> QED BY <2>9, <2>10, <2>11
<1>2. CASE Recv("worker")
  <2>1. /\ UNCHANGED <<running, command, powered, ok, gpc, replies>>
        /\ pc[w] = "recv" /\ pc'[w] \notin {"done", "recv"} /\ cur'[w] = Head(inbox) /\ inbox # <<>>
        /\ \E k \in 1..Len(inbox) : inbox' = SubSeq(inbox, k + 1, Len(inbox))
     BY <1>2 DEF Recv, memory, codecs, gui, TypeOK, Thread
  <2>2. \A c : UnderWay(c)' => UnderWay(c) BY <2>1, NothingNew DEF Taken
  <2>3. Queued("START")' => Queued("START") BY <2>1, QueuedBefore DEF Taken
  <2>4. cur'[w] = "START" => Queued("START")
    <3>1. Len(inbox) # 0 /\ Len(inbox) \in Nat /\ Head(inbox) = inbox[1] BY <2>1 DEF TypeOK
    <3>2. 1 \in DOMAIN inbox BY <3>1 DEF TypeOK
    <3> QED BY <2>1, <3>1, <3>2 DEF Queued
  <2>5. Starts' => Starts BY <2>1, <2>3, <2>4 DEF Starts
  <2>6. Leaving => Leaving'
    <3> SUFFICES ASSUME Leaving PROVE Leaving'
       OBVIOUS
    <3>1. \A i \in DOMAIN inbox' : inbox'[i] # "CODEC_SHUTDOWN"
      <4>1. PICK k \in 1..Len(inbox) : inbox' = SubSeq(inbox, k + 1, Len(inbox)) BY <2>1
      <4> SUFFICES ASSUME NEW i \in DOMAIN inbox', inbox'[i] = "CODEC_SHUTDOWN" PROVE FALSE
         OBVIOUS
      <4>2. i + k \in DOMAIN inbox /\ inbox[i + k] = "CODEC_SHUTDOWN" /\ i + k # 1
         BY <4>1 DEF TypeOK
      <4> QED BY <4>2 DEF Leaving
    <3>2. OnlyStops' BY <2>2 DEF Leaving, OnlyStops
    <3> QED BY <2>1, <2>2, <2>5, <3>1, <3>2 DEF Leaving, Done, Told, Stopped
  <2>7. Parted => Parted' BY <2>1, <2>2 DEF Parted, OnlyStops, Told
  <2>8. Gone => Gone' BY <2>1, <2>2, <2>5 DEF Gone
  <2> QED BY <2>6, <2>7, <2>8
<1>3. CASE Codec("worker")
  <2>1. /\ UNCHANGED <<running, command, cur, gpc, replies, inbox>>
        /\ pc[w] = "codec" /\ pc'[w] = "done"
     BY <1>3 DEF Codec, Go, memory, link, gui, TypeOK, Thread
  <2>2. PICK result \in BOOLEAN :
          IF cur[w] = "CODEC_INIT" THEN CodecInit(result) ELSE CodecShutdown(result)
     BY <1>3 DEF Codec, CodecResult
  <2>3. \A c : UnderWay(c)' => UnderWay(c) BY <2>1 DEF UnderWay, Queued
  <2>4. Starts' => Starts BY <2>1 DEF Starts, Queued, Sending, Written
  <2>5. cur[w] \in {"CODEC_INIT", "CODEC_SHUTDOWN"} /\ UnderWay(cur[w])
     BY <2>1 DEF Sent, UnderWay, Command, TypeOK, Thread
  <2>6. Leaving => Leaving'
    <3> SUFFICES ASSUME Leaving PROVE Leaving'
       OBVIOUS
    <3>1. cur[w] = "CODEC_SHUTDOWN" /\ Stopped BY <2>5 DEF Leaving, OnlyStops, Command
    <3>2. ~Queued("START") /\ ~UnderWay("START") BY DEF Leaving, OnlyStops, UnderWay, Command, Control
    <3>3. ~Starts' BY <2>1, <3>1, <3>2 DEF Starts, Stopped, Queued, Sending, Written, Left
    <3>4. Stopped' /\ Told' BY <2>1, <3>1 DEF Stopped, Told
    <3>5. OnlyStops' BY <2>3 DEF Leaving, OnlyStops
    <3>6. \A i \in DOMAIN inbox' : inbox'[i] # "CODEC_SHUTDOWN" BY <2>1 DEF Leaving
    <3> QED BY <3>3, <3>4, <3>5, <3>6 DEF Leaving
  <2>7. Parted => Parted' BY <2>1, <2>3 DEF Parted, OnlyStops, Told
  <2>8. Gone => Gone'
    <3> SUFFICES ASSUME Gone PROVE Gone'
       OBVIOUS
    <3>1. CodecInit(result) BY <2>2, <2>5 DEF Gone
    <3>2. powered = "all" => powered' = "all" BY <3>1 DEF CodecInit
    <3> QED BY <2>3, <2>4, <3>2 DEF Gone
  <2> QED BY <2>6, <2>7, <2>8
<1>4. CASE Reply("worker")
  <2>1. /\ UNCHANGED <<running, command, powered, cur, gpc, inbox>>
        /\ pc[w] = "done" /\ pc'[w] \in {"recv", "over"}
     BY <1>4 DEF Reply, memory, codecs, gui, TypeOK, Thread
  <2>2. \A c : UnderWay(c)' => UnderWay(c) BY <2>1 DEF UnderWay, Queued
  <2>3. Starts' => Starts BY <2>1 DEF Starts, Queued, Sending, Written
  <2>4. Leaving => Leaving'
    <3> SUFFICES ASSUME Leaving PROVE Leaving'
       OBVIOUS
    <3>1. Told' BY <2>1 DEF Leaving, Done, Told
    <3>2. \A i \in DOMAIN inbox' : inbox'[i] # "CODEC_SHUTDOWN" BY <2>1 DEF Leaving
    <3> QED BY <2>1, <2>2, <2>3, <3>1, <3>2 DEF Leaving, OnlyStops, Stopped
  <2>5. Parted => Parted' BY <2>1, <2>2 DEF Parted, OnlyStops, Told
  <2>6. Gone => Gone' BY <2>1, <2>2, <2>3 DEF Gone
  <2> QED BY <2>4, <2>5, <2>6
<1>5. CASE CliStart \/ CliStop \/ CliDone \/ CliFinish
   BY <1>5 DEF CliStart, CliStop, CliDone, CliFinish
<1> QED BY <1>1, <1>2, <1>3, <1>4, <1>5 DEF Work

\* It reads on, for the answer to its STOP and then to its shutdown.
LEMMA LeftReadsKept ==
  ASSUME TypeOK, GuiReads, Left,
         gpc = "leaving" => Leaving, gpc = "parting" => Parted
  PROVE  /\ gpc' = "parting" => Parted'
         /\ gpc' = "gone" => Parted'
         /\ gpc' \in {"parting", "gone"}
<1>1. /\ UNCHANGED <<running, command, powered, pc, cur, ok>> /\ replies # <<>>
      /\ gpc \in {"leaving", "parting"}
   BY DEF GuiReads, Waits, Left, memory, codecs, thread
<1>2. PICK result \in BOOLEAN : GuiGoesOn(result) BY DEF GuiReads
<1>3. CASE gpc = "leaving"
  <2>1. GuiSend("CODEC_SHUTDOWN", "parting") /\ gpc' = "parting" BY <1>2, <1>3, GoesOn DEF GuiSend
  <2>2. Told' BY <1>1, <1>3 DEF Leaving, Done, Told
  <2>3. ASSUME NEW c \in Command, UnderWay(c)' PROVE c \in {"STOP", "CODEC_SHUTDOWN"}
    <3>1. UnderWay(c) \/ c = "CODEC_SHUTDOWN" BY <1>1, <2>1, <2>3, OneNew DEF Command
    <3> QED BY <1>3, <3>1 DEF Leaving, OnlyStops
  <2> QED BY <2>1, <2>2, <2>3 DEF Parted, OnlyStops
<1>4. CASE gpc = "parting"
  <2>1. gpc' = "gone" /\ inbox' = inbox BY <1>2, <1>4, GoesOn
  <2> QED BY <1>1, <1>4, <2>1 DEF Parted, OnlyStops, Told, UnderWay, Queued
<1> QED BY <1>1, <1>3, <1>4

\* Steps that put no command under way and leave the worker alone.
LEMMA LeftElseKept ==
  ASSUME TypeOK, Left, C7x \/ UNCHANGED <<running, command, powered, pc, cur, gpc, inbox, replies>>
  PROVE  /\ gpc' = gpc
         /\ Leaving => Leaving'
         /\ Parted => Parted'
         /\ Gone => Gone'
<1>1. UNCHANGED <<command, powered, pc, cur, gpc, inbox, replies>>
   BY DEF C7x, codecs, thread, gui, link
<1>2. running' = running \/ (running' = Expected(command) /\ command \in Control)
   BY DEF C7x
<1>3. /\ \A c : UnderWay(c)' => UnderWay(c)
      /\ Starts' => Starts
  <2>1. \A c : Queued(c)' <=> Queued(c) BY <1>1 DEF Queued
  <2>2. \A c : UnderWay(c)' => UnderWay(c) BY <1>1, <2>1 DEF UnderWay
  <2>3. Starts' => Starts BY <1>1, <1>2, <2>1 DEF Starts, Expected
  <2> QED BY <2>2, <2>3
<1>4. (Stopped => Stopped') /\ (Told => Told')
   BY <1>1, <1>2 DEF Stopped, Told, Expected, Control
<1>5. OnlyStops => OnlyStops' BY <1>3 DEF OnlyStops
<1>6. Leaving => Leaving'
  <2> SUFFICES ASSUME Leaving PROVE Leaving'
     OBVIOUS
  <2>1. \A i \in DOMAIN inbox' : inbox'[i] = "CODEC_SHUTDOWN" => i = 1 /\ pc'["worker"] = "recv"
     BY <1>1 DEF Leaving
  <2>2. Done' => Done BY <1>1 DEF Done
  <2> QED BY <1>1, <1>3, <1>4, <1>5, <2>1, <2>2 DEF Leaving
<1> QED BY <1>1, <1>3, <1>4, <1>5, <1>6 DEF Parted, Gone

LEMMA PoweredKept ==
  TypeOK /\ Sends /\ Torn /\ Sent /\ Sent' /\ Dialogue /\ Powered /\ [Next]_vars => Powered'
<1> SUFFICES ASSUME TypeOK, Sends, Torn, Sent, Sent', Dialogue, Powered, [Next]_vars,
                    Up', (Faults \cap {"timeout", "sync"} = {})'
             PROVE  /\ ~Left' => Stays'
                    /\ gpc' = "leaving" => Leaving'
                    /\ gpc' = "parting" => Parted'
                    /\ gpc' = "gone" => Parted' \/ Gone'
   BY DEF Powered
<1>1. ~Left' => Stays' BY StaysKept
<1>2. world' = world /\ Up BY UpBefore
<1>3. "timeout" \notin Faults /\ "sync" \notin Faults BY <1>2 DEF Faults
<1>4. /\ ~Left => Stays
      /\ gpc = "leaving" => Leaving
      /\ gpc = "parting" => Parted
      /\ gpc = "gone" => Parted \/ Gone
   BY <1>2, <1>3 DEF Powered, Faults
<1>5. CASE ~Left
  <2>1. CASE Leave BY <1>2, <1>3, <1>4, <1>5, <2>1, LeaveKept DEF Left
  <2>2. CASE ~Leave
    <3>1. ~Left' BY <1>2, <1>5, <2>2, EntersLeft
    <3> QED BY <1>1, <3>1 DEF Left
  <2> QED BY <2>1, <2>2
<1>6. CASE Left
  <2>1. Mode = "client" BY <1>6, SigchainAssumption DEF Dialogue, Left, TypeOK, Mode
  <2>2. CASE Work
    <3>1. /\ Leaving => Leaving'
          /\ Parted => Parted'
          /\ Gone => Gone'
       BY <1>2, <1>3, <1>6, <2>1, <2>2, LeftWorkKept
    <3>2. gpc' = gpc
       BY <2>2 DEF Work, SendControl, Log, Logged, SyncStart, SyncFails, Segfault, Write, WriteFails,
         PollWaits, PollEnds, Clear, Recv, Codec, Reply, CliStart, CliStop, CliDone, CliFinish, gui
    <3> QED BY <1>4, <1>6, <3>1, <3>2 DEF Left
  <2>3. CASE GuiReads BY <1>4, <1>6, <2>3, LeftReadsKept DEF Left
  <2>4. CASE GuiSeesEof \/ GuiTimesOut
     BY <1>2, <1>3, <2>1, <2>4 DEF GuiSeesEof, GuiTimesOut, Receiving, Torn
  <2>5. CASE Clean \/ Signal \/ Toggle \/ Leave
    <3>1. ~Clean BY <1>2, CleanMoves
    <3>2. ~Signal BY DEF Signal, Up, TypeOK, Thread
    <3> QED BY <1>6, <2>5, <3>1, <3>2 DEF Toggle, Leave, Left
  <2>6. CASE C7x \/ UNCHANGED <<running, command, powered, pc, cur, gpc, inbox, replies>>
    <3>1. /\ gpc' = gpc
          /\ Leaving => Leaving'
          /\ Parted => Parted'
          /\ Gone => Gone'
       BY <1>6, <2>6, LeftElseKept
    <3> QED BY <1>4, <1>6, <3>1 DEF Left
  <2> QED
     BY <2>2, <2>3, <2>4, <2>5, <2>6
     DEF Next, Gui, GuiStats, Quiet, vars, memory, codecs, thread, link, gui
<1> QED BY <1>5, <1>6

----------------------------------------------------------------------------
LEMMA StartsSo == Init => IInv
<1> SUFFICES ASSUME Init PROVE IInv
   OBVIOUS
<1>1. TypeOK
  <2>1. pc \in [Thread -> At] /\ cur \in [Thread -> Command] BY DEF Init, Thread, At, Command, Control
  <2>2. BoardType BY DEF Init, BoardType
  <2>3. ThreadType BY <2>1, SigchainAssumption DEF Init, ThreadType
  <2>4. 0 \in 0..Toggles BY SigchainAssumption
  <2>5. <<>> \in Seq(Command) /\ <<>> \in Seq({"OK", "ERROR"}) OBVIOUS
  <2>6. LinkType BY <2>4, <2>5 DEF Init, LinkType
  <2> QED BY <2>2, <2>3, <2>6 DEF TypeOK, BoardType, ThreadType, LinkType
<1>2. Mode \in {"client", "cli"} BY SigchainAssumption DEF Init, Mode
<1>3. pc["worker"] = (IF Mode = "cli" THEN "next" ELSE "recv") /\ pc["cleaner"] = "none"
   BY DEF Init
<1>4. cur["worker"] = "STOP" /\ cur["cleaner"] = "STOP" BY DEF Init, Thread
<1>5. Sends BY <1>3 DEF Sends, Thread, Sending, Written
<1>6. Torn BY <1>3 DEF Init, Torn, Up, DiesOnlyInCommand
<1>7. Sent BY <1>3, <1>4 DEF Sent, Written, Seen, Control
<1>8. Dialogue BY <1>2, <1>3 DEF Init, Dialogue
<1>9. Powered BY <1>3 DEF Init, Powered, Stays, Left, Starts, Queued, Answered, Done, Sending, Written
<1> QED BY <1>1, <1>5, <1>6, <1>7, <1>8, <1>9 DEF IInv

LEMMA Inductive == IInv /\ [Next]_vars => IInv'
BY Types, SendsKept, TornKept, SentKept, DialogueKept, PoweredKept DEF IInv

LEMMA Invariant == Spec => []IInv
BY StartsSo, Inductive, PTL DEF Spec

\* Every variable keeps its type, whoever writes it.
THEOREM TypesHold == Spec => []TypeOK
<1>1. IInv => TypeOK BY DEF IInv
<1> QED BY <1>1, Invariant, PTL

\* An OK is given for what the C7x has done: only the thread that executes the
\* command writes the shared word, and the C7x changes the flag that it polls
\* only towards the command in it, of any number of commands and polls.
THEOREM OkIsDone == Spec => []OkMeansDone
<1>1. IInv => OkMeansDone BY DEF IInv, Sent, OkMeansDone, Up
<1> QED BY <1>1, Invariant, PTL

\* The GUI's order of commands and the code's order of answers keep the demo
\* on codecs that are on, for every number of commands that fail and wherever
\* the GUI leaves; a demo whose codecs it shut down in leaving has been told to
\* stop.
THEOREM CodecsFirst == Spec => []DemoNeedsCodecs
<1>1. IInv => DemoNeedsCodecs
   BY DEF IInv, Powered, Stays, Left, Leaving, Parted, Gone, Told, Starts, DemoNeedsCodecs, Up
<1> QED BY <1>1, Invariant, PTL

\* A GUI that waits for its answers finds no answer but its own.
THEOREM OneAnswerEach == Spec => []NoStaleReply
<1>1. IInv => NoStaleReply
  <2> SUFFICES ASSUME IInv, gpc = "idle", Faults \cap {"timeout", "signal"} = {}
               PROVE  replies = <<>> /\ inbox = <<>>
     BY DEF NoStaleReply
  <2>1. Mode \in {"client", "cli"} BY SigchainAssumption DEF IInv, TypeOK, Mode
  <2>2. "timeout" \notin Faults /\ "signal" \notin Faults OBVIOUS
  <2> QED BY <2>1, <2>2 DEF IInv, Dialogue, Torn, Left
<1> QED BY <1>1, Invariant, PTL

\* Only a command of the command thread, caught between its synchronisation and
\* its access, keeps cleanup() from getting to the switch of the firmware.
THEOREM OnlyACommandDies == Spec => []DiesOnlyInCommand
<1>1. IInv => DiesOnlyInCommand BY DEF IInv, Torn
<1> QED BY <1>1, Invariant, PTL

=============================================================================
