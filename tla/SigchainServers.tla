-------------------------- MODULE SigchainServers --------------------------
(***************************************************************************)
(* The life of rpmsg_sigchain_biquad_example around its commands           *)
(* (SigchainControl): the start-up with each way it fails, the three       *)
(* server threads with the connections they accept and close, a GUI that   *)
(* connects, leaves and comes back, and cleanup(), which main runs beside  *)
(* the threads.  They share numbers: the program keeps descriptors in      *)
(* variables, the kernel gives the lowest free number to whoever opens.    *)
(***************************************************************************)
EXTENDS Integers, Sequences, FiniteSets

CONSTANTS
  Top,      \* bound: highest descriptor number (0 is stdin; 1 and 2 left out)
  Pending,  \* connections a server has not accepted (listen(MAX_CLIENTS))
  Worlds    \* the modes the example is started in, how often the GUI connects
            \* (a bound), and what can go wrong

\* A step of the start-up, the creation of a server's socket, or a call of the
\* last firmware switch fails; a signal; a server is late to accept, so that
\* connections wait.
Fault == {"start", "socket", "switch", "signal", "late"}

ASSUME ServersAssumption ==
  /\ Top \in Nat /\ Pending \in Nat \ {0}
  /\ Worlds \subseteq [mode : {"client", "cli"}, sessions : Nat, faults : SUBSET Fault]

VARIABLES
  world,    \* the one of Worlds this run is in
  process,  \* "up", "killed", or how it exited: "early" without cleanup(), and
            \* otherwise "cleaned", or "failed" when a call of its switch did
  on,       \* application_running
  memory,   \* the shared buffer: memory_ptr is null, mapped or dangling
  fw,       \* what the C7x runs
  table,    \* the kernel: what each number is open for
  fd,       \* the program: the number each variable holds, or -1
  pc,       \* where main and each server thread are
  left,     \* what cleanup() has left to do
  waiting,  \* connections not accepted: whether the GUI is still there
  peer,     \* the same of the connection accepted last
  link,     \* the GUI: connected_log, connected_cmd, connected_stats
  gui,      \* what it does with them
  sessions, \* times that it has connected
  strays    \* ports, not the log's, that a log line was sent to while it ran

board == <<world, process, on, memory, fw>>
numbers == <<table, fd>>
wire == <<waiting, peer>>
host == <<link, gui, sessions>>
vars == <<board, numbers, pc, left, wire, host, strays>>

\* No arguments: "client"; commands as arguments: "cli".
Mode == world.mode
May(fault) == fault \in world.faults

Port == {"log", "cmd", "stats"}
Ports == <<"log", "cmd", "stats">>
Number == 0..Top

First(S) == CHOOSE p \in S : \A i \in 1..3 : Ports[i] \in S => \E j \in 1..i : Ports[j] = p

Listens(p) == CASE p = "log" -> "log server"
                [] p = "cmd" -> "cmd server"
                [] p = "stats" -> "stats server"
Server == {Listens(p) : p \in Port}
Variable == Port \cup Server \cup {"heap", "buf", "rproc", "ept", "state"}

\* The variables cleanup() closes, in its order: those of a port in one step.
Closes == <<{"log", "log server"}, {"cmd", "cmd server"}, {"stats", "stats server"},
            {"ept"}, {"buf", "rproc"}>>

\* The times that switch_firmware() opens the state file, to write it: before
\* that it opens it to read it, which fails in the same way.
Writes == <<"stop", "start">>

\* The buffer's descriptors are 0 until they are opened: {0} in C.
Init ==
  /\ world \in Worlds /\ process = "up" /\ on = TRUE
  /\ memory = "null" /\ fw = "base"
  /\ table = [n \in Number |-> IF n = 0 THEN "stdin" ELSE "free"]
  /\ fd = [v \in Variable |-> IF v \in {"buf", "rproc"} THEN 0 ELSE -1]
  /\ pc = [t \in Port \cup {"main"} |-> IF t = "main" THEN "find" ELSE "none"]
  /\ left = <<>>
  /\ waiting = [p \in Port |-> <<>>] /\ peer = [p \in Port |-> FALSE]
  /\ link = [p \in Port |-> FALSE] /\ gui = "idle" /\ sessions = 0
  /\ strays = {}

Go(t, from, to) ==
  /\ process = "up" /\ pc[t] = from
  /\ pc' = [pc EXCEPT ![t] = to]

\* open(), socket() or accept(): the lowest free number.
Opens(use, v) == \E n \in Number :
  /\ table[n] = "free" /\ \A m \in 0..(n - 1) : table[m] # "free"
  /\ table' = [table EXCEPT ![n] = use]
  /\ fd' = [fd EXCEPT ![v] = n]

\* close() of numbers, whoever they belong to; of one that is closed, EBADF.
Without(closed) == [n \in Number |-> IF n \in closed THEN "free" ELSE table[n]]

Is(v, use) == fd[v] \in Number /\ table[fd[v]] = use

----------------------------------------------------------------------------
(* main() and run_command_line_mode(): the start-up. *)

Exits(how) == process = "up" /\ process' = how

Find ==
  /\ \/ Go("main", "find", "switch") /\ UNCHANGED process
     \/ May("start") /\ Go("main", "find", "over") /\ Exits("early")
  /\ UNCHANGED <<world, on, memory, fw, numbers, left, wire, host, strays>>

\* switch_firmware(), in one step (FirmwareLoader has its steps).
Switch ==
  /\ \/ Go("main", "switch", "heap") /\ fw' = "sigchain" /\ UNCHANGED process
     \/ /\ May("start") /\ Go("main", "switch", "over") /\ Exits("early")
        /\ fw' \in {"base", "none"}
  /\ UNCHANGED <<world, on, memory, numbers, left, wire, host, strays>>

\* Mutant of Abandons: both modes return without cleanup().
AbandonsBoth(at) == May("start") /\ Go("main", at, "over") /\ Exits("early")

\* c7x_comm_init_communication() has failed: the client cleans up, the
\* command line does not.
Abandons(at) ==
  /\ May("start")
  /\ \/ Mode = "client" /\ Go("main", at, "cleanup") /\ UNCHANGED process
     \/ Mode = "cli" /\ Go("main", at, "over") /\ Exits("early")

\* dmabuf_heap_init(): the heap, which is never closed, the buffer, the
\* device.  A failure closes what was opened, and leaves the numbers.
Heap ==
  /\ \/ Go("main", "heap", "buf") /\ Opens("heap", "heap") /\ UNCHANGED process
     \/ Abandons("heap") /\ UNCHANGED numbers
  /\ UNCHANGED <<world, on, memory, fw, left, wire, host, strays>>

Buffer ==
  /\ \/ Go("main", "buf", "rproc") /\ Opens("buf", "buf") /\ UNCHANGED process
     \/ Abandons("buf") /\ fd' = [fd EXCEPT !["buf"] = -1] /\ UNCHANGED table
  /\ UNCHANGED <<world, on, memory, fw, left, wire, host, strays>>

Device ==
  /\ \/ Go("main", "rproc", "map") /\ Opens("rproc", "rproc") /\ UNCHANGED process
     \/ /\ Abandons("rproc")
        /\ table' = Without({fd["buf"]}) /\ fd' = [fd EXCEPT !["rproc"] = -1]
  /\ UNCHANGED <<world, on, memory, fw, left, wire, host, strays>>

Map ==
  /\ \/ Go("main", "map", "ept") /\ memory' = "mapped" /\ UNCHANGED <<process, table>>
     \/ Abandons("map") /\ table' = Without({fd["buf"], fd["rproc"]}) /\ UNCHANGED memory
  /\ UNCHANGED <<world, on, fw, fd, left, wire, host, strays>>

\* A failure from here on runs cleanup_c7x_resources(), which clears the
\* pointer and not the buffer's descriptors: cleanup() closes them again.
Endpoint ==
  /\ \/ Go("main", "ept", "setup") /\ Opens("ept", "ept") /\ UNCHANGED <<process, memory>>
     \/ /\ Abandons("ept")
        /\ table' = Without({fd["buf"], fd["rproc"]}) /\ memory' = "null"
        /\ UNCHANGED fd
  /\ UNCHANGED <<world, on, fw, left, wire, host, strays>>

\* The setup message and its answer; only then does c7x_rpmsg_fd hold the
\* endpoint, whose number c7x_comm_state forgets when it closes it.
Setup ==
  /\ \/ Go("main", "setup", IF Mode = "client" THEN "threads" ELSE "commands")
        /\ UNCHANGED <<process, memory, numbers>>
     \/ /\ Abandons("setup")
        /\ table' = Without({fd["buf"], fd["rproc"], fd["ept"]}) /\ memory' = "null"
        /\ fd' = [fd EXCEPT !["ept"] = -1]
  /\ UNCHANGED <<world, on, fw, left, wire, host, strays>>

\* pthread_create() of the three servers and the monitor: the first that
\* fails ends the start-up, and those before it run.
Threads ==
  /\ process = "up" /\ pc["main"] = "threads"
  /\ \E k \in IF May("start") THEN 0..4 ELSE {4} :
       pc' = [t \in DOMAIN pc |->
                CASE t = "main" -> IF k = 4 THEN "sleep" ELSE "cleanup"
                  [] t # "main" -> IF \E i \in 1..3 : i <= k /\ Ports[i] = t
                                   THEN "create" ELSE "none"]
  /\ UNCHANGED <<board, numbers, left, wire, host, strays>>

\* The commands of the command line are over, each as in SigchainControl.
CommandsOver ==
  /\ Go("main", "commands", "cleanup")
  /\ UNCHANGED <<board, numbers, left, wire, host, strays>>

\* The handler, in main; within a switch as in TwoDFft.  Before the setup is
\* answered cleanup() does not know of the endpoint.
Signal ==
  /\ May("signal") /\ process = "up"
  /\ pc["main"] \in {"heap", "buf", "rproc", "map", "ept", "setup", "threads", "commands", "sleep"}
  /\ pc' = [pc EXCEPT !["main"] = "cleanup"]
  /\ fd' = [fd EXCEPT !["ept"] = IF pc["main"] = "setup" THEN -1 ELSE @]
  /\ UNCHANGED <<board, table, left, wire, host, strays>>

----------------------------------------------------------------------------
(* cleanup(), from where the demo and the codecs are shut down. *)

Cleanup ==
  /\ Go("main", "cleanup", "close")
  /\ on' = FALSE
  /\ left' = Closes
  /\ UNCHANGED <<world, process, memory, fw, numbers, wire, host, strays>>

\* None is reset, and no thread is waited for.
CloseNext ==
  /\ process = "up" /\ pc["main"] = "close" /\ left # <<>>
  /\ table' = Without(IF "buf" \in Head(left) /\ fd["buf"] < 0 THEN {}
                      ELSE {fd[v] : v \in Head(left)})
  /\ memory' = IF "buf" \in Head(left) /\ memory = "mapped" THEN "dangling" ELSE memory
  /\ left' = Tail(left)
  /\ UNCHANGED <<world, process, on, fw, fd, pc, wire, host, strays>>

Closed ==
  /\ left = <<>> /\ Go("main", "close", "open")
  /\ left' = Writes
  /\ UNCHANGED <<board, numbers, wire, host, strays>>

\* switch_firmware() with the base firmware.
OpenState ==
  /\ left # <<>>
  /\ Go("main", "open", "use") /\ Opens("state", "state")
  /\ UNCHANGED <<board, left, wire, host, strays>>

\* Without its file, closed by another thread, it gives up the rest; close()
\* closes the number again.
UseState ==
  /\ Go("main", "use", "open")
  /\ IF Is("state", "state")
     THEN /\ left' = Tail(left)
          /\ fw' = IF Head(left) = "stop" THEN "none" ELSE "base"
     ELSE left' = <<>> /\ UNCHANGED fw
  /\ table' = Without({fd["state"]})
  /\ UNCHANGED <<world, process, on, memory, fd, wire, host, strays>>

\* So it does when a call of its own fails, the open or symlink() among them;
\* cleanup() does not look at the result.
FailState ==
  /\ May("switch") /\ left # <<>>
  /\ \/ Go("main", "open", "failed") /\ UNCHANGED table
     \/ Go("main", "use", "failed") /\ table' = Without({fd["state"]})
  /\ left' = <<>>
  /\ UNCHANGED <<board, fd, wire, host, strays>>

\* exit(), or the return from main: the other threads end with it.
Exit ==
  /\ \/ left = <<>> /\ Go("main", "open", "over") /\ Exits("cleaned")
     \/ Go("main", "failed", "over") /\ Exits("failed")
  /\ UNCHANGED <<world, on, memory, fw, numbers, left, wire, host, strays>>

Main ==
  \/ Find \/ Switch \/ Heap \/ Buffer \/ Device \/ Map \/ Endpoint \/ Setup \/ Threads
  \/ CommandsOver \/ Cleanup \/ CloseNext \/ Closed \/ OpenState \/ UseState \/ FailState \/ Exit

----------------------------------------------------------------------------
(* log_server_thread(), cmd_server_thread() and stats_server_thread(). *)

\* create_server_socket(), or any of its failures: the thread ends.  The
\* threads are taken in their order, which only decides on the numbers.
Create(p) ==
  /\ \A i, j \in 1..3 : i < j /\ Ports[j] = p => pc[Ports[i]] # "create"
  /\ \/ Go(p, "create", IF on THEN "accepting" ELSE "over") /\ Opens(Listens(p), Listens(p))
     \/ May("socket") /\ Go(p, "create", "over") /\ UNCHANGED numbers
  /\ UNCHANGED <<board, left, wire, host, strays>>

\* The condition of the inner loop, then the log's and the commands' recv().
Inner(p) == IF ~on THEN "close" ELSE IF p = "stats" THEN "check" ELSE "recv"

Accept(p) ==
  /\ waiting[p] # <<>>
  /\ Go(p, "accepting", Inner(p)) /\ Opens(p, p)
  /\ peer' = [peer EXCEPT ![p] = Head(waiting[p])]
  /\ waiting' = [waiting EXCEPT ![p] = Tail(@)]
  /\ UNCHANGED <<board, left, host, strays>>

\* recv() finds the end of the connection.  The GUI sends nothing to the log.
Eof(p) ==
  /\ p # "stats" /\ ~peer[p]
  /\ Go(p, "recv", "close")
  /\ UNCHANGED <<board, numbers, left, wire, host, strays>>

\* A command, which logs: log_message() looks whether there is a client.
Command ==
  /\ peer["cmd"]
  /\ Go("cmd", "recv", IF fd["log"] >= 0 THEN "say" ELSE "reply")
  /\ UNCHANGED <<board, numbers, left, wire, host, strays>>

\* And then sends to whatever the number is by now.
Say ==
  /\ Go("cmd", "say", "reply")
  /\ strays' = IF on /\ fd["log"] \in Number
               THEN strays \cup ({table[fd["log"]]} \cap {"cmd", "stats"})
               ELSE strays
  /\ UNCHANGED <<board, numbers, left, wire, host>>

\* The next recv() fails when cleanup() has closed the number.
Reply ==
  /\ Go("cmd", "reply", IF Is("cmd", "cmd") THEN Inner("cmd") ELSE "close")
  /\ UNCHANGED <<board, numbers, left, wire, host, strays>>

\* Each second, and a copy of the shared memory unless it has been unmapped.
Check ==
  /\ Go("stats", "check", IF on /\ memory # "null" THEN "copy" ELSE "close")
  /\ UNCHANGED <<board, numbers, left, wire, host, strays>>

Copy ==
  /\ memory # "dangling" /\ Go("stats", "copy", "send")
  /\ UNCHANGED <<board, numbers, left, wire, host, strays>>

\* c7x_connected and the pointer stay as they are: the memory is gone.
Segfault ==
  /\ memory = "dangling" /\ Go("stats", "copy", "over")
  /\ Exits("killed")
  /\ UNCHANGED <<world, on, memory, fw, numbers, left, wire, host, strays>>

\* Mutant of Send: the result of send() is not looked at.
SendOn ==
  /\ Go("stats", "send", "check")
  /\ UNCHANGED <<board, numbers, left, wire, host, strays>>

\* A client that has left is found out by send(), once its reset has arrived.
Send ==
  /\ Go("stats", "send", IF Is("stats", "stats") /\ peer["stats"] THEN "check" ELSE "close")
  /\ UNCHANGED <<board, numbers, left, wire, host, strays>>

Close(p) ==
  /\ Go(p, "close", "forget")
  /\ table' = Without({fd[p]})
  /\ UNCHANGED <<board, fd, left, wire, host, strays>>

\* The loop goes on to accept(), which waits on the socket also when its
\* number is closed, and fails on a number that is closed already.
Again(p) == IF on /\ Is(Listens(p), Listens(p)) THEN "accepting" ELSE "over"

\* Mutant of Forget: the number is kept.
ForgetNot(p) ==
  /\ Go(p, "forget", Again(p))
  /\ UNCHANGED <<board, numbers, left, wire, host, strays>>

Forget(p) ==
  /\ Go(p, "forget", Again(p))
  /\ fd' = [fd EXCEPT ![p] = -1]
  /\ UNCHANGED <<board, table, left, wire, host, strays>>

Serve(p) ==
  \/ Create(p) \/ Accept(p) \/ Eof(p) \/ Close(p) \/ Forget(p)
  \/ p = "cmd" /\ (Say \/ Reply)
  \/ p = "stats" /\ (Check \/ Copy \/ Segfault \/ Send)

----------------------------------------------------------------------------
(* The GUI: connect_to_evm() and disconnect_from_evm(). *)

\* A connection is made while somebody holds the server's socket.
Reachable(p) == process = "up" /\ (Is(Listens(p), Listens(p)) \/ pc[p] = "accepting")

\* The user waits until the servers have their sockets.
Connect ==
  /\ process = "up" /\ gui = "idle"
  /\ \E p \in Port : pc[p] # "none"
  /\ \A p \in Port : pc[p] # "create"
  /\ link = [p \in Port |-> FALSE]
  /\ Mode = "client" /\ sessions < world.sessions
  /\ gui' = "connecting" /\ sessions' = sessions + 1
  /\ UNCHANGED <<board, numbers, pc, left, wire, link, strays>>

\* Log, commands and statistics in turn; the first that fails undoes all.
ConnectNext ==
  /\ process = "up" /\ gui = "connecting"
  /\ May("late") \/ \A p \in Port : waiting[p] = <<>>
  /\ LET off == {p \in Port : ~link[p]} IN
       \/ off = {} /\ gui' = "idle" /\ UNCHANGED <<link, waiting>>
       \/ /\ off # {} /\ Reachable(First(off)) /\ Len(waiting[First(off)]) < Pending
          /\ link' = [link EXCEPT ![First(off)] = TRUE]
          /\ waiting' = [waiting EXCEPT ![First(off)] = Append(@, TRUE)]
          /\ UNCHANGED gui
       \/ /\ off # {} /\ ~(Reachable(First(off)) /\ Len(waiting[First(off)]) < Pending)
          /\ gui' = "leaving" /\ UNCHANGED <<link, waiting>>
  /\ UNCHANGED <<board, numbers, pc, left, peer, sessions, strays>>

Disconnect ==
  /\ process = "up" /\ gui = "idle" /\ \E p \in Port : link[p]
  /\ gui' = "leaving"
  /\ UNCHANGED <<board, numbers, pc, left, wire, link, sessions, strays>>

\* The connection is the one accepted last, unless it still waits.
DisconnectNext ==
  /\ process = "up" /\ gui = "leaving"
  /\ LET up == {p \in Port : link[p]} IN
       IF up = {} THEN gui' = "idle" /\ UNCHANGED <<link, wire>>
       ELSE LET p == First(up) IN
              /\ link' = [link EXCEPT ![p] = FALSE]
              /\ IF waiting[p] = <<>>
                 THEN peer' = [peer EXCEPT ![p] = FALSE] /\ UNCHANGED waiting
                 ELSE /\ waiting' = [waiting EXCEPT ![p][Len(waiting[p])] = FALSE]
                      /\ UNCHANGED peer
              /\ UNCHANGED gui
  /\ UNCHANGED <<board, numbers, pc, left, sessions, strays>>

\* Nothing is left to do but wait for the user.
Quiet ==
  /\ process # "up" \/ pc["main"] = "sleep"
  /\ UNCHANGED vars

----------------------------------------------------------------------------
Next ==
  \/ Main \/ Signal \/ Command
  \/ \E p \in Port : Serve(p)
  \/ Connect \/ ConnectNext \/ Disconnect \/ DisconnectNext
  \/ Quiet

Spec == Init /\ [][Next]_vars

\* The server threads run.
FairSpec == Spec /\ \A p \in Port : WF_vars(Serve(p))

----------------------------------------------------------------------------
\* Where main and the threads can be.
Starting == {"find", "switch", "heap", "buf", "rproc", "map", "ept", "setup", "threads"}
Ending == {"commands", "sleep", "cleanup", "close", "open", "use", "failed"}
Idling == {"none", "create", "accepting", "forget", "over"}
Serving == {"recv", "say", "reply", "check", "copy", "send", "close"}

TypeOK ==
  /\ world \in Worlds /\ process \in {"up", "early", "cleaned", "failed", "killed"}
  /\ on \in BOOLEAN /\ memory \in {"null", "mapped", "dangling"}
  /\ fw \in {"base", "sigchain", "none"}
  /\ table \in [Number -> {"free", "stdin"} \cup Variable]
  /\ fd \in [Variable -> Number \cup {-1}]
  /\ pc \in [Port \cup {"main"} -> Starting \cup Ending \cup Idling \cup Serving]
  /\ waiting \in [Port -> Seq(BOOLEAN)] /\ \A p \in Port : Len(waiting[p]) <= Pending
  /\ peer \in [Port -> BOOLEAN] /\ link \in [Port -> BOOLEAN]
  /\ gui \in {"idle", "connecting", "leaving"} /\ sessions \in 0..world.sessions

\* "Cleanup function - restores system state" (rpmsg_sigchain_biquad_example.c
\* :565): however far the start-up came, whoever was connected and whatever
\* the threads do with the numbers that cleanup() closed under them, the file
\* that the last switch writes included, the example ends with the base
\* firmware, with four exceptions: the first switch failed, the command line
\* could not set up its link to the C7x, a call of the last switch failed of
\* itself, or a statistics thread read the memory after it was unmapped.
LeavesBase ==
  process # "up" =>
    \/ fw = "base" \/ process \in {"killed", "failed"}
    \/ process = "early" /\ (fw = "none" \/ Mode = "cli")

\* "Port 8889: Command interface": while the application runs, a log line
\* reaches the client of another port at most between the close() of a log
\* client and the assignment after it, when the number may be somebody else's.
LogStaysInLog == [][strays' # strays => pc["log"] = "forget" \/ ~on]_vars

\* A GUI that has left and connects again is served on each port: every
\* server finds out that the client before it is gone.
ServedAgain ==
  LET Settled(p) == waiting[p] = <<>> \/ pc[p] = "over"
      Ended == process # "up" \/ ~on
  IN (\E p \in Port : ~Settled(p)) ~> (Ended \/ \A p \in Port : Settled(p))

=============================================================================
