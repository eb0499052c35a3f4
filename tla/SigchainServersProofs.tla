----------------------- MODULE SigchainServersProofs -----------------------
(***************************************************************************)
(* Proofs about SigchainServers for any number of descriptors, connections *)
(* and sessions: its types, that a log line stays in the log while the     *)
(* application runs, and that the example leaves the base firmware.  The   *)
(* first argument is ownership: as long as nobody else closes numbers,     *)
(* that is until cleanup(), the number in a thread's variable is open for  *)
(* that thread whenever it is serving (Owns).  The second is about numbers *)
(* that cleanup() has closed and threads still use: one of main's three is *)
(* always free for the state file when a thread might close a number above *)
(* them (FreeBelow), and those are the lowest.                             *)
(***************************************************************************)
EXTENDS SigchainServers, SequenceTheorems, TLAPS

\* The types of what the descriptors are about.
Numbers ==
  /\ on \in BOOLEAN
  /\ table \in [Number -> {"free", "stdin"} \cup Variable]
  /\ fd \in [Variable -> Number \cup {-1}]
  /\ pc \in [Port \cup {"main"} -> Starting \cup Ending \cup Idling \cup Serving]
  /\ \A p \in Port : pc[p] \in Idling \cup Serving

\* A server that has a client has its number; the log forgets it otherwise.
Owns(p) == pc[p] \in Serving => Is(p, p)
LogClosed == pc["log"] \in Idling \ {"forget"} => fd["log"] = -1

\* main closes numbers before there are threads or after it has cleared on.
MainFirst == pc["main"] \in Starting => \A p \in Port : pc[p] = "none"
MainLast == pc["main"] \in {"close", "open", "use", "failed"} => ~on

IInv ==
  /\ Numbers
  /\ on => LogClosed /\ \A p \in Port : Owns(p)
  /\ MainFirst /\ MainLast

----------------------------------------------------------------------------
(* What the operations on descriptors do. *)

\* An open takes a free number, and so leaves those in use alone.
LEMMA OpensFacts ==
  ASSUME Numbers, NEW v \in Variable, Opens(v, v)
  PROVE  /\ table' \in [Number -> {"free", "stdin"} \cup Variable]
         /\ fd' \in [Variable -> Number \cup {-1}]
         /\ fd'[v] \in Number /\ table'[fd'[v]] = v
         /\ \A w \in Variable \ {v} : fd'[w] = fd[w]
         /\ \A n \in Number : table[n] # "free" => table'[n] = table[n]
BY DEF Numbers, Opens

\* A close frees the numbers it names.
LEMMA WithoutFacts ==
  ASSUME Numbers, NEW S
  PROVE  /\ Without(S) \in [Number -> {"free", "stdin"} \cup Variable]
         /\ \A n \in Number \ S : Without(S)[n] = table[n]
BY DEF Numbers, Without

LEMMA Names ==
  /\ Port \subseteq Variable
  /\ \A p \in Port : Listens(p) \in Variable /\ Listens(p) \notin Port /\ p \notin {"free", "main"}
  /\ {"heap", "buf", "rproc", "ept", "state"} \subseteq Variable \ Port
BY DEF Port, Server, Variable, Listens

----------------------------------------------------------------------------
(* main. *)

\* Before the threads are created nobody owns anything, whatever main opens
\* and closes.
LEMMA StartingKeeps ==
  ASSUME IInv, pc["main"] \in Starting,
         NEW to \in Starting \cup Ending \cup Idling,
         pc' = [pc EXCEPT !["main"] = to], UNCHANGED on,
         to \notin {"close", "open", "use", "failed"},
         table' \in [Number -> {"free", "stdin"} \cup Variable],
         fd' \in [Variable -> Number \cup {-1}], fd'["log"] = fd["log"]
  PROVE  IInv'
<1>1. \A p \in Port : pc'[p] = "none" /\ pc[p] = "none"
   BY Names DEF IInv, MainFirst, Numbers
<1>2. pc' \in [Port \cup {"main"} -> Starting \cup Ending \cup Idling \cup Serving] /\ pc'["main"] = to
   BY DEF IInv, Numbers
<1>3. Numbers' BY <1>1, <1>2 DEF IInv, Numbers, Idling
<1>4. LogClosed => LogClosed' BY <1>1 DEF LogClosed, Port
<1>5. \A p \in Port : Owns(p)' BY <1>1 DEF Owns, Serving
<1>6. MainFirst' /\ MainLast' BY <1>1, <1>2 DEF MainFirst, MainLast
<1> QED BY <1>3, <1>4, <1>5, <1>6 DEF IInv

\* After that, steps that leave the descriptors and the servers alone.
LEMMA EndingKeeps ==
  ASSUME IInv, pc["main"] \in Ending, NEW to \in Ending \cup Idling,
         pc' = [pc EXCEPT !["main"] = to], UNCHANGED <<on, numbers>>,
         to \in {"close", "open", "use", "failed"} => ~on
  PROVE  IInv'
<1>1. \A p \in Port : pc'[p] = pc[p]
   BY Names DEF IInv, Numbers
<1>2. pc' \in [Port \cup {"main"} -> Starting \cup Ending \cup Idling \cup Serving] /\ pc'["main"] = to
   BY DEF IInv, Numbers
<1>3. Numbers' BY <1>1, <1>2 DEF IInv, Numbers, numbers
<1>4. LogClosed => LogClosed' BY <1>1 DEF LogClosed, Port, numbers
<1>5. \A p \in Port : Owns(p) => Owns(p)' BY <1>1 DEF Owns, Is, numbers
<1>6. MainFirst' /\ MainLast' BY <1>1, <1>2 DEF MainFirst, MainLast, Starting, Ending, Idling
<1> QED BY <1>3, <1>4, <1>5, <1>6 DEF IInv, numbers

\* Once the application has stopped, only the types matter.
LEMMA StoppedKeeps ==
  ASSUME IInv, ~on, UNCHANGED on, Numbers', MainFirst'
  PROVE  IInv'
BY DEF IInv, MainLast

LEMMA MainKeeps == IInv /\ Main => IInv'
<1> SUFFICES ASSUME IInv, Main PROVE IInv'
   OBVIOUS
<1> USE Names DEF IInv
<1>1. CASE Find BY <1>1, StartingKeeps DEF Find, Go, Exits, board, numbers, Starting, Idling, Numbers
<1>2. CASE Switch BY <1>2, StartingKeeps DEF Switch, Go, Exits, board, numbers, Starting, Idling, Numbers
<1>3. CASE Heap
   BY <1>3, StartingKeeps, OpensFacts DEF Heap, Abandons, Go, Exits, numbers, Starting, Ending, Idling, Numbers, Port
<1>4. CASE Buffer
   BY <1>4, StartingKeeps, OpensFacts DEF Buffer, Abandons, Go, Exits, Starting, Ending, Idling, Numbers, Port
<1>5. CASE Device
   BY <1>5, StartingKeeps, OpensFacts, WithoutFacts DEF Device, Abandons, Go, Exits, Starting, Ending, Idling, Numbers, Port
<1>6. CASE Map
   BY <1>6, StartingKeeps, WithoutFacts DEF Map, Abandons, Go, Exits, Starting, Ending, Idling, Numbers
<1>7. CASE Endpoint
   BY <1>7, StartingKeeps, OpensFacts, WithoutFacts DEF Endpoint, Abandons, Go, Exits, Starting, Ending, Idling, Numbers, Port
<1>8. CASE Setup
   BY <1>8, StartingKeeps, OpensFacts, WithoutFacts DEF Setup, Abandons, Go, Exits, Starting, Ending, Idling, Numbers, numbers, Port
<1>9. CASE Threads
  <2>1. /\ pc["main"] = "threads" /\ UNCHANGED <<on, table, fd>>
        /\ pc' \in [Port \cup {"main"} -> {"sleep", "cleanup", "create", "none"}]
        /\ pc'["main"] \in {"sleep", "cleanup"}
        /\ \A p \in Port : pc'[p] \in {"create", "none"}
     BY <1>9 DEF Threads, board, numbers, Numbers, Port
  <2>2. \A p \in Port : pc[p] = "none" BY <2>1 DEF MainFirst, Starting
  <2>3. Numbers' BY <2>1 DEF Numbers, Idling, Ending
  <2>4. on => LogClosed' BY <2>1, <2>2 DEF LogClosed, Idling, Port
  <2>5. \A p \in Port : Owns(p)' BY <2>1 DEF Owns, Serving
  <2> QED BY <2>1, <2>3, <2>4, <2>5 DEF MainFirst, MainLast, Starting
<1>10. CASE CommandsOver
   BY <1>10, EndingKeeps DEF CommandsOver, Go, board, Ending
<1>11. CASE Cleanup
  <2>1. /\ pc["main"] = "cleanup" /\ pc' = [pc EXCEPT !["main"] = "close"]
        /\ ~on' /\ UNCHANGED <<table, fd>>
     BY <1>11 DEF Cleanup, Go, numbers
  <2>2. /\ pc'["main"] = "close" /\ \A p \in Port : pc'[p] = pc[p]
        /\ pc' \in [Port \cup {"main"} -> Starting \cup Ending \cup Idling \cup Serving]
     BY <2>1 DEF Numbers, Ending
  <2>3. Numbers' BY <1>11, <2>1, <2>2 DEF Numbers, Cleanup
  <2> QED BY <2>1, <2>2, <2>3 DEF MainFirst, MainLast, Starting
<1>12. CASE CloseNext
  <2>1. Numbers' BY <1>12, WithoutFacts DEF CloseNext, Numbers
  <2> QED BY <1>12, <2>1, StoppedKeeps DEF CloseNext, MainLast, MainFirst
<1>13. CASE Closed
   BY <1>13, EndingKeeps DEF Closed, Go, board, Ending, MainLast
<1>14. CASE OpenState
  <2>1. pc["main"] = "open" /\ pc' = [pc EXCEPT !["main"] = "use"] /\ UNCHANGED on
     BY <1>14 DEF OpenState, Go, board
  <2>2. Numbers' BY <1>14, <2>1, OpensFacts DEF OpenState, Numbers, Ending
  <2> QED BY <2>1, <2>2, StoppedKeeps DEF MainLast, MainFirst, Starting, Numbers
<1>15. CASE UseState
  <2>1. pc["main"] = "use" /\ pc' = [pc EXCEPT !["main"] = "open"] /\ UNCHANGED <<on, fd>>
     BY <1>15 DEF UseState, Go
  <2>2. Numbers' BY <1>15, <2>1, WithoutFacts DEF UseState, Numbers, Ending
  <2> QED BY <2>1, <2>2, StoppedKeeps DEF MainLast, MainFirst, Starting, Numbers
<1>16. CASE FailState
  <2>1. /\ pc["main"] \in {"open", "use"} /\ pc' = [pc EXCEPT !["main"] = "failed"]
        /\ UNCHANGED <<on, fd>> /\ (UNCHANGED table \/ table' = Without({fd["state"]}))
     BY <1>16 DEF FailState, Go, board
  <2>2. Numbers' BY <2>1, WithoutFacts DEF Numbers, Ending
  <2> QED BY <2>1, <2>2, StoppedKeeps DEF MainLast, MainFirst, Starting, Numbers
<1>17. CASE Exit
   BY <1>17, EndingKeeps DEF Exit, Go, Ending, Idling
<1> QED
   BY <1>1, <1>2, <1>3, <1>4, <1>5, <1>6, <1>7, <1>8, <1>9, <1>10, <1>11, <1>12, <1>13,
      <1>14, <1>15, <1>16, <1>17 DEF Main

LEMMA SignalKeeps == IInv /\ Signal => IInv'
<1> SUFFICES ASSUME IInv, Signal PROVE IInv'
   OBVIOUS
<1>1. /\ UNCHANGED <<on, table>> /\ fd' \in [Variable -> Number \cup {-1}]
      /\ pc' = [pc EXCEPT !["main"] = "cleanup"]
      /\ \A p \in Port : fd'[p] = fd[p] /\ pc'[p] = pc[p]
   BY Names DEF Signal, board, IInv, Numbers
<1>2. Numbers' BY <1>1 DEF IInv, Numbers, Ending
<1>3. on => LogClosed' BY <1>1 DEF IInv, LogClosed, Port
<1>4. \A p \in Port : Owns(p) => Owns(p)' BY <1>1 DEF Owns, Is
<1>5. pc'["main"] = "cleanup" BY <1>1 DEF IInv, Numbers
<1> QED BY <1>1, <1>2, <1>3, <1>4, <1>5 DEF IInv, MainFirst, MainLast, Starting

----------------------------------------------------------------------------
(* The servers.  Each moves alone, and what is open for another stays so.  *)

LEMMA ThreadKeeps ==
  ASSUME IInv, NEW p \in Port, pc[p] # "none", NEW to \in Idling \cup Serving,
         pc' = [pc EXCEPT ![p] = to], UNCHANGED on,
         table' \in [Number -> {"free", "stdin"} \cup Variable],
         fd' \in [Variable -> Number \cup {-1}],
         \A q \in Port \ {p} : fd'[q] = fd[q],
         on => \A q \in Port \ {p} : Is(q, q) => table'[fd[q]] = q,
         on /\ to \in Serving => Is(p, p)',
         on /\ p = "log" /\ to \in Idling \ {"forget"} => fd'["log"] = -1
  PROVE  IInv'
<1>1. /\ pc' \in [Port \cup {"main"} -> Starting \cup Ending \cup Idling \cup Serving]
      /\ pc'["main"] = pc["main"] /\ pc'[p] = to
      /\ \A q \in Port \ {p} : pc'[q] = pc[q]
   BY Names DEF IInv, Numbers
<1>2. Numbers' BY <1>1 DEF IInv, Numbers
<1>3. on => LogClosed' BY <1>1 DEF IInv, LogClosed, Port
<1>4. \A q \in Port \ {p} : on /\ Owns(q) => Owns(q)' BY <1>1 DEF Owns, Is
<1>5. on => Owns(p)' BY <1>1 DEF Owns
<1>6. MainFirst' BY <1>1 DEF IInv, MainFirst
<1>7. MainLast' BY <1>1 DEF IInv, MainLast
<1> QED BY <1>2, <1>3, <1>4, <1>5, <1>6, <1>7 DEF IInv

\* The steps that touch no descriptor: what a thread owns, it still owns.
LEMMA QuietKeeps ==
  ASSUME IInv, NEW p \in Port, pc[p] \in Serving, NEW to \in Serving,
         pc' = [pc EXCEPT ![p] = to], UNCHANGED <<on, numbers>>
  PROVE  IInv'
<1>1. pc[p] # "none" BY DEF Serving
<1>2. on => Is(p, p) /\ Is(p, p)' BY DEF IInv, Owns, Is, numbers
<1>3. \A q \in Port : Is(q, q) => table'[fd[q]] = q BY DEF Is, numbers
<1>4. to \notin Idling BY DEF Serving, Idling
<1> QED BY <1>1, <1>2, <1>3, <1>4, ThreadKeeps, Names DEF IInv, Numbers, numbers

\* A server's own open.
LEMMA OpenKeeps ==
  ASSUME IInv, NEW p \in Port, pc[p] # "none", NEW to \in Idling \cup Serving,
         NEW v \in Variable, Opens(v, v), v = p \/ v \notin Port,
         pc' = [pc EXCEPT ![p] = to], UNCHANGED on,
         to \in Serving => v = p,
         on /\ p = "log" /\ to \in Idling => v # p /\ fd["log"] = -1
  PROVE  IInv'
<1>1. /\ table' \in [Number -> {"free", "stdin"} \cup Variable]
      /\ fd' \in [Variable -> Number \cup {-1}]
      /\ fd'[v] \in Number /\ table'[fd'[v]] = v
      /\ \A w \in Variable \ {v} : fd'[w] = fd[w]
      /\ \A n \in Number : table[n] # "free" => table'[n] = table[n]
   BY OpensFacts DEF IInv
<1>2. \A q \in Port \ {p} : fd'[q] = fd[q] /\ (Is(q, q) => table'[fd[q]] = q)
   BY <1>1, Names DEF Is
<1>3. to \in Serving => Is(p, p)' BY <1>1 DEF Is
<1>4. on /\ p = "log" /\ to \in Idling => fd'["log"] = -1 BY <1>1, Names
<1> QED BY <1>1, <1>2, <1>3, <1>4, ThreadKeeps

LEMMA ServeKeeps ==
  ASSUME IInv, NEW p \in Port, Serve(p)
  PROVE  IInv'
<1> USE Names DEF IInv
<1>1. CASE Create(p)
  <2>1. pc[p] = "create" /\ pc[p] \in Idling \ {"forget"} BY <1>1 DEF Create, Go, Idling
  <2>2. CASE Go(p, "create", "over") /\ UNCHANGED numbers
    <3>1. on /\ p = "log" => fd["log"] = -1 BY <2>1 DEF LogClosed
    <3>2. \A q \in Port : Is(q, q) => table'[fd[q]] = q BY <2>2 DEF Is, numbers
    <3> QED
       BY <1>1, <2>1, <2>2, <3>1, <3>2, ThreadKeeps
       DEF Create, Go, board, numbers, Numbers, Idling, Serving
  <2>3. CASE Opens(Listens(p), Listens(p))
    <3>1. pc' = [pc EXCEPT ![p] = IF on THEN "accepting" ELSE "over"] \/ pc' = [pc EXCEPT ![p] = "over"]
       BY <1>1 DEF Create, Go
    <3>2. on /\ p = "log" => fd["log"] = -1 BY <2>1 DEF LogClosed
    <3>3. "accepting" \in Idling \ Serving /\ "over" \in Idling \ Serving BY DEF Idling, Serving
    <3> QED BY <1>1, <2>1, <2>3, <3>1, <3>2, <3>3, OpenKeeps DEF Create, board
  <2> QED BY <1>1, <2>2, <2>3 DEF Create
<1>2. CASE Accept(p)
  <2>1. pc[p] = "accepting" /\ pc' = [pc EXCEPT ![p] = Inner(p)] /\ Opens(p, p) /\ UNCHANGED on
     BY <1>2 DEF Accept, Go, board
  <2>2. Inner(p) \in Serving \ Idling BY DEF Inner, Serving, Idling
  <2> QED BY <2>1, <2>2, OpenKeeps
<1>3. CASE Eof(p)
   BY <1>3, QuietKeeps DEF Eof, Go, board, Serving
<1>4. CASE Close(p)
  <2>1. /\ pc[p] = "close" /\ pc' = [pc EXCEPT ![p] = "forget"]
        /\ table' = Without({fd[p]}) /\ UNCHANGED <<on, fd>>
     BY <1>4 DEF Close, Go, board
  <2>2. on => Is(p, p) BY <2>1 DEF Owns, Serving
  <2>3. on => \A q \in Port \ {p} : Is(q, q) => table'[fd[q]] = q
     BY <2>1, <2>2, WithoutFacts DEF Is
  <2>4. table' \in [Number -> {"free", "stdin"} \cup Variable] BY <2>1, WithoutFacts
  <2> QED BY <2>1, <2>3, <2>4, ThreadKeeps DEF Idling, Serving, Numbers
<1>5. CASE Forget(p)
  <2>1. /\ pc[p] = "forget" /\ pc' = [pc EXCEPT ![p] = Again(p)]
        /\ fd' = [fd EXCEPT ![p] = -1] /\ UNCHANGED <<on, table>>
     BY <1>5 DEF Forget, Go, board
  <2>2. Again(p) \in Idling \ Serving BY DEF Again, Idling, Serving
  <2>3. \A q \in Port : Is(q, q) => table'[fd[q]] = q BY <2>1 DEF Is
  <2>4. fd' \in [Variable -> Number \cup {-1}] /\ fd'[p] = -1 BY <2>1 DEF Numbers
  <2>5. \A q \in Port \ {p} : fd'[q] = fd[q] BY <2>1 DEF Numbers
  <2> QED BY <2>1, <2>2, <2>3, <2>4, <2>5, ThreadKeeps DEF Numbers
<1>6. CASE p = "cmd" /\ Say
   BY <1>6, QuietKeeps DEF Say, Go, board, Serving
<1>7. CASE p = "cmd" /\ Reply
   BY <1>7, QuietKeeps DEF Reply, Go, board, Serving, Inner
<1>8. CASE p = "stats" /\ Check
   BY <1>8, QuietKeeps DEF Check, Go, board, Serving
<1>9. CASE p = "stats" /\ Copy
   BY <1>9, QuietKeeps DEF Copy, Go, board, Serving
<1>10. CASE p = "stats" /\ Segfault
  <2>1. pc[p] = "copy" /\ pc' = [pc EXCEPT ![p] = "over"] /\ UNCHANGED <<on, numbers>>
     BY <1>10 DEF Segfault, Go
  <2>2. \A q \in Port : Is(q, q) => table'[fd[q]] = q BY <2>1 DEF Is, numbers
  <2> QED BY <1>10, <2>1, <2>2, ThreadKeeps DEF Idling, Serving, Numbers, numbers
<1>11. CASE p = "stats" /\ Send
   BY <1>11, QuietKeeps DEF Send, Go, board, Serving
<1> QED
   BY <1>1, <1>2, <1>3, <1>4, <1>5, <1>6, <1>7, <1>8, <1>9, <1>10, <1>11 DEF Serve

LEMMA CommandKeeps == IInv /\ Command => IInv'
<1> SUFFICES ASSUME IInv, Command PROVE IInv'
   OBVIOUS
<1>1. "cmd" \in Port BY DEF Port
<1>2. CASE fd["log"] >= 0
   BY <1>1, <1>2, QuietKeeps DEF Command, Go, board, Serving
<1>3. CASE ~(fd["log"] >= 0)
   BY <1>1, <1>3, QuietKeeps DEF Command, Go, board, Serving
<1> QED BY <1>2, <1>3

----------------------------------------------------------------------------
LEMMA Inductive == IInv /\ [Next]_vars => IInv'
<1> SUFFICES ASSUME IInv, [Next]_vars PROVE IInv'
   OBVIOUS
<1>1. CASE UNCHANGED <<on, numbers, pc>>
   BY <1>1 DEF IInv, Numbers, LogClosed, Owns, Is, MainFirst, MainLast, numbers
<1>2. CASE Connect \/ ConnectNext \/ Disconnect \/ DisconnectNext \/ Quiet \/ UNCHANGED vars
   BY <1>1, <1>2 DEF Connect, ConnectNext, Disconnect, DisconnectNext, Quiet, vars, board
<1> QED BY <1>2, MainKeeps, SignalKeeps, CommandKeeps, ServeKeeps DEF Next

LEMMA Starts == Init => IInv
<1> SUFFICES ASSUME Init PROVE IInv
   OBVIOUS
<1>1. 0 \in Number BY ServersAssumption DEF Number
<1>2. /\ fd \in [Variable -> Number \cup {-1}] /\ fd["log"] = -1
   BY <1>1, Names DEF Init, Port
<1>3. Numbers BY <1>1, <1>2, Names DEF Numbers, Init, Starting, Idling
<1>4. \A p \in Port : pc[p] = "none" BY Names DEF Init
<1>5. pc["main"] = "find" BY DEF Init
<1> QED BY <1>2, <1>3, <1>4, <1>5 DEF IInv, LogClosed, Owns, MainFirst, MainLast, Serving

\* The number in a thread's variable is its own until cleanup() begins: the
\* server threads never close or answer on a number that the kernel has given
\* to somebody else, as long as only they close them.
THEOREM Ownership == Spec => []IInv
BY Starts, Inductive, PTL DEF Spec

\* While the application runs, log_message() of the command thread writes to
\* the log's client or, between the close() of that client and the assignment
\* that follows it, to whoever has the number by then: for any number of
\* descriptors, pending connections and sessions of the GUI.
THEOREM LogLines == Spec => LogStaysInLog
<1> DEFINE Stays == strays' # strays => pc["log"] = "forget" \/ ~on
<1>1. IInv /\ [Next]_vars => [Stays]_vars
  <2> SUFFICES ASSUME IInv, [Next]_vars, strays' # strays, on PROVE pc["log"] = "forget"
     OBVIOUS
  <2>1. Say
     BY DEF Next, Main, Find, Switch, Heap, Buffer, Device, Map, Endpoint, Setup, Threads,
        CommandsOver, Cleanup, CloseNext, Closed, OpenState, UseState, FailState, Exit, Signal, Command,
        Serve, Create, Accept, Eof, Close, Forget, Reply, Check, Copy, Segfault, Send,
        Connect, ConnectNext, Disconnect, DisconnectNext, Quiet, vars
  <2>2. fd["log"] \in Number /\ table[fd["log"]] \in {"cmd", "stats"} BY <2>1 DEF Say
  <2>3. "log" \in Port /\ pc["log"] \in Idling \cup Serving BY DEF IInv, Numbers, Port
  <2>4. pc["log"] \notin Serving BY <2>2, <2>3 DEF IInv, Owns, Is
  <2>5. fd["log"] # -1 BY <2>2 DEF Number
  <2> QED BY <2>3, <2>4, <2>5 DEF IInv, LogClosed
<1> QED BY <1>1, Ownership, PTL DEF Spec, LogStaysInLog

----------------------------------------------------------------------------
(* The types of what the descriptors do not tell. *)

LEMMA BoardTypes ==
  ASSUME TypeOK, [Next]_vars
  PROVE  /\ world' = world /\ process' \in {"up", "early", "cleaned", "failed", "killed"}
         /\ memory' \in {"null", "mapped", "dangling"} /\ fw' \in {"base", "sigchain", "none"}
<1>1. CASE Main
   BY <1>1
   DEF TypeOK, Main, Find, Switch, Heap, Buffer, Device, Map, Endpoint, Setup, Threads,
       CommandsOver, Cleanup, CloseNext, Closed, OpenState, UseState, FailState, Exit, Abandons, Go,
       Exits, board
<1>2. CASE UNCHANGED board
   BY <1>2 DEF TypeOK, board
<1>3. CASE \E p \in Port : Serve(p)
   BY <1>3
   DEF TypeOK, board, Serve, Create, Accept, Eof, Close, Forget, Say, Reply, Check, Copy,
       Segfault, Send, Exits
<1> QED
   BY <1>1, <1>2, <1>3
   DEF Next, Signal, Command, Connect, ConnectNext, Disconnect, DisconnectNext, Quiet, vars

LEMMA FirstOf ==
  ASSUME NEW S \in SUBSET Port, S # {}
  PROVE  First(S) \in S
<1>1. \E p \in S : \A i \in 1..3 : Ports[i] \in S => \E j \in 1..i : Ports[j] = p
  <2>1. /\ Port = {Ports[1], Ports[2], Ports[3]}
     BY DEF Port, Ports
  <2>2. CASE Ports[1] \in S BY <2>2
  <2>3. CASE Ports[1] \notin S /\ Ports[2] \in S
     BY <2>3
  <2>4. CASE Ports[1] \notin S /\ Ports[2] \notin S
     BY <2>1, <2>4
  <2> QED BY <2>2, <2>3, <2>4
<1> QED BY <1>1 DEF First

LEMMA GuiTypes ==
  ASSUME TypeOK, [Next]_vars
  PROVE  /\ waiting' \in [Port -> Seq(BOOLEAN)] /\ \A p \in Port : Len(waiting'[p]) <= Pending
         /\ peer' \in [Port -> BOOLEAN] /\ link' \in [Port -> BOOLEAN]
         /\ gui' \in {"idle", "connecting", "leaving"} /\ sessions' \in 0..world.sessions
<1> USE ServersAssumption DEF TypeOK
<1>1. CASE UNCHANGED <<wire, host>>
   BY <1>1 DEF wire, host
<1>2. CASE \E p \in Port : Accept(p)
  <2>1. PICK p \in Port : Accept(p) BY <1>2
  <2>2. /\ Head(waiting[p]) \in BOOLEAN /\ Tail(waiting[p]) \in Seq(BOOLEAN)
        /\ Len(Tail(waiting[p])) <= Pending
     BY <2>1 DEF Accept
  <2> QED BY <2>1, <2>2 DEF Accept, host
<1>3. CASE Connect \/ Disconnect
  <2>1. UNCHANGED <<waiting, peer, link>> BY <1>3 DEF Connect, Disconnect, wire
  <2>2. world.sessions \in Nat BY DEF Mode
  <2>3. gui' \in {"idle", "connecting", "leaving"} BY <1>3 DEF Connect, Disconnect
  <2>4. sessions' \in 0..world.sessions BY <1>3, <2>2 DEF Connect, Disconnect
  <2> QED BY <2>1, <2>3, <2>4
<1>4. CASE ConnectNext
  <2>1. /\ UNCHANGED <<peer, sessions>> /\ gui' \in {"idle", "connecting", "leaving"}
        /\ link' \in [Port -> BOOLEAN]
     BY <1>4 DEF ConnectNext
  <2>2. \/ UNCHANGED waiting
        \/ \E q \in Port : /\ Len(waiting[q]) < Pending
                           /\ waiting' = [waiting EXCEPT ![q] = Append(@, TRUE)]
    <3> DEFINE off == {p \in Port : ~link[p]}
    <3>1. off # {} => First(off) \in Port BY FirstOf
    <3>2. \/ UNCHANGED waiting
          \/ /\ off # {} /\ Len(waiting[First(off)]) < Pending
             /\ waiting' = [waiting EXCEPT ![First(off)] = Append(@, TRUE)]
       BY <1>4 DEF ConnectNext
    <3> HIDE DEF off
    <3> QED BY <3>1, <3>2
  <2>3. CASE UNCHANGED waiting BY <2>1, <2>3
  <2>4. ASSUME NEW q \in Port, Len(waiting[q]) < Pending,
               waiting' = [waiting EXCEPT ![q] = Append(@, TRUE)]
        PROVE  waiting' \in [Port -> Seq(BOOLEAN)] /\ \A p \in Port : Len(waiting'[p]) <= Pending
    <3> DEFINE longer == Append(waiting[q], TRUE)
    <3>1. longer \in Seq(BOOLEAN) /\ Len(longer) <= Pending BY <2>4
    <3>2. waiting' = [waiting EXCEPT ![q] = longer] BY <2>4
    <3> HIDE DEF longer
    <3> QED BY <3>1, <3>2
  <2> QED BY <2>1, <2>2, <2>3, <2>4
<1>5. CASE DisconnectNext
  <2>1. /\ sessions' = sessions /\ gui' \in {"idle", "connecting", "leaving"}
        /\ peer' \in [Port -> BOOLEAN] /\ link' \in [Port -> BOOLEAN]
     BY <1>5 DEF DisconnectNext, wire
  <2>2. \/ UNCHANGED waiting
        \/ \E q \in Port : /\ waiting[q] # <<>>
                           /\ waiting' = [waiting EXCEPT ![q][Len(waiting[q])] = FALSE]
    <3> DEFINE up == {p \in Port : link[p]}
    <3>1. up # {} => First(up) \in Port
      <4>1. up \in SUBSET Port OBVIOUS
      <4> HIDE DEF up
      <4> QED BY <4>1, FirstOf
    <3>2. \/ UNCHANGED waiting
          \/ /\ up # {} /\ waiting[First(up)] # <<>>
             /\ waiting' = [waiting EXCEPT ![First(up)][Len(waiting[First(up)])] = FALSE]
       BY <1>5 DEF DisconnectNext, wire
    <3> HIDE DEF up
    <3> QED BY <3>1, <3>2
  <2>3. CASE UNCHANGED waiting BY <2>1, <2>3
  <2>4. ASSUME NEW q \in Port, waiting[q] # <<>>,
               waiting' = [waiting EXCEPT ![q][Len(waiting[q])] = FALSE]
        PROVE  waiting' \in [Port -> Seq(BOOLEAN)] /\ \A p \in Port : Len(waiting'[p]) <= Pending
    <3> DEFINE cut == [waiting[q] EXCEPT ![Len(waiting[q])] = FALSE]
    <3>1. cut \in Seq(BOOLEAN) /\ Len(cut) <= Pending
      <4>1. /\ waiting[q] \in Seq(BOOLEAN) /\ Len(waiting[q]) <= Pending
            /\ Len(waiting[q]) \in 1..Len(waiting[q])
         BY <2>4
      <4>2. cut \in Seq(BOOLEAN) /\ Len(cut) = Len(waiting[q]) BY <4>1, ExceptSeq
      <4> QED BY <4>1, <4>2
    <3>2. waiting' = [waiting EXCEPT ![q] = cut] BY <2>4
    <3> HIDE DEF cut
    <3> QED BY <3>1, <3>2
  <2> QED BY <2>1, <2>2, <2>3, <2>4
<1> QED
   BY <1>1, <1>2, <1>3, <1>4, <1>5
   DEF Next, Main, Find, Switch, Heap, Buffer, Device, Map, Endpoint, Setup, Threads,
       CommandsOver, Cleanup, CloseNext, Closed, OpenState, UseState, FailState, Exit, Signal, Command,
       Serve, Create, Eof, Close, Forget, Say, Reply, Check, Copy, Segfault, Send, Quiet, vars

\* Nothing the program, the GUI or a fault does leaves the types.
THEOREM Types == Spec => []TypeOK
<1>1. Init => TypeOK
  <2> SUFFICES ASSUME Init PROVE TypeOK
     OBVIOUS
  <2>1. Numbers BY Starts DEF IInv
  <2>2. world.sessions \in Nat /\ Pending \in Nat BY ServersAssumption DEF Init
  <2>3. /\ waiting \in [Port -> Seq(BOOLEAN)] /\ \A p \in Port : Len(waiting[p]) <= Pending
     BY <2>2 DEF Init
  <2> QED BY <2>1, <2>2, <2>3 DEF Init, TypeOK, Numbers
<1>2. TypeOK /\ IInv /\ IInv' /\ [Next]_vars => TypeOK'
  <2> SUFFICES ASSUME TypeOK, IInv, IInv', [Next]_vars PROVE TypeOK'
     OBVIOUS
  <2>1. Numbers' BY DEF IInv
  <2>2. world' \in Worlds /\ world' = world BY BoardTypes DEF TypeOK
  <2> QED BY <2>1, <2>2, BoardTypes, GuiTypes DEF TypeOK, Numbers
<1> QED BY <1>1, <1>2, Ownership, PTL DEF Spec

----------------------------------------------------------------------------
(* The base firmware.  cleanup() closes numbers that threads still use, and *)
(* its last switch opens the state file under one of them.                  *)

\* How main's start-up numbers what it opens.
Order == <<"heap", "buf", "rproc", "ept">>
Opened ==
  CASE pc["main"] \in {"find", "switch", "heap"} -> 0
    [] pc["main"] = "buf" -> 1
    [] pc["main"] = "rproc" -> 2
    [] pc["main"] \in {"map", "ept"} -> 3
    [] OTHER -> 4

Numbered(k) == \A m \in Number :
  table[m] = IF m = 0 THEN "stdin" ELSE IF m <= k THEN Order[m] ELSE "free"

StartUp ==
  process = "up" /\ pc["main"] \in Starting =>
    /\ Numbered(Opened)
    /\ \A i \in 2..Opened : fd[Order[i]] = i
    /\ \A v \in Port \cup Server : fd[v] = -1
    /\ pc["main"] \in {"find", "switch"} => fw = "base"

\* The steps of cleanup() that are left, and what they have done.
Steps ==
  /\ pc["main"] = "close" =>
       /\ left \in Seq(SUBSET Variable) /\ Len(left) <= 5
       /\ \A i \in 1..Len(left) : left[i] = Closes[5 - Len(left) + i]
  /\ pc["main"] = "open" =>
       left = Writes \/ left = <<"start">> \/ (left = <<>> /\ fw = "base")
  /\ pc["main"] = "use" => left = Writes \/ left = <<"start">>

\* main has not yet closed its number k.
Keeps(k) ==
  \/ pc["main"] \in {"commands", "sleep", "cleanup"}
  \/ pc["main"] = "close" /\ Len(left) > (IF k = 4 THEN 1 ELSE 0)

\* Who can have a number that main has closed.
Taken(k) ==
  \/ table[k] = "free"
  \/ table[k] = "state" /\ pc["main"] = "use" /\ fd["state"] = k
  \/ \E q \in Port :
       \/ table[k] = q /\ fd[q] = k /\ pc[q] = "close"
       \/ table[k] = Listens(q) /\ fd[Listens(q)] = k /\ pc[q] = "over"

Shares ==
  process = "up" /\ (\E p \in Port : pc[p] # "none") =>
    /\ table[0] = "stdin" /\ table[1] = "heap"
    /\ \A k \in 2..4 : fd[Order[k]] = k /\ IF Keeps(k) THEN table[k] = Order[k] ELSE Taken(k)
    /\ Keeps(4) => \A v \in Port \cup Server : fd[v] = -1 \/ fd[v] > 4
    /\ \A p \in Port : pc[p] \in Serving => fd[p] > 4 \/ (fd[p] \in 2..4 /\ table[fd[p]] = p)

\* The file that the last switch writes is nobody else's.
StateFile ==
  process = "up" /\ pc["main"] = "use" =>
    Is("state", "state") /\ \A p \in Port : pc[p] \in Serving => fd[p] # fd["state"]

Ends ==
  /\ process = "early" => fw \in {"base", "none"} \/ Mode = "cli"
  /\ process = "cleaned" => fw = "base"
  /\ process = "up" => pc["main"] \in Starting \cup Ending
BaseInv == IInv /\ StartUp /\ Steps /\ Shares /\ StateFile /\ Ends

\* An open takes the lowest free number: the start-up takes them in order.
LEMMA Lowest ==
  ASSUME Numbers, NEW k \in 0..3, Numbered(k), Opens(Order[k + 1], Order[k + 1])
  PROVE  /\ Numbered(k + 1)'
         /\ fd' = [fd EXCEPT ![Order[k + 1]] = k + 1]
<1>1. PICK n \in Number :
        /\ table[n] = "free" /\ \A m \in 0..(n - 1) : table[m] # "free"
        /\ table' = [table EXCEPT ![n] = Order[k + 1]] /\ fd' = [fd EXCEPT ![Order[k + 1]] = n]
   BY DEF Opens
<1>2. n \in Nat /\ n <= Top /\ \A m \in 0..n : m \in Number BY ServersAssumption DEF Number
<1>3. \A i \in 1..4 : Order[i] # "free" BY DEF Order
<1>4. n > k BY <1>1, <1>2, <1>3 DEF Numbered
<1>5. ~(n > k + 1)
  <2> SUFFICES ASSUME n > k + 1 PROVE FALSE
     OBVIOUS
  <2>1. k + 1 \in 0..(n - 1) /\ k + 1 \in Number BY <1>2
  <2> QED BY <1>1, <2>1 DEF Numbered
<1>6. n = k + 1 BY <1>2, <1>4, <1>5
<1>7. \A m \in Number : m \in Nat BY ServersAssumption DEF Number
<1>8. fd' = [fd EXCEPT ![Order[k + 1]] = k + 1] BY <1>1, <1>6
<1>9. Numbered(k + 1)' BY <1>1, <1>6, <1>7 DEF Numbers, Numbered
<1> QED BY <1>8, <1>9

\* A step of the start-up, which no thread sees.
LEMMA QuietStart ==
  ASSUME BaseInv, process = "up", pc["main"] \in Starting,
         NEW to \in (Starting \cup Ending \cup Idling) \ {"close", "open", "use", "failed"},
         pc' = [pc EXCEPT !["main"] = to], StartUp', Ends'
  PROVE  Steps' /\ Shares' /\ StateFile'
<1>1. \A p \in Port : pc'[p] = "none" BY Names DEF BaseInv, IInv, MainFirst, Numbers
<1>2. pc'["main"] = to BY DEF BaseInv, IInv, Numbers
<1>3. Steps' /\ StateFile' BY <1>2 DEF Steps, StateFile
<1>4. Shares' BY <1>1 DEF Shares
<1> QED BY <1>3, <1>4

LEMMA StartBase ==
  ASSUME BaseInv, Find \/ Switch \/ Heap \/ Buffer \/ Device \/ Map \/ Endpoint \/ Setup
  PROVE  StartUp' /\ Steps' /\ Shares' /\ StateFile' /\ Ends'
<1>1. process = "up" /\ pc["main"] \in Starting
   BY DEF Find, Switch, Heap, Buffer, Device, Map, Endpoint, Setup, Abandons, Go, Starting
<1>2. /\ Numbered(Opened) /\ \A i \in 2..Opened : fd[Order[i]] = i
      /\ \A v \in Port \cup Server : fd[v] = -1
      /\ pc["main"] \in {"find", "switch"} => fw = "base"
   BY <1>1 DEF BaseInv, StartUp
<1>3. PICK to \in Starting \cup {"commands", "cleanup", "over"} : pc' = [pc EXCEPT !["main"] = to]
   BY DEF Find, Switch, Heap, Buffer, Device, Map, Endpoint, Setup, Abandons, Go, Starting
<1>4. pc'["main"] = to BY <1>3 DEF BaseInv, IInv, Numbers
<1>5. Numbers BY DEF BaseInv, IInv
<1>8. \A x : pc' = [pc EXCEPT !["main"] = x] => to = x BY <1>4, <1>5 DEF Numbers
<1>6. StartUp'
  <2> SUFFICES ASSUME process' = "up", to \in Starting
               PROVE /\ Numbered(Opened)' /\ \A i \in 2..Opened' : fd'[Order[i]] = i
                     /\ \A v \in Port \cup Server : fd'[v] = -1
                     /\ to \in {"find", "switch"} => fw' = "base"
     BY <1>4 DEF StartUp
  <2>1. \A v \in Port \cup Server : v \in Variable \ {"heap", "buf", "rproc", "ept", "state"}
     BY DEF Port, Server, Variable, Listens
  <2>2. CASE Find
     BY <1>2, <1>4, <1>8, <2>2 DEF Find, Go, Exits, numbers, Opened, Numbered
  <2>3. CASE Switch
     BY <1>2, <1>4, <1>8, <2>3 DEF Switch, Go, Exits, numbers, Opened, Numbered
  <2>4. CASE Heap
    <3>1. pc["main"] = "heap" /\ to = "buf" /\ Opens("heap", "heap")
       BY <1>4, <1>8, <2>4 DEF Heap, Abandons, Go, Exits, Starting
    <3>2. Numbered(0) BY <1>2, <3>1 DEF Opened
    <3>3. Order[0 + 1] = "heap" BY DEF Order
    <3>4. Numbered(1)' /\ fd' = [fd EXCEPT !["heap"] = 1] BY <1>5, <3>1, <3>2, <3>3, Lowest
    <3>5. Opened' = 1 BY <1>4, <3>1 DEF Opened
    <3> QED BY <1>2, <1>5, <2>1, <3>1, <3>4, <3>5 DEF Numbers
  <2>5. CASE Buffer
    <3>1. pc["main"] = "buf" /\ to = "rproc" /\ Opens("buf", "buf")
       BY <1>4, <1>8, <2>5 DEF Buffer, Abandons, Go, Exits, Starting
    <3>2. Numbered(1) BY <1>2, <3>1 DEF Opened
    <3>3. Order[1 + 1] = "buf" BY DEF Order
    <3>4. Numbered(2)' /\ fd' = [fd EXCEPT !["buf"] = 2] BY <1>5, <3>1, <3>2, <3>3, Lowest
    <3>5. Opened' = 2 BY <1>4, <3>1 DEF Opened
    <3> QED BY <1>2, <1>5, <2>1, <3>1, <3>3, <3>4, <3>5, Names DEF Numbers
  <2>6. CASE Device
    <3>1. pc["main"] = "rproc" /\ to = "map" /\ Opens("rproc", "rproc")
       BY <1>4, <1>8, <2>6 DEF Device, Abandons, Go, Exits, Starting
    <3>2. Numbered(2) /\ fd["buf"] = 2 BY <1>2, <3>1 DEF Opened, Order
    <3>3. Order[2] = "buf" /\ Order[2 + 1] = "rproc" BY DEF Order
    <3>4. Numbered(3)' /\ fd' = [fd EXCEPT !["rproc"] = 3] BY <1>5, <3>1, <3>2, <3>3, Lowest
    <3>5. Opened' = 3 BY <1>4, <3>1 DEF Opened
    <3> QED BY <1>2, <1>5, <2>1, <3>1, <3>2, <3>3, <3>4, <3>5, Names DEF Numbers
  <2>7. CASE Map
     BY <1>2, <1>4, <1>8, <2>7 DEF Map, Abandons, Go, Exits, Starting, Opened, Numbered
  <2>8. CASE Endpoint
    <3>1. pc["main"] = "ept" /\ to = "setup" /\ Opens("ept", "ept")
       BY <1>4, <1>8, <2>8 DEF Endpoint, Abandons, Go, Exits, Starting
    <3>2. Numbered(3) /\ fd["buf"] = 2 /\ fd["rproc"] = 3 BY <1>2, <3>1 DEF Opened, Order
    <3>3. Order[2] = "buf" /\ Order[3] = "rproc" /\ Order[3 + 1] = "ept" BY DEF Order
    <3>4. Numbered(4)' /\ fd' = [fd EXCEPT !["ept"] = 4] BY <1>5, <3>1, <3>2, <3>3, Lowest
    <3>5. Opened' = 4 BY <1>4, <3>1 DEF Opened
    <3> QED BY <1>2, <1>5, <2>1, <3>1, <3>2, <3>3, <3>4, <3>5, Names DEF Numbers
  <2>9. CASE Setup
     BY <1>2, <1>4, <1>8, <2>9 DEF Setup, Abandons, Go, Exits, Starting, Opened, Numbered, numbers
  <2> QED BY <2>2, <2>3, <2>4, <2>5, <2>6, <2>7, <2>8, <2>9
<1>7. Ends'
  <2>1. to = "over" => process' = "early"
     BY <1>4, <1>8
     DEF Find, Switch, Heap, Buffer, Device, Map, Endpoint, Setup, Abandons, Go, Exits, Starting
  <2>2. /\ process' \in {"up", "early"}
        /\ process' = "early" => fw' \in {"base", "none"} \/ Mode' = "cli"
     BY <1>1, <1>2
     DEF Find, Switch, Heap, Buffer, Device, Map, Endpoint, Setup, Abandons, Go, Exits, Mode, board
  <2> QED BY <1>3, <1>4, <2>1, <2>2 DEF Ends, Ending
<1> QED BY <1>1, <1>3, <1>6, <1>7, QuietStart DEF Starting, Ending, Idling

\* The threads start with what main has opened below them.
LEMMA ThreadsBase ==
  ASSUME BaseInv, Threads
  PROVE  StartUp' /\ Steps' /\ Shares' /\ StateFile' /\ Ends'
<1>1. /\ process = "up" /\ process' = "up" /\ pc["main"] = "threads" /\ UNCHANGED <<table, fd>>
      /\ pc'["main"] \in {"sleep", "cleanup"}
      /\ \A p \in Port : pc'[p] \in {"create", "none"}
   BY DEF Threads, board, numbers, BaseInv, IInv, Numbers, Port
<1>2. StartUp' /\ Steps' /\ StateFile' /\ Ends'
   BY <1>1 DEF StartUp, Steps, StateFile, Ends, Starting, Ending
<1>3. /\ Numbered(4) /\ \A i \in 2..4 : fd[Order[i]] = i
      /\ \A v \in Port \cup Server : fd[v] = -1
   BY <1>1 DEF BaseInv, StartUp, Opened, Starting
<1>4. 4 \in Number
   BY <1>3, Names DEF BaseInv, IInv, Numbers, Order
<1>5. \A m \in 0..4 : m \in Number BY <1>4, ServersAssumption DEF Number
<1>6. /\ table[0] = "stdin" /\ table[1] = "heap" /\ \A k \in 2..4 : table[k] = Order[k]
   BY <1>3, <1>5 DEF Numbered, Order
<1>7. Shares'
  <2>1. \A p \in Port : pc'[p] \notin Serving BY <1>1 DEF Serving
  <2>2. \A k \in 2..4 : Keeps(k)' BY <1>1 DEF Keeps
  <2> QED BY <1>1, <1>3, <1>6, <2>1, <2>2 DEF Shares
<1> QED BY <1>2, <1>7

\* A step of main after that, which leaves the descriptors alone.
LEMMA MainMoves ==
  ASSUME BaseInv, process = "up", pc["main"] \in Ending, NEW to,
         pc' = [pc EXCEPT !["main"] = to], UNCHANGED numbers,
         to \notin Starting, \A k \in 2..4 : Keeps(k)' = Keeps(k),
         pc["main"] # "use", Steps', StateFile', Ends'
  PROVE  StartUp' /\ Steps' /\ Shares' /\ StateFile' /\ Ends'
<1>1. pc'["main"] = to /\ \A p \in Port : pc'[p] = pc[p]
   BY Names DEF BaseInv, IInv, Numbers
<1>2. StartUp' BY <1>1 DEF StartUp
<1>3. \A k \in 2..4 : Taken(k) => Taken(k)' BY <1>1 DEF Taken, numbers
<1>4. Shares'
  <2> SUFFICES ASSUME process' = "up", \E p \in Port : pc[p] # "none" PROVE Shares'
     BY <1>1 DEF Shares
  <2> QED BY <1>1, <1>3 DEF BaseInv, Shares, numbers
<1> QED BY <1>2, <1>4

\* cleanup() closes main's own numbers last, and until then those of the
\* servers lie above them.
LEMMA CloseNextBase ==
  ASSUME BaseInv, CloseNext
  PROVE  StartUp' /\ Steps' /\ Shares' /\ StateFile' /\ Ends'
<1> DEFINE n == Len(left)
<1>1. /\ process = "up" /\ pc["main"] = "close" /\ left # <<>> /\ left' = Tail(left)
      /\ UNCHANGED <<process, fd, pc>>
   BY DEF CloseNext
<1>2. /\ left \in Seq(SUBSET Variable) /\ n \in 1..5 /\ Head(left) = Closes[6 - n]
      /\ left' \in Seq(SUBSET Variable) /\ Len(left') = n - 1
      /\ \A i \in 1..Len(left') : left'[i] = Closes[5 - Len(left') + i]
  <2>1. /\ left \in Seq(SUBSET Variable) /\ n <= 5
        /\ \A i \in 1..n : left[i] = Closes[5 - n + i]
     BY <1>1 DEF BaseInv, Steps
  <2>2. n \in 1..5
    <3>1. n \in Nat \ {0} BY <1>1, <2>1, EmptySeq
    <3>2. n <= 5 BY <2>1
    <3> HIDE DEF n
    <3> QED BY <3>1, <3>2
  <2>3. /\ Tail(left) \in Seq(SUBSET Variable) /\ Len(Tail(left)) = n - 1
        /\ \A i \in 1..n - 1 : Tail(left)[i] = left[i + 1]
     BY <1>1, <2>1, HeadTailProperties
  <2>4. Head(left) = left[1] BY <2>1, <2>2
  <2>5. \A i \in 1..n - 1 : left[i + 1] = Closes[5 - n + (i + 1)] BY <2>1, <2>2
  <2>6. \A i \in 1..n - 1 : 5 - n + (i + 1) = 5 - (n - 1) + i BY <2>2
  <2>7. 5 - n + 1 = 6 - n /\ 1 \in 1..n BY <2>2
  <2>8. Head(left) = Closes[6 - n] BY <2>1, <2>4, <2>7
  <2> HIDE DEF n
  <2>9. Len(left') = n - 1 /\ left' \in Seq(SUBSET Variable) BY <1>1, <2>3
  <2>10. \A i \in 1..n - 1 : left'[i] = Closes[5 - (n - 1) + i] BY <1>1, <2>3, <2>5, <2>6
  <2> QED BY <2>1, <2>2, <2>8, <2>9, <2>10
<1>3. StartUp' /\ Steps' /\ StateFile' /\ Ends'
   BY <1>1, <1>2 DEF StartUp, Steps, StateFile, Ends, Starting, Ending
<1>4. Shares'
  <2> SUFFICES ASSUME \E p \in Port : pc[p] # "none" PROVE Shares'
     BY <1>1 DEF Shares
  <2>1. /\ table[0] = "stdin" /\ table[1] = "heap"
        /\ fd["buf"] = 2 /\ fd["rproc"] = 3 /\ fd["ept"] = 4
        /\ \A k \in 2..4 : IF Keeps(k) THEN table[k] = Order[k] ELSE Taken(k)
        /\ Keeps(4) => \A v \in Port \cup Server : fd[v] = -1 \/ fd[v] > 4
        /\ \A p \in Port : pc[p] \in Serving => fd[p] > 4 \/ (fd[p] \in 2..4 /\ table[fd[p]] = p)
     BY <1>1 DEF BaseInv, Shares, Order
  <2>2. \A k \in 2..4 : Keeps(k) <=> n > (IF k = 4 THEN 1 ELSE 0) BY <1>1 DEF Keeps
  <2>3. \A k \in 2..4 : Keeps(k)' <=> n - 1 > (IF k = 4 THEN 1 ELSE 0) BY <1>1, <1>2 DEF Keeps
  <2>4. \A m \in 0..4 : m \in Number
     BY <2>1, Names, ServersAssumption DEF BaseInv, IInv, Numbers, Number
  <2>5. \A k \in 2..4 : fd[Order[k]] = k BY <2>1 DEF Order
  <2>6. table' = Without(IF "buf" \in Head(left) /\ fd["buf"] < 0 THEN {}
                         ELSE {fd[v] : v \in Head(left)})
     BY DEF CloseNext
  <2> HIDE DEF n
  <2>7. CASE n > 2
    <3>1. Head(left) \subseteq Port \cup Server
      <4>1. Head(left) \in {Closes[1], Closes[2], Closes[3]} BY <1>2, <2>7
      <4>2. \A p \in Port : {p, Listens(p)} \subseteq Port \cup Server BY DEF Server
      <4>3. {Closes[1], Closes[2], Closes[3]} = {{p, Listens(p)} : p \in Port}
         BY DEF Closes, Port, Listens
      <4> QED BY <4>1, <4>2, <4>3
    <3>2. "buf" \notin Head(left) BY <3>1 DEF Port, Server, Listens
    <3>3. \A m \in 0..4 : m \notin {fd[v] : v \in Head(left)} 
      <4>1. Keeps(4) BY <2>2, <2>7, <1>2
      <4>2. \A v \in Head(left) : fd[v] = -1 \/ fd[v] > 4 BY <2>1, <3>1, <4>1
      <4> QED BY <4>2
    <3>4. \A m \in 0..4 : table'[m] = table[m] BY <2>4, <2>6, <3>2, <3>3 DEF Without
    <3>5. \A k \in 2..4 : Keeps(k) /\ Keeps(k)' BY <1>2, <2>2, <2>3, <2>7
    <3> QED BY <1>1, <2>1, <2>5, <3>4, <3>5 DEF Shares
  <2>8. CASE n = 2
    <3>1. Head(left) = {"ept"} BY <1>2, <2>8 DEF Closes
    <3>2. \A m \in Number : table'[m] = IF m = 4 THEN "free" ELSE table[m]
       BY <2>1, <2>6, <3>1 DEF Without
    <3>3. ~Keeps(4)' /\ Keeps(2)' /\ Keeps(3)' /\ Keeps(4) /\ Keeps(2) /\ Keeps(3)
       BY <2>2, <2>3, <2>8
    <3>4. Taken(4)' BY <2>4, <3>2 DEF Taken
    <3>5. table'[0] = "stdin" /\ table'[1] = "heap" /\ table'[2] = Order[2] /\ table'[3] = Order[3]
       BY <2>1, <2>4, <3>2, <3>3
    <3>6. \A p \in Port : pc[p] \in Serving => fd[p] > 4
       BY <2>1, <3>3 DEF Order, Port
    <3> QED BY <1>1, <2>5, <3>3, <3>4, <3>5, <3>6 DEF Shares
  <2>9. CASE n = 1
    <3>1. Head(left) = {"buf", "rproc"} BY <1>2, <2>9 DEF Closes
    <3>2. \A m \in Number : table'[m] = IF m = 2 \/ m = 3 THEN "free" ELSE table[m]
       BY <2>1, <2>6, <3>1 DEF Without
    <3>3. ~Keeps(4)' /\ ~Keeps(2)' /\ ~Keeps(3)' /\ ~Keeps(4) /\ Keeps(2) /\ Keeps(3)
       BY <2>2, <2>3, <2>9
    <3>4. Taken(4)'
      <4>1. Taken(4) /\ table'[4] = table[4] BY <2>1, <2>4, <3>2, <3>3
      <4> QED BY <1>1, <4>1 DEF Taken
    <3>5. Taken(2)' /\ Taken(3)' BY <2>4, <3>2 DEF Taken
    <3>6. table'[0] = "stdin" /\ table'[1] = "heap" BY <2>1, <2>4, <3>2
    <3>7. \A p \in Port : pc[p] \in Serving => fd[p] > 4 \/ (fd[p] = 4 /\ table'[4] = p)
       BY <2>1, <2>4, <3>2, <3>3 DEF Order, Port
    <3> QED BY <1>1, <2>5, <3>3, <3>4, <3>5, <3>6, <3>7 DEF Shares
  <2> QED BY <1>2, <2>7, <2>8, <2>9
<1> QED BY <1>3, <1>4

\* A thread that is still serving under a number above main's leaves one of
\* main's free: each of the other two has at most one of the three.
LEMMA FreeBelow ==
  ASSUME Numbers, pc["main"] = "open", \A k \in 2..4 : Taken(k),
         NEW p \in Port, pc[p] \in Serving, fd[p] > 4
  PROVE  \E k \in 2..4 : table[k] = "free"
<1> DEFINE Has(q, k) == \/ fd[q] = k /\ pc[q] = "close"
                        \/ fd[Listens(q)] = k /\ pc[q] = "over"
<1> SUFFICES ASSUME \A k \in 2..4 : table[k] # "free" PROVE FALSE
   OBVIOUS
<1>1. \A k \in 2..4 : \E q \in Port : Has(q, k) BY DEF Taken
<1>2. \A q \in Port : \A k, m \in 2..4 : Has(q, k) /\ Has(q, m) => k = m
   OBVIOUS
<1>3. \A k \in 2..4 : ~Has(p, k) BY DEF Serving
<1> HIDE DEF Has
<1>4. PICK a \in Port, b \in Port, c \in Port : Has(a, 2) /\ Has(b, 3) /\ Has(c, 4)
   BY <1>1
<1>5. a # b /\ a # c /\ b # c /\ a # p /\ b # p /\ c # p BY <1>2, <1>3, <1>4
<1> QED BY <1>5 DEF Port

LEMMA OpenStateBase ==
  ASSUME BaseInv, OpenState
  PROVE  StartUp' /\ Steps' /\ Shares' /\ StateFile' /\ Ends'
<1>1. /\ process = "up" /\ pc["main"] = "open" /\ UNCHANGED <<process, left>> /\ left # <<>>
      /\ pc' = [pc EXCEPT !["main"] = "use"]
   BY DEF OpenState, Go, board
<1>2. Numbers /\ pc'["main"] = "use" /\ \A p \in Port : pc'[p] = pc[p]
   BY <1>1, Names DEF BaseInv, IInv, Numbers
<1>3. PICK n \in Number :
        /\ table[n] = "free" /\ \A m \in 0..(n - 1) : table[m] # "free"
        /\ table' = [table EXCEPT ![n] = "state"] /\ fd' = [fd EXCEPT !["state"] = n]
   BY DEF OpenState, Opens
<1>4. /\ fd'["state"] = n /\ table'[n] = "state"
      /\ \A m \in Number : m # n => table'[m] = table[m]
      /\ \A v \in Variable \ {"state"} : fd'[v] = fd[v]
   BY <1>2, <1>3, Names DEF Numbers
<1>5. StartUp' /\ Steps' /\ Ends'
   BY <1>1, <1>2 DEF BaseInv, StartUp, Steps, Ends, Starting, Ending
<1>6. CASE \A p \in Port : pc[p] = "none"
  <2>1. Shares' BY <1>2, <1>6 DEF Shares
  <2>2. StateFile' BY <1>2, <1>3, <1>4, <1>6 DEF StateFile, Is, Serving
  <2> QED BY <1>5, <2>1, <2>2
<1>7. CASE \E p \in Port : pc[p] # "none"
  <2>1. /\ table[0] = "stdin" /\ table[1] = "heap"
        /\ \A k \in 2..4 : fd[Order[k]] = k /\ ~Keeps(k) /\ ~Keeps(k)' /\ Taken(k)
        /\ \A p \in Port : pc[p] \in Serving => fd[p] > 4 \/ (fd[p] \in 2..4 /\ table[fd[p]] = p)
     BY <1>1, <1>2, <1>7 DEF BaseInv, Shares, Keeps
  <2>2. 4 \in Number BY <2>1, <1>2, Names DEF Numbers, Order
  <2>3. n \in Nat /\ \A m \in 0..4 : m \in Number BY <2>2, ServersAssumption DEF Number
  <2>4. \A p \in Port : pc[p] \in Serving => fd[p] # n
    <3> SUFFICES ASSUME NEW p \in Port, pc[p] \in Serving, fd[p] = n PROVE FALSE
       OBVIOUS
    <3>1. fd[p] > 4 BY <2>1, <1>3, Names
    <3>2. PICK k \in 2..4 : table[k] = "free" BY <1>1, <1>2, <2>1, <3>1, FreeBelow
    <3>3. k \in 0..(n - 1) BY <3>1, <2>3
    <3> QED BY <1>3, <3>2, <3>3
  <2>5. StateFile'
     BY <1>2, <1>3, <1>4, <2>4, Names DEF StateFile, Is
  <2>6. \A k \in 2..4 : Taken(k)'
    <3> SUFFICES ASSUME NEW k \in 2..4 PROVE Taken(k)'
       OBVIOUS
    <3>1. CASE k = n BY <1>2, <1>4, <3>1 DEF Taken
    <3>2. CASE k # n
      <4>1. table'[k] = table[k] /\ Taken(k) BY <1>4, <2>1, <2>3, <3>2
      <4>2. \A q \in Port : fd'[q] = fd[q] /\ fd'[Listens(q)] = fd[Listens(q)]
         BY <1>4, Names DEF Listens, Port
      <4> QED BY <1>1, <1>2, <4>1, <4>2 DEF Taken
    <3> QED BY <3>1, <3>2
  <2>7. \A k \in 2..4 : fd'[Order[k]] = k BY <1>4, <2>1, Names DEF Order
  <2>8. table'[0] = "stdin" /\ table'[1] = "heap" BY <1>3, <1>4, <2>1, <2>3
  <2>9. \A p \in Port : pc[p] \in Serving => fd'[p] > 4 \/ (fd'[p] \in 2..4 /\ table'[fd'[p]] = p)
    <3> SUFFICES ASSUME NEW p \in Port, pc[p] \in Serving, ~(fd[p] > 4)
                 PROVE fd'[p] \in 2..4 /\ table'[fd'[p]] = p
       BY <1>4, Names
    <3>1. fd'[p] = fd[p] /\ fd[p] \in 2..4 /\ fd[p] # n BY <1>4, <2>1, <2>4, Names
    <3> QED BY <1>4, <2>1, <2>3, <3>1
  <2>10. Shares' BY <1>2, <2>1, <2>6, <2>7, <2>8, <2>9 DEF Shares
  <2> QED BY <1>5, <2>5, <2>10
<1> QED BY <1>6, <1>7

\* Nobody has closed the file that the switch closes itself.
LEMMA CloseState ==
  ASSUME BaseInv, process = "up", pc["main"] = "use", NEW to \in {"open", "failed"},
         pc' = [pc EXCEPT !["main"] = to], UNCHANGED <<process, fd>>,
         table' = Without({fd["state"]})
  PROVE  Is("state", "state") /\ pc'["main"] = to /\ StartUp' /\ Shares' /\ StateFile' /\ Ends'
<1> DEFINE n == fd["state"]
<1>1. table' = Without({n})
   OBVIOUS
<1>2. Numbers /\ pc'["main"] = to /\ \A p \in Port : pc'[p] = pc[p]
   BY Names DEF BaseInv, IInv, Numbers
<1>3. n \in Number /\ table[n] = "state" BY DEF BaseInv, StateFile, Is
<1>4. \A m \in Number : table'[m] = IF m = n THEN "free" ELSE table[m] BY <1>1 DEF Without
<1>5. StartUp' /\ StateFile' /\ Ends'
   BY <1>2 DEF BaseInv, StartUp, StateFile, Ends, Starting, Ending
<1>6. Shares'
  <2> SUFFICES ASSUME \E p \in Port : pc[p] # "none" PROVE Shares'
     BY <1>2 DEF Shares
  <2>1. /\ table[0] = "stdin" /\ table[1] = "heap"
        /\ \A k \in 2..4 : fd[Order[k]] = k /\ ~Keeps(k) /\ ~Keeps(k)' /\ Taken(k)
        /\ \A p \in Port : pc[p] \in Serving => fd[p] > 4 \/ (fd[p] \in 2..4 /\ table[fd[p]] = p)
     BY <1>1, <1>2 DEF BaseInv, Shares, Keeps
  <2>2. 4 \in Number BY <2>1, <1>2, Names DEF Numbers, Order
  <2>3. \A m \in 0..4 : m \in Number BY <2>2, ServersAssumption DEF Number
  <2>4. table'[0] = "stdin" /\ table'[1] = "heap" BY <1>3, <1>4, <2>1, <2>3
  <2>5. \A k \in 2..4 : Taken(k)'
    <3> SUFFICES ASSUME NEW k \in 2..4 PROVE Taken(k)'
       OBVIOUS
    <3>1. CASE k = n BY <1>4, <2>3, <3>1 DEF Taken
    <3>2. CASE k # n
      <4>1. table'[k] = table[k] /\ Taken(k) BY <1>4, <2>1, <2>3, <3>2
      <4> QED BY <1>1, <1>2, <3>2, <4>1 DEF Taken
    <3> QED BY <3>1, <3>2
  <2>6. \A p \in Port : p # "state" BY DEF Port
  <2>7. \A p \in Port : pc[p] \in Serving => fd[p] > 4 \/ (fd[p] \in 2..4 /\ table'[fd[p]] = p)
     BY <1>3, <1>4, <2>1, <2>3, <2>6
  <2> QED BY <1>1, <1>2, <2>1, <2>4, <2>5, <2>7 DEF Shares
<1> QED BY <1>2, <1>3, <1>5, <1>6 DEF Is

\* So the firmware is written.
LEMMA UseStateBase ==
  ASSUME BaseInv, UseState
  PROVE  StartUp' /\ Steps' /\ Shares' /\ StateFile' /\ Ends'
<1>1. /\ process = "up" /\ pc["main"] = "use" /\ UNCHANGED <<process, fd>>
      /\ pc' = [pc EXCEPT !["main"] = "open"] /\ table' = Without({fd["state"]})
   BY DEF UseState, Go
<1>2. Is("state", "state") /\ pc'["main"] = "open" /\ StartUp' /\ Shares' /\ StateFile' /\ Ends'
   BY <1>1, CloseState
<1>3. left = Writes \/ left = <<"start">> BY <1>1 DEF BaseInv, Steps
<1>4. left' = Tail(left) /\ fw' = IF Head(left) = "stop" THEN "none" ELSE "base"
   BY <1>2 DEF UseState
<1>5. left' = <<"start">> \/ (left' = <<>> /\ fw' = "base")
  <2>1. /\ Head(Writes) = "stop" /\ Tail(Writes) = <<"start">>
        /\ Head(<<"start">>) = "start" /\ Tail(<<"start">>) = <<>>
     BY DEF Writes
  <2> QED BY <1>3, <1>4, <2>1
<1> QED BY <1>2, <1>5 DEF Steps

\* Or a call of it fails, and what the C7x runs is what the steps before left.
LEMMA FailStateBase ==
  ASSUME BaseInv, FailState
  PROVE  StartUp' /\ Steps' /\ Shares' /\ StateFile' /\ Ends'
<1>1. process = "up" /\ pc' = [pc EXCEPT !["main"] = "failed"] /\ UNCHANGED <<process, fd>>
   BY DEF FailState, Go, board
<1>2. pc'["main"] = "failed" BY <1>1 DEF BaseInv, IInv, Numbers
<1>3. Steps' BY <1>2 DEF Steps
<1>4. CASE pc["main"] = "open" /\ UNCHANGED table
  <2>1. UNCHANGED numbers BY <1>1, <1>4 DEF numbers
  <2>2. \A k \in 2..4 : Keeps(k)' = Keeps(k) BY <1>2, <1>4 DEF Keeps
  <2>3. StateFile' /\ Ends' BY <1>1, <1>2 DEF BaseInv, StateFile, Ends, Ending
  <2> QED BY <1>1, <1>3, <1>4, <2>1, <2>2, <2>3, MainMoves DEF Starting, Ending
<1>5. CASE pc["main"] = "use" /\ table' = Without({fd["state"]})
   BY <1>1, <1>3, <1>5, CloseState
<1> QED BY <1>4, <1>5 DEF FailState, Go

\* What a step of a thread leaves alone.
LEMMA ThreadStep ==
  ASSUME BaseInv, process = "up", NEW p \in Port, pc[p] # "none", NEW to,
         pc' = [pc EXCEPT ![p] = to], UNCHANGED <<world, process, fw, left>>
  PROVE  /\ pc'["main"] = pc["main"] /\ pc["main"] \notin Starting /\ pc'[p] = to
         /\ \A q \in Port \ {p} : pc'[q] = pc[q]
         /\ StartUp' /\ Steps' /\ Ends'
         /\ \A k \in 2..4 : Keeps(k)' = Keeps(k) /\ (on => Keeps(k)) /\ (Keeps(4) => Keeps(k))
         /\ table[0] = "stdin" /\ table[1] = "heap"
         /\ \A k \in 2..4 : fd[Order[k]] = k /\ IF Keeps(k) THEN table[k] = Order[k] ELSE Taken(k)
         /\ Keeps(4) => \A v \in Port \cup Server : fd[v] = -1 \/ fd[v] > 4
         /\ \A q \in Port : pc[q] \in Serving => fd[q] > 4 \/ (fd[q] \in 2..4 /\ table[fd[q]] = q)
         /\ \A m \in 0..4 : m \in Number
<1>1. /\ pc'["main"] = pc["main"] /\ pc["main"] \notin Starting /\ pc'[p] = to
      /\ \A q \in Port \ {p} : pc'[q] = pc[q]
   BY Names DEF BaseInv, IInv, Numbers, MainFirst
<1>2. StartUp' /\ Steps' /\ Ends'
   BY <1>1 DEF BaseInv, StartUp, Steps, Ends, Mode
<1>3. \A k \in 2..4 : Keeps(k)' = Keeps(k) /\ (Keeps(4) => Keeps(k))
  <2>1. pc["main"] = "close" => Len(left) \in Nat BY DEF BaseInv, Steps
  <2> QED BY <1>1, <2>1 DEF Keeps
<1>4. on => \A k \in 2..4 : Keeps(k)
   BY <1>1 DEF Keeps, BaseInv, IInv, MainLast, Ends, Ending
<1>5. /\ table[0] = "stdin" /\ table[1] = "heap"
      /\ \A k \in 2..4 : fd[Order[k]] = k /\ IF Keeps(k) THEN table[k] = Order[k] ELSE Taken(k)
      /\ Keeps(4) => \A v \in Port \cup Server : fd[v] = -1 \/ fd[v] > 4
      /\ \A q \in Port : pc[q] \in Serving => fd[q] > 4 \/ (fd[q] \in 2..4 /\ table[fd[q]] = q)
   BY DEF BaseInv, Shares
<1>6. 4 \in Number BY <1>5, Names DEF BaseInv, IInv, Numbers, Order
<1>7. \A m \in 0..4 : m \in Number BY <1>6, ServersAssumption DEF Number
<1> QED BY <1>1, <1>2, <1>3, <1>4, <1>5, <1>7

\* It goes on, or gives up, without touching a descriptor.
LEMMA QuietBase ==
  ASSUME BaseInv, process = "up", NEW p \in Port, pc[p] \notin {"none", "close", "over"}, NEW to,
         to \in Serving => pc[p] \in Serving,
         pc' = [pc EXCEPT ![p] = to], UNCHANGED <<world, process, fw, left, numbers>>
  PROVE  StartUp' /\ Steps' /\ Shares' /\ StateFile' /\ Ends'
<1>1. StartUp' /\ Steps' /\ Ends' BY ThreadStep
<1>2. \A q \in Port : pc'[q] \in Serving => pc[q] \in Serving BY ThreadStep
<1>3. StateFile' BY <1>2, ThreadStep DEF BaseInv, StateFile, Is, numbers
<1>4. \A k \in 2..4 : Taken(k) => Taken(k)'
  <2>1. \A q \in Port : pc[q] \in {"close", "over"} => pc'[q] = pc[q] BY ThreadStep
  <2>2. pc'["main"] = pc["main"] BY ThreadStep
  <2> QED BY <2>1, <2>2 DEF Taken, numbers
<1>5. Shares'
  <2>1. /\ \A k \in 2..4 : Keeps(k)' = Keeps(k)
        /\ table[0] = "stdin" /\ table[1] = "heap"
        /\ \A k \in 2..4 : fd[Order[k]] = k /\ IF Keeps(k) THEN table[k] = Order[k] ELSE Taken(k)
        /\ Keeps(4) => \A v \in Port \cup Server : fd[v] = -1 \/ fd[v] > 4
        /\ \A q \in Port : pc[q] \in Serving => fd[q] > 4 \/ (fd[q] \in 2..4 /\ table[fd[q]] = q)
     BY ThreadStep
  <2> QED BY <1>2, <1>4, <2>1 DEF Shares, numbers
<1> QED BY <1>1, <1>3, <1>5

\* It opens the lowest free number, which is main's only if main has closed it.
LEMMA OpenBase ==
  ASSUME BaseInv, process = "up", NEW p \in Port, pc[p] \in {"create", "accepting"}, NEW to,
         NEW v, Opens(v, v), pc' = [pc EXCEPT ![p] = to], UNCHANGED <<world, process, fw, left>>,
         \/ v = p /\ to \in Serving /\ (~on => to = "close")
         \/ v = Listens(p) /\ to \notin Serving /\ (~on => to = "over")
  PROVE  StartUp' /\ Steps' /\ Shares' /\ StateFile' /\ Ends'
<1>1. v \in Port \cup Server /\ v \notin {"free", "stdin", "heap", "buf", "rproc", "ept", "state"}
   BY DEF Port, Server, Listens
<1>2. Numbers BY DEF BaseInv, IInv
<1>3. PICK n \in Number :
        /\ table[n] = "free" /\ \A m \in 0..(n - 1) : table[m] # "free"
        /\ table' = [table EXCEPT ![n] = v] /\ fd' = [fd EXCEPT ![v] = n]
   BY DEF Opens
<1>4. /\ fd'[v] = n /\ table'[n] = v
      /\ \A m \in Number : m # n => table'[m] = table[m]
      /\ \A w \in Variable : w # v => fd'[w] = fd[w]
   BY <1>1, <1>2, <1>3 DEF Numbers, Variable
<1>5. n \in Nat BY ServersAssumption DEF Number
<1>6. /\ StartUp' /\ Steps' /\ Ends'
      /\ pc'["main"] = pc["main"] /\ pc'[p] = to /\ \A q \in Port \ {p} : pc'[q] = pc[q]
      /\ \A m \in 0..4 : m \in Number
      /\ \A k \in 2..4 : Keeps(k)' = Keeps(k) /\ (on => Keeps(k)) /\ (Keeps(4) => Keeps(k))
      /\ table[0] = "stdin" /\ table[1] = "heap"
      /\ \A k \in 2..4 : fd[Order[k]] = k /\ IF Keeps(k) THEN table[k] = Order[k] ELSE Taken(k)
      /\ Keeps(4) => \A w \in Port \cup Server : fd[w] = -1 \/ fd[w] > 4
      /\ \A q \in Port : pc[q] \in Serving => fd[q] > 4 \/ (fd[q] \in 2..4 /\ table[fd[q]] = q)
   BY ThreadStep
<1>7. n \notin {0, 1} /\ \A k \in 2..4 : Keeps(k) => n # k
  <2>1. \A k \in 2..4 : Order[k] # "free" BY DEF Order
  <2> QED BY <1>3, <1>6, <2>1
<1>8. \A k \in 2..4 : ~Keeps(k) => Taken(k)'
  <2> SUFFICES ASSUME NEW k \in 2..4, ~Keeps(k) PROVE Taken(k)'
     OBVIOUS
  <2>1. ~on /\ Taken(k) BY <1>6
  <2>2. CASE k = n
    <3>1. table'[k] = v /\ fd'[v] = k BY <1>4, <2>2
    <3> QED BY <1>6, <2>1, <3>1 DEF Taken
  <2>3. CASE k # n
    <3>1. table'[k] = table[k] BY <1>4, <1>6, <2>3
    <3>2. fd'["state"] = fd["state"] BY <1>1, <1>4, Names
    <3>3. CASE table[k] = "free" \/ table[k] = "state"
       BY <1>6, <2>1, <3>1, <3>2, <3>3, Names DEF Taken, Port, Listens
    <3>4. CASE \E q \in Port :
                 \/ table[k] = q /\ fd[q] = k /\ pc[q] = "close"
                 \/ table[k] = Listens(q) /\ fd[Listens(q)] = k /\ pc[q] = "over"
      <4>1. PICK q \in Port :
              \/ table[k] = q /\ fd[q] = k /\ pc[q] = "close"
              \/ table[k] = Listens(q) /\ fd[Listens(q)] = k /\ pc[q] = "over"
         BY <3>4
      <4>2. q # p BY <4>1
      <4>3. fd'[q] = fd[q] /\ fd'[Listens(q)] = fd[Listens(q)]
        <5>1. q # v /\ Listens(q) # v BY <4>2 DEF Listens, Port
        <5> QED BY <1>4, <5>1, Names
      <4> QED BY <1>6, <3>1, <4>1, <4>2, <4>3 DEF Taken
    <3> QED BY <2>1, <3>3, <3>4 DEF Taken
  <2> QED BY <2>2, <2>3
<1>9. Shares'
  <2>1. \A k \in 2..4 : fd'[Order[k]] = k
    <3>1. \A k \in 2..4 : Order[k] \in Variable /\ Order[k] # v BY <1>1, Names DEF Order
    <3> QED BY <1>4, <1>6, <3>1
  <2>2. \A k \in 2..4 : IF Keeps(k)' THEN table'[k] = Order[k] ELSE Taken(k)'
     BY <1>4, <1>6, <1>7, <1>8
  <2>3. Keeps(4)' => \A w \in Port \cup Server : fd'[w] = -1 \/ fd'[w] > 4
    <3>1. Keeps(4) => n > 4
      <4>1. Keeps(4) => Keeps(2) /\ Keeps(3) BY <1>6
      <4> QED BY <1>5, <1>7, <4>1
    <3> QED BY <1>4, <1>6, <3>1 DEF Variable
  <2>4. table'[0] = "stdin" /\ table'[1] = "heap" BY <1>4, <1>6, <1>7
  <2>5. \A q \in Port : pc'[q] \in Serving => fd'[q] > 4 \/ (fd'[q] \in 2..4 /\ table'[fd'[q]] = q)
    <3> SUFFICES ASSUME NEW q \in Port, pc'[q] \in Serving
                 PROVE fd'[q] > 4 \/ (fd'[q] \in 2..4 /\ table'[fd'[q]] = q)
       OBVIOUS
    <3>1. CASE q = p
      <4>1. v = p BY <1>6, <3>1
      <4> QED BY <1>4, <1>5, <1>7, <3>1, <4>1
    <3>2. CASE q # p
      <4>1. fd'[q] = fd[q] /\ pc[q] \in Serving BY <1>4, <1>6, <3>2, Names DEF Listens, Port
      <4>2. fd[q] \in 2..4 /\ table[fd[q]] = q => fd[q] # n BY <1>3, Names
      <4> QED BY <1>4, <1>6, <4>1, <4>2
    <3> QED BY <3>1, <3>2
  <2> QED BY <2>1, <2>2, <2>3, <2>4, <2>5 DEF Shares
<1>10. StateFile'
  <2> SUFFICES ASSUME pc["main"] = "use"
               PROVE Is("state", "state")' /\ \A q \in Port : pc'[q] \in Serving => fd'[q] # fd'["state"]
     BY <1>6 DEF StateFile
  <2>1. Is("state", "state") /\ \A q \in Port : pc[q] \in Serving => fd[q] # fd["state"]
     BY DEF BaseInv, StateFile
  <2>2. fd'["state"] = fd["state"] /\ fd["state"] # n BY <1>1, <1>3, <1>4, <2>1, Names DEF Is
  <2>3. \A q \in Port : pc'[q] \in Serving => fd'[q] = n \/ (fd'[q] = fd[q] /\ pc[q] \in Serving)
     BY <1>4, <1>6, Names DEF Listens, Port
  <2> QED BY <1>4, <2>1, <2>2, <2>3 DEF Is
<1> QED BY <1>6, <1>9, <1>10

\* It closes its own number, or one of main's that it has been given.
LEMMA CloseBase ==
  ASSUME BaseInv, NEW p \in Port, Close(p)
  PROVE  StartUp' /\ Steps' /\ Shares' /\ StateFile' /\ Ends'
<1> DEFINE n == fd[p]
<1>1. /\ process = "up" /\ pc[p] = "close" /\ pc' = [pc EXCEPT ![p] = "forget"]
      /\ UNCHANGED <<world, process, fw, left, fd>>
      /\ \A m \in Number : table'[m] = IF m = n THEN "free" ELSE table[m]
   BY DEF Close, Go, board, Without
<1>2. /\ StartUp' /\ Steps' /\ Ends'
      /\ pc'["main"] = pc["main"] /\ pc'[p] = "forget" /\ \A q \in Port \ {p} : pc'[q] = pc[q]
      /\ \A m \in 0..4 : m \in Number
      /\ \A k \in 2..4 : Keeps(k)' = Keeps(k)
      /\ table[0] = "stdin" /\ table[1] = "heap"
      /\ \A k \in 2..4 : fd[Order[k]] = k /\ IF Keeps(k) THEN table[k] = Order[k] ELSE Taken(k)
      /\ Keeps(4) => \A w \in Port \cup Server : fd[w] = -1 \/ fd[w] > 4
      /\ \A q \in Port : pc[q] \in Serving => fd[q] > 4 \/ (fd[q] \in 2..4 /\ table[fd[q]] = q)
   BY <1>1, ThreadStep
<1>3. n > 4 \/ (n \in 2..4 /\ table[n] = p) BY <1>1, <1>2 DEF Serving
<1>4. \A k \in 2..4 : Keeps(k) => k # n BY <1>2, <1>3 DEF Order, Port
<1>5. \A k \in 2..4 : Taken(k) => Taken(k)'
  <2> SUFFICES ASSUME NEW k \in 2..4, Taken(k) PROVE Taken(k)'
     OBVIOUS
  <2>1. CASE k = n BY <1>1, <1>2, <2>1 DEF Taken
  <2>2. CASE k # n
    <3>1. table'[k] = table[k] BY <1>1, <1>2, <2>2
    <3>2. CASE table[k] = "free" \/ (table[k] = "state" /\ pc["main"] = "use" /\ fd["state"] = k)
       BY <1>1, <1>2, <3>1, <3>2 DEF Taken
    <3>3. CASE \E q \in Port :
                 \/ table[k] = q /\ fd[q] = k /\ pc[q] = "close"
                 \/ table[k] = Listens(q) /\ fd[Listens(q)] = k /\ pc[q] = "over"
      <4>1. PICK q \in Port :
              \/ table[k] = q /\ fd[q] = k /\ pc[q] = "close"
              \/ table[k] = Listens(q) /\ fd[Listens(q)] = k /\ pc[q] = "over"
         BY <3>3
      <4>2. q # p BY <1>1, <2>2, <4>1
      <4> QED BY <1>1, <1>2, <3>1, <4>1, <4>2 DEF Taken
    <3> QED BY <3>2, <3>3 DEF Taken
  <2> QED BY <2>1, <2>2
<1>6. \A q \in Port : pc'[q] \in Serving => q # p /\ pc[q] \in Serving BY <1>2 DEF Serving
<1>7. Shares'
  <2>1. table'[0] = "stdin" /\ table'[1] = "heap" BY <1>1, <1>2, <1>3
  <2>2. \A k \in 2..4 : IF Keeps(k)' THEN table'[k] = Order[k] ELSE Taken(k)'
     BY <1>1, <1>2, <1>4, <1>5
  <2>3. \A q \in Port : pc'[q] \in Serving => fd[q] > 4 \/ (fd[q] \in 2..4 /\ table'[fd[q]] = q)
    <3> SUFFICES ASSUME NEW q \in Port, pc'[q] \in Serving, ~(fd[q] > 4)
                 PROVE fd[q] \in 2..4 /\ table'[fd[q]] = q
       OBVIOUS
    <3>1. fd[q] \in 2..4 /\ table[fd[q]] = q BY <1>2, <1>6
    <3>2. fd[q] # n BY <1>3, <1>6, <3>1
    <3>3. fd[q] \in 0..4 BY <3>1
    <3>4. fd[q] \in Number BY <1>2, <3>3
    <3> QED BY <1>1, <3>1, <3>2, <3>4
  <2> QED BY <1>1, <1>2, <2>1, <2>2, <2>3 DEF Shares
<1>8. StateFile'
  <2>1. pc["main"] = "use" => /\ Is("state", "state")
                              /\ \A q \in Port : pc[q] \in Serving => fd[q] # fd["state"]
     BY <1>1 DEF BaseInv, StateFile
  <2>2. pc["main"] = "use" => fd["state"] # n BY <1>1, <2>1 DEF Serving
  <2> QED BY <1>1, <1>2, <1>6, <2>1, <2>2 DEF StateFile, Is
<1> QED BY <1>2, <1>7, <1>8

\* And forgets it.
LEMMA ForgetBase ==
  ASSUME BaseInv, NEW p \in Port, Forget(p)
  PROVE  StartUp' /\ Steps' /\ Shares' /\ StateFile' /\ Ends'
<1>1. /\ process = "up" /\ pc[p] = "forget" /\ pc' = [pc EXCEPT ![p] = Again(p)]
      /\ UNCHANGED <<world, process, fw, left, table>> /\ fd' = [fd EXCEPT ![p] = -1]
   BY DEF Forget, Go, board
<1>2. /\ StartUp' /\ Steps' /\ Ends'
      /\ pc'["main"] = pc["main"] /\ pc'[p] = Again(p) /\ \A q \in Port \ {p} : pc'[q] = pc[q]
      /\ \A m \in 0..4 : m \in Number
      /\ \A k \in 2..4 : Keeps(k)' = Keeps(k)
      /\ table[0] = "stdin" /\ table[1] = "heap"
      /\ \A k \in 2..4 : fd[Order[k]] = k /\ IF Keeps(k) THEN table[k] = Order[k] ELSE Taken(k)
      /\ Keeps(4) => \A w \in Port \cup Server : fd[w] = -1 \/ fd[w] > 4
      /\ \A q \in Port : pc[q] \in Serving => fd[q] > 4 \/ (fd[q] \in 2..4 /\ table[fd[q]] = q)
   BY <1>1, ThreadStep
<1>3. Again(p) \in {"accepting", "over"} BY DEF Again
<1>4. fd'[p] = -1 /\ \A v \in Variable \ {p} : fd'[v] = fd[v]
   BY <1>1, Names DEF BaseInv, IInv, Numbers
<1>5. \A q \in Port : pc'[q] \in Serving => q # p /\ pc[q] \in Serving BY <1>2, <1>3 DEF Serving
<1>6. \A k \in 2..4 : Taken(k) => Taken(k)'
  <2> SUFFICES ASSUME NEW k \in 2..4, Taken(k) PROVE Taken(k)'
     OBVIOUS
  <2>1. fd'["state"] = fd["state"] /\ \A q \in Port : fd'[Listens(q)] = fd[Listens(q)]
     BY <1>4, Names
  <2>2. \A q \in Port \ {p} : fd'[q] = fd[q] /\ pc'[q] = pc[q] BY <1>2, <1>4, Names
  <2> QED BY <1>1, <1>2, <2>1, <2>2 DEF Taken
<1>7. Shares'
  <2>1. \A k \in 2..4 : Order[k] \in Variable \ Port BY Names DEF Order
  <2>2. \A k \in 2..4 : fd'[Order[k]] = k BY <1>2, <1>4, <2>1
  <2>3. Keeps(4)' => \A w \in Port \cup Server : fd'[w] = -1 \/ fd'[w] > 4
     BY <1>2, <1>4 DEF Variable
  <2>4. \A q \in Port : pc'[q] \in Serving => fd'[q] > 4 \/ (fd'[q] \in 2..4 /\ table'[fd'[q]] = q)
     BY <1>1, <1>2, <1>4, <1>5, Names
  <2> QED BY <1>1, <1>2, <1>6, <2>2, <2>3, <2>4 DEF Shares
<1>8. StateFile'
   BY <1>1, <1>2, <1>4, <1>5, Names DEF BaseInv, StateFile, Is
<1> QED BY <1>2, <1>7, <1>8

LEMMA ServeBase ==
  ASSUME BaseInv, NEW p \in Port, Serve(p)
  PROVE  StartUp' /\ Steps' /\ Shares' /\ StateFile' /\ Ends'
<1>1. CASE Create(p)
  <2>1. /\ process = "up" /\ pc[p] = "create" /\ UNCHANGED <<world, process, fw, left>>
        /\ Listens(p) \in Variable
     BY <1>1, Names DEF Create, Go, board
  <2>2. CASE Opens(Listens(p), Listens(p)) /\ pc' = [pc EXCEPT ![p] = IF on THEN "accepting" ELSE "over"]
     BY <2>1, <2>2, OpenBase DEF Serving
  <2>3. CASE UNCHANGED numbers /\ pc' = [pc EXCEPT ![p] = "over"]
     BY <2>1, <2>3, QuietBase DEF Serving
  <2> QED BY <1>1, <2>2, <2>3 DEF Create, Go
<1>2. CASE Accept(p)
  <2>1. /\ process = "up" /\ pc[p] = "accepting" /\ UNCHANGED <<world, process, fw, left>>
        /\ Opens(p, p) /\ pc' = [pc EXCEPT ![p] = Inner(p)]
     BY <1>2 DEF Accept, Go, board
  <2>2. Inner(p) \in Serving /\ (~on => Inner(p) = "close") BY DEF Inner, Serving
  <2> QED BY <2>1, <2>2, OpenBase
<1>3. CASE Eof(p)
   BY <1>3, QuietBase DEF Eof, Go, board, Serving
<1>4. CASE Close(p) BY <1>4, CloseBase
<1>5. CASE Forget(p) BY <1>5, ForgetBase
<1>6. CASE Say
   BY <1>6, QuietBase DEF Say, Go, board, Serving, Port
<1>7. CASE Reply
  <2>1. Inner("cmd") \in Serving BY DEF Inner, Serving
  <2> QED BY <1>7, <2>1, QuietBase DEF Reply, Go, board, Serving, Port
<1>8. CASE Check
   BY <1>8, QuietBase DEF Check, Go, board, Serving, Port
<1>9. CASE Copy
   BY <1>9, QuietBase DEF Copy, Go, board, Serving, Port
<1>10. CASE Segfault
  <2>1. /\ process = "up" /\ process' = "killed" /\ pc["stats"] = "copy" /\ UNCHANGED <<left, fw>>
        /\ pc'["main"] = pc["main"]
     BY <1>10, Names DEF Segfault, Go, Exits, BaseInv, IInv, Numbers, Port
  <2> QED BY <2>1 DEF BaseInv, StartUp, Steps, Shares, StateFile, Ends
<1>11. CASE Send
   BY <1>11, QuietBase DEF Send, Go, board, Serving, Port
<1> QED BY <1>1, <1>2, <1>3, <1>4, <1>5, <1>6, <1>7, <1>8, <1>9, <1>10, <1>11 DEF Serve

LEMMA CommandBase ==
  ASSUME BaseInv, Command
  PROVE  StartUp' /\ Steps' /\ Shares' /\ StateFile' /\ Ends'
BY QuietBase DEF Command, Go, board, Serving, Port

\* main, once the threads may run.
LEMMA MainBase ==
  ASSUME BaseInv, Main
  PROVE  StartUp' /\ Steps' /\ Shares' /\ StateFile' /\ Ends'
<1>1. CASE Find \/ Switch \/ Heap \/ Buffer \/ Device \/ Map \/ Endpoint \/ Setup
   BY <1>1, StartBase
<1>2. CASE Threads BY <1>2, ThreadsBase
<1>3. CASE CommandsOver
  <2>1. /\ process = "up" /\ pc["main"] = "commands" /\ pc' = [pc EXCEPT !["main"] = "cleanup"]
        /\ UNCHANGED <<process, left, numbers>>
     BY <1>3 DEF CommandsOver, Go, board
  <2>2. pc'["main"] = "cleanup" BY <2>1 DEF BaseInv, IInv, Numbers
  <2>3. \A k \in 2..4 : Keeps(k)' = Keeps(k) BY <2>1, <2>2 DEF Keeps
  <2>4. Steps' /\ StateFile' /\ Ends' BY <2>1, <2>2 DEF Steps, StateFile, Ends, Ending
  <2> QED BY <2>1, <2>3, <2>4, MainMoves DEF Starting, Ending
<1>4. CASE Cleanup
  <2>1. /\ process = "up" /\ pc["main"] = "cleanup" /\ pc' = [pc EXCEPT !["main"] = "close"]
        /\ left' = Closes /\ UNCHANGED <<process, numbers>>
     BY <1>4 DEF Cleanup, Go
  <2>2. pc'["main"] = "close" BY <2>1 DEF BaseInv, IInv, Numbers
  <2>3. Closes \in Seq(SUBSET Variable) /\ Len(Closes) = 5
     BY DEF Closes, Variable, Port, Server, Listens
  <2>4. \A k \in 2..4 : Keeps(k)' = Keeps(k) BY <2>1, <2>2, <2>3 DEF Keeps
  <2>5. Steps' BY <2>1, <2>2, <2>3 DEF Steps
  <2>6. StateFile' /\ Ends' BY <2>1, <2>2 DEF StateFile, Ends, Ending
  <2> QED BY <2>1, <2>4, <2>5, <2>6, MainMoves DEF Starting, Ending
<1>5. CASE CloseNext BY <1>5, CloseNextBase
<1>6. CASE Closed
  <2>1. /\ process = "up" /\ pc["main"] = "close" /\ pc' = [pc EXCEPT !["main"] = "open"]
        /\ left = <<>> /\ left' = Writes /\ UNCHANGED <<process, numbers>>
     BY <1>6 DEF Closed, Go, board
  <2>2. pc'["main"] = "open" BY <2>1 DEF BaseInv, IInv, Numbers
  <2>3. \A k \in 2..4 : Keeps(k)' = Keeps(k) BY <2>1, <2>2 DEF Keeps
  <2>4. Steps' /\ StateFile' /\ Ends' BY <2>1, <2>2 DEF Steps, StateFile, Ends, Ending
  <2> QED BY <2>1, <2>3, <2>4, MainMoves DEF Starting, Ending
<1>7. CASE OpenState BY <1>7, OpenStateBase
<1>8. CASE UseState BY <1>8, UseStateBase
<1>9. CASE FailState BY <1>9, FailStateBase
<1>10. CASE Exit
  <2>1. /\ process = "up" /\ UNCHANGED fw /\ pc' = [pc EXCEPT !["main"] = "over"]
        /\ \/ process' = "cleaned" /\ pc["main"] = "open" /\ left = <<>>
           \/ process' = "failed"
     BY <1>10 DEF Exit, Go, Exits
  <2>2. pc'["main"] = "over" BY <2>1 DEF BaseInv, IInv, Numbers
  <2>3. process' = "cleaned" => fw = "base" BY <2>1 DEF BaseInv, Steps, Writes
  <2> QED BY <2>1, <2>2, <2>3 DEF StartUp, Steps, Shares, StateFile, Ends
<1> QED BY <1>1, <1>2, <1>3, <1>4, <1>5, <1>6, <1>7, <1>8, <1>9, <1>10 DEF Main

\* The handler runs in main: before the threads there is nothing to share.
LEMMA SignalBase ==
  ASSUME BaseInv, Signal
  PROVE  StartUp' /\ Steps' /\ Shares' /\ StateFile' /\ Ends'
<1>1. /\ process = "up" /\ pc' = [pc EXCEPT !["main"] = "cleanup"]
      /\ UNCHANGED <<process, left, table>>
      /\ pc["main"] \in Starting \cup {"commands", "sleep"}
   BY DEF Signal, board, Starting
<1>2. pc'["main"] = "cleanup" BY <1>1 DEF BaseInv, IInv, Numbers
<1>3. Steps' /\ StateFile' /\ Ends' BY <1>1, <1>2 DEF Steps, StateFile, Ends, Ending
<1>4. CASE pc["main"] \in Starting
  <2>1. StartUp' BY <1>2 DEF StartUp, Starting
  <2> QED BY <1>1, <1>3, <1>4, <2>1, QuietStart DEF Starting, Ending
<1>5. CASE pc["main"] \in {"commands", "sleep"}
  <2>1. fd' = [fd EXCEPT !["ept"] = fd["ept"]] BY <1>5 DEF Signal
  <2>2. UNCHANGED numbers BY <1>1, <2>1 DEF numbers, BaseInv, IInv, Numbers
  <2>3. \A k \in 2..4 : Keeps(k)' = Keeps(k) BY <1>2, <1>5 DEF Keeps
  <2> QED BY <1>1, <1>3, <1>5, <2>2, <2>3, MainMoves DEF Starting, Ending
<1> QED BY <1>1, <1>4, <1>5

LEMMA InductiveBase == BaseInv /\ [Next]_vars => BaseInv'
<1> SUFFICES ASSUME BaseInv, [Next]_vars PROVE BaseInv'
   OBVIOUS
<1>1. IInv' BY Inductive DEF BaseInv
<1>2. StartUp' /\ Steps' /\ Shares' /\ StateFile' /\ Ends'
  <2>1. CASE Main BY <2>1, MainBase
  <2>2. CASE Signal BY <2>2, SignalBase
  <2>3. CASE Command BY <2>3, CommandBase
  <2>4. CASE \E p \in Port : Serve(p) BY <2>4, ServeBase
  <2>5. CASE Connect \/ ConnectNext \/ Disconnect \/ DisconnectNext \/ Quiet \/ UNCHANGED vars
    <3>1. UNCHANGED <<board, numbers, pc, left>>
       BY <2>5 DEF Connect, ConnectNext, Disconnect, DisconnectNext, Quiet, vars
    <3> QED BY <3>1
       DEF BaseInv, StartUp, Steps, Shares, StateFile, Ends, Opened, Numbered, Keeps, Taken,
           Is, Mode, board, numbers
  <2> QED BY <2>1, <2>2, <2>3, <2>4, <2>5 DEF Next
<1> QED BY <1>1, <1>2 DEF BaseInv

LEMMA StartsBase == Init => BaseInv
<1> SUFFICES ASSUME Init PROVE BaseInv
   OBVIOUS
<1>1. IInv BY Starts
<1>2. pc["main"] = "find" /\ \A p \in Port : pc[p] = "none" BY Names DEF Init
<1>3. \A v \in Port \cup Server : fd[v] = -1
   BY DEF Init, Variable, Port, Server, Listens
<1>4. StartUp
  <2>1. Numbered(0) BY DEF Init, Numbered, Number
  <2> QED BY <1>2, <1>3, <2>1 DEF Init, StartUp, Opened
<1>5. Steps /\ Shares /\ StateFile /\ Ends
   BY <1>2 DEF Init, Steps, Shares, StateFile, Ends, Starting
<1> QED BY <1>1, <1>4, <1>5 DEF BaseInv

\* cleanup()'s promise to restore the system state: a run that ends leaves
\* the base firmware, except after a first switch or, on the command line, a
\* link that failed, a call of the last switch that failed of itself, or a
\* crash of the statistics thread.  No thread makes the last switch fail.
THEOREM BaseFirmware == Spec => []LeavesBase
<1>1. BaseInv /\ TypeOK => LeavesBase BY DEF BaseInv, Ends, TypeOK, LeavesBase
<1> QED BY <1>1, StartsBase, InductiveBase, Types, PTL DEF Spec

=============================================================================
