------------------------- MODULE ModelDaemonProofs -------------------------
(***************************************************************************)
(* Proofs about ModelDaemon for any number of processes, models, queued    *)
(* connections and inferences: its type invariant, and that one model      *)
(* answers all the inferences of a run.  IInv is inductive.  A step of a    *)
(* process touches its own connection only (ClientMoves), so the invariant *)
(* is re-established for that process and carried over for the others      *)
(* (OtherClients); a step of the daemon touches no process (SameClient,    *)
(* CutOff, ReplyMove).  On top of it: requests and answers stay paired     *)
(* (Talks), ModelDaemon implements ModelService, and Harmony holds as long *)
(* as all is calm.                                                         *)
(***************************************************************************)
EXTENDS ModelDaemonCalm, TLAPS

----------------------------------------------------------------------------
(* What the operations on connections do to conns and to rsp. *)

\* connect() appends an open connection whose first request is a PING.
LEMMA OpenFacts ==
  ASSUME TypeOK, NEW c \in Clients, Open(c)
  PROVE  /\ conns' \in Seq(Conn)
         /\ rsp' \in [Clients -> Response]
         /\ DOMAIN conns' = 1..(Len(conns) + 1)
         /\ \A i \in DOMAIN conns : i \in DOMAIN conns' /\ conns'[i] = conns[i]
         /\ conns'[Len(conns) + 1].client = c
         /\ conns'[Len(conns) + 1].open = TRUE
         /\ conns'[Len(conns) + 1].req.type = "PING"
         /\ rsp'[c] = NoMsg
         /\ \A d \in Clients \ {c} : rsp'[d] = rsp[d]
<1> DEFINE new == [client |-> c, open |-> TRUE, req |-> [type |-> "PING", path |-> NoPath]]
<1>1. new \in Conn BY DEF Conn, Request, Msg, Path
<1>2. conns' = Append(conns, new) BY DEF Open
<1>3. rsp' = [rsp EXCEPT ![c] = NoMsg] BY DEF Open
<1>4. NoMsg \in Response BY DEF NoMsg, Response, Msg, Path
<1> HIDE DEF new
<1>5. conns' \in Seq(Conn) /\ Len(conns') = Len(conns) + 1 BY <1>1, <1>2 DEF TypeOK
<1>6. \A i \in DOMAIN conns : i \in DOMAIN conns' /\ conns'[i] = conns[i] BY <1>1, <1>2 DEF TypeOK
<1>7. conns'[Len(conns)+1] = new BY <1>1, <1>2 DEF TypeOK
<1>8. QED BY <1>1,<1>3, <1>4, <1>5, <1>6, <1>7 DEF TypeOK, new

\* close() leaves the requests where they are and no connection of c open.
LEMMA CloseFacts ==
  ASSUME TypeOK, NEW c \in Clients, Close(c)
  PROVE  /\ conns' \in Seq(Conn)
         /\ rsp' \in [Clients -> Response]
         /\ DOMAIN conns' = DOMAIN conns
         /\ \A i \in DOMAIN conns :
              /\ conns'[i].client = conns[i].client
              /\ conns'[i].req = conns[i].req
              /\ conns[i].client # c => conns'[i].open = conns[i].open
              /\ conns[i].client = c => conns'[i].open = FALSE
         /\ rsp'[c] = NoMsg
         /\ \A d \in Clients \ {c} : rsp'[d] = rsp[d]
<1>1. \A i \in DOMAIN conns : conns[i] \in Conn BY DEF TypeOK
<1>2. \A i \in DOMAIN conns : [conns[i] EXCEPT !.open = FALSE] \in Conn BY <1>1 DEF Conn
<1>3. DOMAIN conns' = DOMAIN conns /\ \A i \in DOMAIN conns : conns'[i] \in Conn
   BY <1>1, <1>2 DEF Close
<1>4. conns' \in Seq(Conn) BY <1>3 DEF TypeOK, Close
<1>5. \A i \in DOMAIN conns :
              /\ conns'[i].client = conns[i].client
              /\ conns'[i].req = conns[i].req
              /\ conns[i].client # c => conns'[i].open = conns[i].open
              /\ conns[i].client = c => conns'[i].open = FALSE
   BY <1>1 DEF Close, Conn
<1>6. NoMsg \in Response BY DEF NoMsg, Response, Msg, Path
<1> QED BY <1>3, <1>4, <1>5, <1>6 DEF Close, TypeOK

\* A request replaces the one before it on the open connection of c.
LEMMA SendFacts ==
  ASSUME TypeOK, NEW c \in Clients, NEW type \in {"LOAD", "INFER"},
         NEW p \in Path, Send(c, type, p)
  PROVE  /\ conns' \in Seq(Conn)
         /\ rsp' \in [Clients -> Response]
         /\ DOMAIN conns' = DOMAIN conns
         /\ \A i \in DOMAIN conns :
              /\ conns'[i].client = conns[i].client
              /\ conns'[i].open = conns[i].open
              /\ conns'[i].req = IF IsOpen(c, i) THEN [type |-> type, path |-> p] ELSE conns[i].req
         /\ rsp'[c] = NoMsg
         /\ \A d \in Clients \ {c} : rsp'[d] = rsp[d]
<1>1. \A i \in DOMAIN conns : conns[i] \in Conn BY DEF TypeOK
<1>2. \A i \in DOMAIN conns : [conns[i] EXCEPT !.req = [type |-> type, path |-> p]] \in Conn BY <1>1 DEF Conn, Request, Msg
<1>3. DOMAIN conns' = DOMAIN conns /\ \A i \in DOMAIN conns : conns'[i] \in Conn
   BY <1>1, <1>2 DEF Send
<1>4. conns' \in Seq(Conn) BY <1>3 DEF TypeOK, Send
<1>5. \A i \in DOMAIN conns :
              /\ conns'[i].client = conns[i].client
              /\ conns'[i].open = conns[i].open
              /\ conns'[i].req = IF IsOpen(c, i) THEN [type |-> type, path |-> p] ELSE conns[i].req
   BY <1>1 DEF Send, Conn
<1>6. NoMsg \in Response BY DEF NoMsg, Response, Msg, Path
<1> QED BY <1>3, <1>4, <1>5, <1>6 DEF Send, TypeOK

\* An answer consumes the first request and reaches the process that still listens.
LEMMA ReplyFacts ==
  ASSUME TypeOK, conns # <<>>, NEW p \in Path,
         NEW type \in {"PONG", "LOADED", "ERROR", "RESULT"}, Reply(type, p)
  PROVE  /\ conns' \in Seq(Conn)
         /\ rsp' \in [Clients -> Response]
         /\ DOMAIN conns' = DOMAIN conns
         /\ 1 \in DOMAIN conns
         /\ \A i \in DOMAIN conns :
              /\ conns'[i].client = conns[i].client
              /\ conns'[i].open = conns[i].open
              /\ conns'[i].req = IF i = 1 THEN NoMsg ELSE conns[i].req
         /\ \A d \in Clients : rsp'[d] = IF IsOpen(d, 1) THEN [type |-> type, path |-> p] ELSE rsp[d]
<1>1. \A i \in DOMAIN conns : conns[i] \in Conn BY DEF TypeOK
<1>2. 1 \in DOMAIN conns /\ Head(conns) = conns[1] BY DEF TypeOK
<1>3. [conns[1] EXCEPT !.req = NoMsg] \in Conn BY <1>1, <1>2 DEF Conn, Request, Msg, NoMsg, Path
<1>4. conns' = [conns EXCEPT ![1] = [conns[1] EXCEPT !.req = NoMsg]] BY DEF Reply
<1>5. conns' \in Seq(Conn) /\ DOMAIN conns' = DOMAIN conns BY <1>2, <1>3, <1>4 DEF TypeOK
<1>6. \A i \in DOMAIN conns :
              /\ conns'[i].client = conns[i].client
              /\ conns'[i].open = conns[i].open
              /\ conns'[i].req = IF i = 1 THEN NoMsg ELSE conns[i].req
   BY <1>1, <1>4 DEF Conn
<1>7. [type |-> type, path |-> p] \in Response BY DEF Response, Msg
<1>8. conns[1].client \in Clients BY <1>1, <1>2 DEF Conn
<1>9. rsp' = IF conns[1].open THEN [rsp EXCEPT ![conns[1].client] = [type |-> type, path |-> p]] ELSE rsp
   BY <1>2 DEF Reply
<1> QED BY <1>1, <1>2, <1>5, <1>6, <1>7, <1>8, <1>9 DEF TypeOK, IsOpen

\* A hang-up moves every queued connection up by one.
LEMMA TailFacts ==
  ASSUME TypeOK, conns # <<>>, conns' = Tail(conns)
  PROVE  /\ conns' \in Seq(Conn)
         /\ \A i \in DOMAIN conns' : i + 1 \in DOMAIN conns /\ conns'[i] = conns[i + 1]
BY DEF TypeOK


----------------------------------------------------------------------------
(* One process moves: what that leaves as it was for all the others. *)

\* Only the process variables of c change.
OwnVars(c) ==
  /\ UNCHANGED daemonVars
  /\ \A d \in Clients \ {c} :
       /\ pc'[d] = pc[d] /\ want'[d] = want[d]
       /\ left'[d] = left[d] /\ seen'[d] = seen[d]

\* Only the connections of c, and the answer it has not read, change.
OwnConns(c) ==
  /\ \A d \in Clients \ {c} : rsp'[d] = rsp[d]
  /\ \A i \in DOMAIN conns :
       /\ i \in DOMAIN conns'
       /\ conns'[i].client = conns[i].client
       /\ conns[i].client # c => /\ conns'[i].open = conns[i].open
                                 /\ conns'[i].req = conns[i].req
  /\ \A i \in DOMAIN conns' : i \in DOMAIN conns \/ conns'[i].client = c

\* What c does to its own connections is invisible to any other process.
LEMMA OtherClients ==
  ASSUME NEW c \in Clients, NEW d \in Clients, c # d,
         OwnVars(c), OwnConns(c), ClientInv(d)
  PROVE  ClientInv(d)'
<1>1. /\ pc'[d] = pc[d] /\ want'[d] = want[d] /\ rsp'[d] = rsp[d]
      /\ left'[d] = left[d] /\ seen'[d] = seen[d]
      /\ model' = model /\ accepted' = accepted
  BY DEF OwnVars, OwnConns, daemonVars
<1>2. \A i \in DOMAIN conns' :
        IsOpen(d, i)' => /\ i \in DOMAIN conns /\ IsOpen(d, i)
                         /\ conns'[i].req = conns[i].req
  BY DEF OwnConns, IsOpen
<1>3. HasConn(d)' => HasConn(d)
  BY <1>2 DEF HasConn
<1>4. OneConn(d)'
  BY <1>1, <1>2 DEF OneConn, ClientInv
<1>5. Holds(d)'
  BY <1>1, <1>2 DEF Holds, ClientInv, InSession
<1>6. SeenSame(d)'
  BY <1>1, <1>3 DEF SeenSame, ClientInv, InSession
<1>7. Counting(d)'
  BY <1>1 DEF Counting, ClientInv
<1> QED BY <1>4, <1>5, <1>6, <1>7 DEF ClientInv

\* It is enough to look at the process that moves.
LEMMA ClientMoves ==
  ASSUME IInv, NEW c \in Clients, OwnVars(c), OwnConns(c),
         TypeOK', DaemonShape', ClientInv(c)'
  PROVE  IInv'
BY OtherClients DEF IInv

\* The moves of a process that leave its socket alone.
LEMMA QuietMove ==
  ASSUME IInv, NEW c \in Clients, OwnVars(c), UNCHANGED <<conns, rsp>>,
         TypeOK', ClientInv(c)'
  PROVE  IInv'
<1>1. OwnConns(c)
  BY DEF OwnConns
<1>2. DaemonShape'
  BY DEF DaemonShape, OwnVars, daemonVars, IInv
<1> QED BY <1>1, <1>2, ClientMoves

\* The moves of a process that connect.
LEMMA OpenMove ==
  ASSUME IInv, NEW c \in Clients, Open(c), OwnVars(c), TypeOK',
         pc[c] \in {"swConnect", "connect"}, pc'[c] \in {"swPing", "ping"},
         seen'[c] = seen[c]
  PROVE  IInv'
<1>1. TypeOK /\ DaemonShape /\ ClientInv(c)
  BY DEF IInv
<1> DEFINE n == Len(conns) + 1
<1>2. /\ DOMAIN conns' = 1..n /\ DOMAIN conns = 1..(n - 1) /\ n \in Nat \ {0}
      /\ \A i \in DOMAIN conns : conns'[i] = conns[i]
      /\ conns'[n].client = c /\ conns'[n].open = TRUE
      /\ conns'[n].req.type = "PING"
      /\ rsp'[c] = NoMsg
      /\ \A d \in Clients \ {c} : rsp'[d] = rsp[d]
  <2>1. Len(conns) \in Nat /\ DOMAIN conns = 1..Len(conns)
    BY <1>1 DEF TypeOK
  <2>2. n \in Nat \ {0} /\ n - 1 = Len(conns)
    BY <2>1
  <2>3. /\ DOMAIN conns' = 1..n
        /\ \A i \in DOMAIN conns : conns'[i] = conns[i]
        /\ conns'[n].client = c /\ conns'[n].open = TRUE
        /\ conns'[n].req.type = "PING"
        /\ rsp'[c] = NoMsg
        /\ \A d \in Clients \ {c} : rsp'[d] = rsp[d]
    BY <1>1, OpenFacts
  <2> QED BY <2>1, <2>2, <2>3
<1> HIDE DEF n
<1>3. OwnConns(c)
  BY <1>2 DEF OwnConns
<1>4. DaemonShape'
  <2>1. listening
    BY DEF Open
  <2> QED BY <1>1, <1>2, <2>1 DEF DaemonShape, OwnVars, daemonVars
<1>5. \A i \in DOMAIN conns' : IsOpen(c, i)' => i = n
  BY <1>1, <1>2 DEF ClientInv, OneConn, IsOpen
<1>6. OneConn(c)'
  BY <1>5 DEF OneConn
<1>7. Holds(c)'
  BY <1>2, <1>5 DEF Holds, InSession, NoMsg
<1>8. SeenSame(c)'
  BY <1>1, <1>2 DEF ClientInv, SeenSame, InSession
<1>9. Counting(c)'
  BY DEF Counting
<1> QED BY <1>3, <1>4, <1>6, <1>7, <1>8, <1>9, ClientMoves DEF ClientInv

\* The moves of a process that close its socket.
LEMMA CloseMove ==
  ASSUME IInv, NEW c \in Clients, Close(c), OwnVars(c), TypeOK',
         ~InSession(c)',
         pc'[c] = "local" => seen'[c] \subseteq {want'[c]},
         pc'[c] # "local" => seen'[c] = {}
  PROVE  IInv'
<1>1. TypeOK /\ DaemonShape
  BY DEF IInv
<1>2. /\ DOMAIN conns' = DOMAIN conns
      /\ \A i \in DOMAIN conns :
           /\ conns'[i].client = conns[i].client
           /\ conns'[i].req = conns[i].req
           /\ conns[i].client # c => conns'[i].open = conns[i].open
           /\ conns[i].client = c => conns'[i].open = FALSE
      /\ \A d \in Clients \ {c} : rsp'[d] = rsp[d]
  BY <1>1, CloseFacts
<1>3. OwnConns(c)
  BY <1>2 DEF OwnConns
<1>4. DaemonShape'
  BY <1>1, <1>2 DEF DaemonShape, OwnVars, daemonVars
<1>5. \A i \in DOMAIN conns' : ~IsOpen(c, i)'
  BY <1>2 DEF IsOpen
<1>6. OneConn(c)' /\ Holds(c)'
  BY <1>5 DEF OneConn, Holds
<1>7. SeenSame(c)'
  BY DEF SeenSame, InSession
<1>8. Counting(c)'
  BY DEF Counting, InSession
<1> QED BY <1>3, <1>4, <1>6, <1>7, <1>8, ClientMoves DEF ClientInv

\* The moves of a process that send a request.
LEMMA SendMove ==
  ASSUME IInv, NEW c \in Clients, NEW type \in {"LOAD", "INFER"},
         NEW p \in Path, Send(c, type, p), OwnVars(c), TypeOK',
         \/ type = "LOAD" /\ p \in Models /\ pc[c] = "swPing" /\ pc'[c] = "swLoad"
         \/ /\ type = "INFER" /\ pc[c] = "ready" /\ pc'[c] = "infer"
            /\ left'[c] > 0,
         seen'[c] = seen[c]
  PROVE  IInv'
<1>1. TypeOK /\ DaemonShape /\ ClientInv(c)
  BY DEF IInv
<1>2. /\ DOMAIN conns' = DOMAIN conns
      /\ \A i \in DOMAIN conns :
           /\ conns'[i].client = conns[i].client
           /\ conns'[i].open = conns[i].open
           /\ conns'[i].req = IF IsOpen(c, i) THEN [type |-> type, path |-> p]
                              ELSE conns[i].req
      /\ rsp'[c] = NoMsg
      /\ \A d \in Clients \ {c} : rsp'[d] = rsp[d]
  BY <1>1, SendFacts
<1>3. OwnConns(c)
  BY <1>2 DEF OwnConns, IsOpen
<1>4. DaemonShape'
  <2>1. CASE type = "LOAD"
    BY <1>1, <1>2, <2>1 DEF DaemonShape, OwnVars, daemonVars
  <2>2. CASE type = "INFER"
    <3>1. \A i \in DOMAIN conns : IsOpen(c, i) => conns[i].req.type # "LOAD"
      BY <1>1, <2>2 DEF ClientInv, Holds, InSession
    <3> QED BY <1>1, <1>2, <2>2, <3>1 DEF DaemonShape, OwnVars, daemonVars
  <2> QED BY <2>1, <2>2
<1>5. \A i \in DOMAIN conns : IsOpen(c, i)' <=> IsOpen(c, i)
  BY <1>2 DEF IsOpen
<1>6. OneConn(c)'
  BY <1>1, <1>2, <1>5 DEF OneConn, ClientInv
<1>7. Holds(c)'
  BY <1>1, <1>2, <1>5 DEF Holds, ClientInv, InSession, OwnVars, daemonVars
<1>8. HasConn(c)' => HasConn(c)
  BY <1>2, <1>5 DEF HasConn
<1>9. SeenSame(c)'
  BY <1>1, <1>2, <1>8 DEF ClientInv, SeenSame, InSession, NoMsg, OwnVars, daemonVars
<1>10. Counting(c)'
  BY DEF Counting
<1> QED BY <1>3, <1>4, <1>6, <1>7, <1>9, <1>10, ClientMoves DEF ClientInv

\* StartRun keeps the invariant.
LEMMA StartRunInv ==
  ASSUME IInv, NEW c \in Clients, StartRun(c)
  PROVE  IInv'
<1> USE DaemonAssumption DEF Go, End
<1>1. TypeOK /\ ClientInv(c)
  BY DEF IInv
<1>2. OwnVars(c)
  BY <1>1 DEF StartRun, OwnVars, TypeOK, daemonVars
<1>3. TypeOK'
  BY <1>1 DEF StartRun, TypeOK, daemonVars, Path, Msg, Request, Response, NoMsg, EmptyCache, ClientPC, CacheFile, WriteCache, ClientInv, Counting, SeenSame
<1>4. ClientInv(c)'
  BY <1>1 DEF StartRun, ClientInv, OneConn, Holds, SeenSame, Counting, IsOpen, InSession, HasConn, NoMsg, TypeOK, daemonVars
<1> QED BY <1>2, <1>3, <1>4, QuietMove DEF StartRun

\* StartPreload keeps the invariant.
LEMMA StartPreloadInv ==
  ASSUME IInv, NEW c \in Clients, StartPreload(c)
  PROVE  IInv'
<1> USE DaemonAssumption DEF Go, End
<1>1. TypeOK /\ ClientInv(c)
  BY DEF IInv
<1>2. OwnVars(c)
  BY <1>1 DEF StartPreload, OwnVars, TypeOK, daemonVars
<1>3. TypeOK'
  BY <1>1 DEF StartPreload, TypeOK, daemonVars, Path, Msg, Request, Response, NoMsg, EmptyCache, ClientPC, CacheFile, WriteCache, ClientInv, Counting, SeenSame
<1>4. ClientInv(c)'
  BY <1>1 DEF StartPreload, ClientInv, OneConn, Holds, SeenSame, Counting, IsOpen, InSession, HasConn, NoMsg, TypeOK, daemonVars
<1> QED BY <1>2, <1>3, <1>4, QuietMove DEF StartPreload

\* CheckCache keeps the invariant.
LEMMA CheckCacheInv ==
  ASSUME IInv, NEW c \in Clients, CheckCache(c)
  PROVE  IInv'
<1> USE DaemonAssumption DEF Go, End
<1>1. TypeOK /\ ClientInv(c)
  BY DEF IInv
<1>2. OwnVars(c)
  BY <1>1 DEF CheckCache, OwnVars, TypeOK, daemonVars
<1>3. TypeOK'
  BY <1>1 DEF CheckCache, TypeOK, daemonVars, Path, Msg, Request, Response, NoMsg, EmptyCache, ClientPC, CacheFile, WriteCache, ClientInv, Counting, SeenSame
<1>4. ClientInv(c)'
  BY <1>1 DEF CheckCache, ClientInv, OneConn, Holds, SeenSame, Counting, IsOpen, InSession, HasConn, NoMsg, TypeOK, daemonVars
<1> QED BY <1>2, <1>3, <1>4, QuietMove DEF CheckCache

\* PreloadDone keeps the invariant.
LEMMA PreloadDoneInv ==
  ASSUME IInv, NEW c \in Clients, PreloadDone(c)
  PROVE  IInv'
<1> USE DaemonAssumption DEF Go, End
<1>1. TypeOK /\ ClientInv(c)
  BY DEF IInv
<1>2. OwnVars(c)
  BY <1>1 DEF PreloadDone, OwnVars, TypeOK, daemonVars
<1>3. TypeOK'
  BY <1>1 DEF PreloadDone, TypeOK, daemonVars, Path, Msg, Request, Response, NoMsg, EmptyCache, ClientPC, CacheFile, WriteCache, ClientInv, Counting, SeenSame
<1>4. ClientInv(c)'
  BY <1>1 DEF PreloadDone, ClientInv, OneConn, Holds, SeenSame, Counting, IsOpen, InSession, HasConn, NoMsg, TypeOK, daemonVars
<1> QED BY <1>2, <1>3, <1>4, QuietMove DEF PreloadDone

\* SwitchConnect keeps the invariant.
LEMMA SwitchConnectInv ==
  ASSUME IInv, NEW c \in Clients, SwitchConnect(c)
  PROVE  IInv'
<1> USE DaemonAssumption DEF Go, End
<1>1. TypeOK /\ ClientInv(c)
  BY DEF IInv
<1>2. OwnVars(c)
  BY <1>1 DEF SwitchConnect, OwnVars, TypeOK, daemonVars
<1>3. Open(c)
  BY DEF SwitchConnect
<1>4. TypeOK'
  BY <1>1, <1>3, OpenFacts DEF SwitchConnect, TypeOK, daemonVars, ClientPC
<1>5. /\ pc[c] \in {"swConnect", "connect"} /\ pc'[c] \in {"swPing", "ping"}
      /\ seen'[c] = seen[c]
  BY <1>1 DEF SwitchConnect, TypeOK
<1> QED BY <1>2, <1>3, <1>4, <1>5, OpenMove

\* SwitchRefused keeps the invariant.
LEMMA SwitchRefusedInv ==
  ASSUME IInv, NEW c \in Clients, SwitchRefused(c)
  PROVE  IInv'
<1> USE DaemonAssumption DEF Go, End
<1>1. TypeOK /\ ClientInv(c)
  BY DEF IInv
<1>2. OwnVars(c)
  BY <1>1 DEF SwitchRefused, OwnVars, TypeOK, daemonVars
<1>3. TypeOK'
  BY <1>1 DEF SwitchRefused, TypeOK, daemonVars, Path, Msg, Request, Response, NoMsg, EmptyCache, ClientPC, CacheFile, WriteCache, ClientInv, Counting, SeenSame
<1>4. ClientInv(c)'
  BY <1>1 DEF SwitchRefused, ClientInv, OneConn, Holds, SeenSame, Counting, IsOpen, InSession, HasConn, NoMsg, TypeOK, daemonVars
<1> QED BY <1>2, <1>3, <1>4, QuietMove DEF SwitchRefused

\* SwitchSend keeps the invariant.
LEMMA SwitchSendInv ==
  ASSUME IInv, NEW c \in Clients, SwitchSend(c)
  PROVE  IInv'
<1> USE DaemonAssumption DEF Go, End
<1>1. TypeOK /\ ClientInv(c)
  BY DEF IInv
<1>2. OwnVars(c)
  BY <1>1 DEF SwitchSend, OwnVars, TypeOK, daemonVars
<1>3. Send(c, "LOAD", want[c]) /\ want[c] \in Path
  BY <1>1 DEF SwitchSend, TypeOK, Path
<1>4. TypeOK'
  BY <1>1, <1>3, SendFacts DEF SwitchSend, TypeOK, daemonVars, ClientPC
<1>5. pc'[c] = "swLoad" /\ pc[c] = "swPing" /\ seen'[c] = seen[c] /\ left'[c] = left[c] /\ want[c] \in Models
  BY <1>1 DEF SwitchSend, TypeOK
<1> QED BY <1>2, <1>3, <1>4, <1>5, SendMove

\* SwitchReturn keeps the invariant.
LEMMA SwitchReturnInv ==
  ASSUME IInv, NEW c \in Clients, SwitchReturn(c)
  PROVE  IInv'
<1> USE DaemonAssumption DEF Go, End
<1>1. TypeOK /\ ClientInv(c)
  BY DEF IInv
<1>2. OwnVars(c)
  BY <1>1 DEF SwitchReturn, OwnVars, TypeOK, daemonVars
<1>3. Close(c)
  BY DEF SwitchReturn
<1>4. TypeOK'
  BY <1>1, <1>3, CloseFacts DEF SwitchReturn, TypeOK, daemonVars, ClientPC
<1>5. /\ ~InSession(c)'
      /\ pc'[c] = "local" => seen'[c] \subseteq {want'[c]}
      /\ pc'[c] # "local" => seen'[c] = {}
  BY <1>1 DEF SwitchReturn, TypeOK, ClientInv, SeenSame, InSession
<1> QED BY <1>2, <1>3, <1>4, <1>5, CloseMove

\* StoreOpen keeps the invariant.
LEMMA StoreOpenInv ==
  ASSUME IInv, NEW c \in Clients, StoreOpen(c)
  PROVE  IInv'
<1> USE DaemonAssumption DEF Go, End
<1>1. TypeOK /\ ClientInv(c)
  BY DEF IInv
<1>2. OwnVars(c)
  BY <1>1 DEF StoreOpen, OwnVars, TypeOK, daemonVars
<1>3. TypeOK'
  BY <1>1 DEF StoreOpen, TypeOK, daemonVars, Path, Msg, Request, Response, NoMsg, EmptyCache, ClientPC, CacheFile, WriteCache, ClientInv, Counting, SeenSame
<1>4. ClientInv(c)'
  BY <1>1 DEF StoreOpen, ClientInv, OneConn, Holds, SeenSame, Counting, IsOpen, InSession, HasConn, NoMsg, TypeOK, daemonVars
<1> QED BY <1>2, <1>3, <1>4, QuietMove DEF StoreOpen

\* StoreDenied keeps the invariant.
LEMMA StoreDeniedInv ==
  ASSUME IInv, NEW c \in Clients, StoreDenied(c)
  PROVE  IInv'
<1> USE DaemonAssumption DEF Go, End
<1>1. TypeOK /\ ClientInv(c)
  BY DEF IInv
<1>2. OwnVars(c)
  BY <1>1 DEF StoreDenied, OwnVars, TypeOK, daemonVars
<1>3. TypeOK'
  BY <1>1 DEF StoreDenied, TypeOK, daemonVars, Path, Msg, Request, Response, NoMsg, EmptyCache, ClientPC, CacheFile, WriteCache, ClientInv, Counting, SeenSame
<1>4. ClientInv(c)'
  BY <1>1 DEF StoreDenied, ClientInv, OneConn, Holds, SeenSame, Counting, IsOpen, InSession, HasConn, NoMsg, TypeOK, daemonVars
<1> QED BY <1>2, <1>3, <1>4, QuietMove DEF StoreDenied

\* StoreWrite keeps the invariant.
LEMMA StoreWriteInv ==
  ASSUME IInv, NEW c \in Clients, StoreWrite(c)
  PROVE  IInv'
<1> USE DaemonAssumption DEF Go, End
<1>1. TypeOK /\ ClientInv(c)
  BY DEF IInv
<1>2. OwnVars(c)
  BY <1>1 DEF StoreWrite, OwnVars, TypeOK, daemonVars
<1>3. TypeOK'
  BY <1>1 DEF StoreWrite, TypeOK, daemonVars, Path, Msg, Request, Response, NoMsg, EmptyCache, ClientPC, CacheFile, WriteCache, ClientInv, Counting, SeenSame
<1>4. ClientInv(c)'
  BY <1>1 DEF StoreWrite, ClientInv, OneConn, Holds, SeenSame, Counting, IsOpen, InSession, HasConn, NoMsg, TypeOK, daemonVars
<1> QED BY <1>2, <1>3, <1>4, QuietMove DEF StoreWrite

\* Connect keeps the invariant.
LEMMA ConnectInv ==
  ASSUME IInv, NEW c \in Clients, Connect(c)
  PROVE  IInv'
<1> USE DaemonAssumption DEF Go, End
<1>1. TypeOK /\ ClientInv(c)
  BY DEF IInv
<1>2. OwnVars(c)
  BY <1>1 DEF Connect, OwnVars, TypeOK, daemonVars
<1>3. Open(c)
  BY DEF Connect
<1>4. TypeOK'
  BY <1>1, <1>3, OpenFacts DEF Connect, TypeOK, daemonVars, ClientPC
<1>5. /\ pc[c] \in {"swConnect", "connect"} /\ pc'[c] \in {"swPing", "ping"}
      /\ seen'[c] = seen[c]
  BY <1>1 DEF Connect, TypeOK
<1> QED BY <1>2, <1>3, <1>4, <1>5, OpenMove

\* Connected keeps the invariant.
LEMMA ConnectedInv ==
  ASSUME IInv, NEW c \in Clients, Connected(c)
  PROVE  IInv'
<1> USE DaemonAssumption DEF Go, End
<1>1. TypeOK /\ ClientInv(c)
  BY DEF IInv
<1>2. OwnVars(c)
  BY <1>1 DEF Connected, OwnVars, TypeOK, daemonVars
<1>3. TypeOK'
  BY <1>1 DEF Connected, TypeOK, daemonVars, Path, Msg, Request, Response, NoMsg, EmptyCache, ClientPC, CacheFile, WriteCache, ClientInv, Counting, SeenSame
<1>4. ClientInv(c)'
  BY <1>1 DEF Connected, ClientInv, OneConn, Holds, SeenSame, Counting, IsOpen, InSession, HasConn, NoMsg, TypeOK, daemonVars
<1>5. OwnConns(c) /\ DaemonShape'
  BY <1>1 DEF Connected, OwnConns, TypeOK, IInv, DaemonShape, daemonVars
<1> QED BY <1>2, <1>3, <1>4, <1>5, ClientMoves

\* InitLocally keeps the invariant.
LEMMA InitLocallyInv ==
  ASSUME IInv, NEW c \in Clients, InitLocally(c)
  PROVE  IInv'
<1> USE DaemonAssumption DEF Go, End
<1>1. TypeOK /\ ClientInv(c)
  BY DEF IInv
<1>2. OwnVars(c)
  BY <1>1 DEF InitLocally, OwnVars, TypeOK, daemonVars
<1>3. Close(c)
  BY DEF InitLocally
<1>4. TypeOK'
  BY <1>1, <1>3, CloseFacts DEF InitLocally, TypeOK, daemonVars, ClientPC
<1>5. /\ ~InSession(c)'
      /\ pc'[c] = "local" => seen'[c] \subseteq {want'[c]}
      /\ pc'[c] # "local" => seen'[c] = {}
  BY <1>1 DEF InitLocally, TypeOK, ClientInv, SeenSame, InSession, NoDaemon
<1> QED BY <1>2, <1>3, <1>4, <1>5, CloseMove

\* InitFails keeps the invariant.
LEMMA InitFailsInv ==
  ASSUME IInv, NEW c \in Clients, InitFails(c)
  PROVE  IInv'
<1> USE DaemonAssumption DEF Go, End
<1>1. TypeOK /\ ClientInv(c)
  BY DEF IInv
<1>2. OwnVars(c)
  BY <1>1 DEF InitFails, OwnVars, TypeOK, daemonVars
<1>3. Close(c)
  BY DEF InitFails
<1>4. TypeOK'
  BY <1>1, <1>3, CloseFacts DEF InitFails, TypeOK, daemonVars, ClientPC
<1>5. /\ ~InSession(c)'
      /\ pc'[c] = "local" => seen'[c] \subseteq {want'[c]}
      /\ pc'[c] # "local" => seen'[c] = {}
  BY <1>1 DEF InitFails, TypeOK, ClientInv, SeenSame, InSession
<1> QED BY <1>2, <1>3, <1>4, <1>5, CloseMove

\* Infer keeps the invariant.
LEMMA InferInv ==
  ASSUME IInv, NEW c \in Clients, Infer(c)
  PROVE  IInv'
<1> USE DaemonAssumption DEF Go, End
<1>1. TypeOK /\ ClientInv(c)
  BY DEF IInv
<1>2. OwnVars(c)
  BY <1>1 DEF Infer, OwnVars, TypeOK, daemonVars
<1>3. Send(c, "INFER", NoPath) /\ NoPath \in Path
  BY <1>1 DEF Infer, TypeOK, Path
<1>4. TypeOK'
  BY <1>1, <1>3, SendFacts DEF Infer, TypeOK, daemonVars, ClientPC
<1>5. pc'[c] = "infer" /\ pc[c] = "ready" /\ seen'[c] = seen[c] /\ left'[c] = left[c] /\ want[c] \in Models /\ left[c] > 0
  BY <1>1 DEF Infer, TypeOK
<1> QED BY <1>2, <1>3, <1>4, <1>5, SendMove

\* Answered keeps the invariant.
LEMMA AnsweredInv ==
  ASSUME IInv, NEW c \in Clients, Answered(c)
  PROVE  IInv'
<1> USE DaemonAssumption DEF Go, End
<1>1. TypeOK /\ ClientInv(c)
  BY DEF IInv
<1>2. OwnVars(c)
  BY <1>1 DEF Answered, OwnVars, TypeOK, daemonVars
<1>3. TypeOK'
  BY <1>1 DEF Answered, TypeOK, daemonVars, Path, Msg, Request, Response, NoMsg, EmptyCache, ClientPC, CacheFile, WriteCache, ClientInv, Counting, SeenSame
<1>4. ClientInv(c)'
  BY <1>1 DEF Answered, ClientInv, OneConn, Holds, SeenSame, Counting, IsOpen, InSession, HasConn, NoMsg, TypeOK, daemonVars
<1>5. OwnConns(c) /\ DaemonShape'
  BY <1>1 DEF Answered, OwnConns, TypeOK, IInv, DaemonShape, daemonVars
<1> QED BY <1>2, <1>3, <1>4, <1>5, ClientMoves

\* InferFailed keeps the invariant.
LEMMA InferFailedInv ==
  ASSUME IInv, NEW c \in Clients, InferFailed(c)
  PROVE  IInv'
<1> USE DaemonAssumption DEF Go, End
<1>1. TypeOK /\ ClientInv(c)
  BY DEF IInv
<1>2. OwnVars(c)
  BY <1>1 DEF InferFailed, OwnVars, TypeOK, daemonVars
<1>3. Close(c)
  BY DEF InferFailed
<1>4. TypeOK'
  BY <1>1, <1>3, CloseFacts DEF InferFailed, TypeOK, daemonVars, ClientPC
<1>5. /\ ~InSession(c)'
      /\ pc'[c] = "local" => seen'[c] \subseteq {want'[c]}
      /\ pc'[c] # "local" => seen'[c] = {}
  BY <1>1 DEF InferFailed, TypeOK, ClientInv, SeenSame, InSession
<1> QED BY <1>2, <1>3, <1>4, <1>5, CloseMove

\* InferLocally keeps the invariant.
LEMMA InferLocallyInv ==
  ASSUME IInv, NEW c \in Clients, InferLocally(c)
  PROVE  IInv'
<1> USE DaemonAssumption DEF Go, End
<1>1. TypeOK /\ ClientInv(c)
  BY DEF IInv
<1>2. OwnVars(c)
  BY <1>1 DEF InferLocally, OwnVars, TypeOK, daemonVars
<1>3. TypeOK'
  BY <1>1 DEF InferLocally, TypeOK, daemonVars, Path, Msg, Request, Response, NoMsg, EmptyCache, ClientPC, CacheFile, WriteCache, ClientInv, Counting, SeenSame
<1>4. ClientInv(c)'
  BY <1>1 DEF InferLocally, ClientInv, OneConn, Holds, SeenSame, Counting, IsOpen, InSession, HasConn, NoMsg, TypeOK, daemonVars
<1> QED BY <1>2, <1>3, <1>4, QuietMove DEF InferLocally

\* Exit keeps the invariant.
LEMMA ExitInv ==
  ASSUME IInv, NEW c \in Clients, Exit(c)
  PROVE  IInv'
<1> USE DaemonAssumption DEF Go, End
<1>1. TypeOK /\ ClientInv(c)
  BY DEF IInv
<1>2. OwnVars(c)
  BY <1>1 DEF Exit, OwnVars, TypeOK, daemonVars
<1>3. Close(c)
  BY DEF Exit
<1>4. TypeOK'
  BY <1>1, <1>3, CloseFacts DEF Exit, TypeOK, daemonVars, ClientPC
<1>5. /\ ~InSession(c)'
      /\ pc'[c] = "local" => seen'[c] \subseteq {want'[c]}
      /\ pc'[c] # "local" => seen'[c] = {}
  BY <1>1 DEF Exit, TypeOK, ClientInv, SeenSame, InSession
<1> QED BY <1>2, <1>3, <1>4, <1>5, CloseMove

\* Kill keeps the invariant.
LEMMA KillInv ==
  ASSUME IInv, NEW c \in Clients, Kill(c)
  PROVE  IInv'
<1> USE DaemonAssumption DEF Go, End
<1>1. TypeOK /\ ClientInv(c)
  BY DEF IInv
<1>2. OwnVars(c)
  BY <1>1 DEF Kill, OwnVars, TypeOK, daemonVars
<1>3. Close(c)
  BY DEF Kill
<1>4. TypeOK'
  BY <1>1, <1>3, CloseFacts DEF Kill, TypeOK, daemonVars, ClientPC
<1>5. /\ ~InSession(c)'
      /\ pc'[c] = "local" => seen'[c] \subseteq {want'[c]}
      /\ pc'[c] # "local" => seen'[c] = {}
  BY <1>1 DEF Kill, TypeOK, ClientInv, SeenSame, InSession
<1> QED BY <1>2, <1>3, <1>4, <1>5, CloseMove


----------------------------------------------------------------------------
(* The daemon moves: the processes stay where they are. *)

\* The empty queue of a daemon that does not run.
LEMMA NoConns == <<>> \in Seq(Conn) /\ DOMAIN <<>> = {}
OBVIOUS

\* A daemon that exits leaves well-typed variables.
LEMMA GoneTyped ==
  ASSUME TypeOK, Gone, UNCHANGED <<cache, rsp, clientVars>>, crashes' \in Nat,
         dpc' \in {"down", "stopped"}
  PROVE  TypeOK'
BY NoConns, DaemonAssumption DEF Gone, TypeOK, clientVars, DaemonPC

\* An answer leaves the daemon between two requests.
LEMMA ReplyShape ==
  ASSUME TypeOK, DaemonShape, NEW p \in Path,
         NEW type \in {"PONG", "LOADED", "ERROR", "RESULT"}, Reply(type, p),
         accepted, dpc \notin {"down", "stopped", "boot"}, dpc' = "serve",
         accepted' = accepted
  PROVE  DaemonShape'
<1>1. conns # <<>>
  BY DEF DaemonShape
<1>2. /\ DOMAIN conns' = DOMAIN conns /\ 1 \in DOMAIN conns
      /\ \A i \in DOMAIN conns :
           conns'[i].req = IF i = 1 THEN NoMsg ELSE conns[i].req
  BY <1>1, ReplyFacts
<1> QED BY <1>2 DEF DaemonShape, NoMsg

\* Moves of the daemon that leave the connections alone.
LEMMA SameClient ==
  ASSUME NEW c \in Clients, ClientInv(c), UNCHANGED <<conns, rsp, clientVars>>,
         accepted => accepted', HasConn(c) /\ InSession(c) => model' = model
  PROVE  ClientInv(c)'
<1>1. OneConn(c)' /\ Counting(c)'
  BY DEF ClientInv, OneConn, Counting, IsOpen, clientVars
<1>2. Holds(c)'
  BY DEF ClientInv, Holds, IsOpen, InSession, clientVars
<1>3. HasConn(c)' = HasConn(c) /\ InSession(c)' = InSession(c)
  BY DEF HasConn, IsOpen, InSession, clientVars
<1>4. SeenSame(c)'
  BY <1>3 DEF ClientInv, SeenSame, InSession, clientVars
<1> QED BY <1>1, <1>2, <1>4 DEF ClientInv

\* A daemon that exits: no process has a connection any more.
LEMMA CutOff ==
  ASSUME NEW c \in Clients, ClientInv(c), UNCHANGED <<rsp, clientVars>>,
         DOMAIN conns' = {}
  PROVE  ClientInv(c)'
<1>1. ~HasConn(c)' /\ OneConn(c)' /\ Holds(c)'
  BY DEF HasConn, OneConn, Holds
<1>2. SeenSame(c)' /\ Counting(c)'
  BY <1>1 DEF ClientInv, SeenSame, Counting, InSession, clientVars
<1> QED BY <1>1, <1>2 DEF ClientInv

\* A connection whose LOAD is being served belongs to no process that infers.
LEMMA LoaderDoesNotInfer ==
  ASSUME IInv, accepted, conns[1].req.type = "LOAD",
         NEW c \in Clients, HasConn(c)
  PROVE  ~InSession(c)
BY DEF IInv, ClientInv, Holds, HasConn

\* The answers of the daemon.
LEMMA ReplyMove ==
  ASSUME IInv, NEW type \in {"PONG", "LOADED", "ERROR", "RESULT"},
         NEW p \in Path, Reply(type, p), accepted, accepted' = accepted,
         UNCHANGED clientVars, NEW c \in Clients,
         HasConn(c) /\ InSession(c) => model' = model,
         type = "PONG" => conns[1].req.type = "PING",
         type = "RESULT" => /\ p = model /\ model' = model /\ p \in Models
                            /\ conns[1].req.type = "INFER"
  PROVE  ClientInv(c)'
<1>1. TypeOK /\ DaemonShape /\ ClientInv(c)
  BY DEF IInv
<1>2. conns # <<>>
  BY <1>1 DEF DaemonShape
<1>3. /\ DOMAIN conns' = DOMAIN conns
      /\ 1 \in DOMAIN conns
      /\ \A i \in DOMAIN conns :
           /\ conns'[i].client = conns[i].client
           /\ conns'[i].open = conns[i].open
           /\ conns'[i].req = IF i = 1 THEN NoMsg ELSE conns[i].req
      /\ rsp'[c] = IF IsOpen(c, 1) THEN [type |-> type, path |-> p] ELSE rsp[c]
  BY <1>1, <1>2, ReplyFacts
<1>4. \A i \in DOMAIN conns : IsOpen(c, i)' <=> IsOpen(c, i)
  BY <1>3 DEF IsOpen
<1>5. HasConn(c)' <=> HasConn(c)
  BY <1>3, <1>4 DEF HasConn
<1>6. OneConn(c)' /\ Counting(c)'
  BY <1>1, <1>3, <1>4 DEF ClientInv, OneConn, Counting, clientVars
<1>7. Holds(c)'
  BY <1>1, <1>3, <1>4 DEF ClientInv, OneConn, Holds, InSession, clientVars, NoMsg
<1>8. SeenSame(c)'
  BY <1>1, <1>3, <1>4, <1>5 DEF ClientInv, SeenSame, InSession, HasConn, clientVars
<1> QED BY <1>6, <1>7, <1>8 DEF ClientInv

\* DaemonBoot keeps the invariant.
LEMMA DaemonBootInv ==
  ASSUME IInv, DaemonBoot
  PROVE  IInv'
<1>1. TypeOK /\ DaemonShape
  BY DEF IInv
<1>3. TypeOK'
  BY <1>1, DaemonAssumption DEF DaemonBoot, TypeOK, daemonVars, clientVars, DaemonPC, DaemonShape, DaemonReads, CacheFile, Path
<1>4. DaemonShape'
  BY <1>1 DEF DaemonBoot, DaemonShape, clientVars
<1>5. \A c \in Clients : ClientInv(c)'
  BY <1>1, CutOff DEF DaemonBoot, DaemonShape, IInv
<1> QED BY <1>3, <1>4, <1>5 DEF IInv

\* DaemonListen keeps the invariant.
LEMMA DaemonListenInv ==
  ASSUME IInv, DaemonListen
  PROVE  IInv'
<1>1. TypeOK /\ DaemonShape
  BY DEF IInv
<1>3. TypeOK'
  BY <1>1, DaemonAssumption DEF DaemonListen, TypeOK, daemonVars, clientVars, DaemonPC, DaemonShape
<1>4. DaemonShape'
  BY <1>1 DEF DaemonListen, DaemonShape, clientVars
<1>5. \A c \in Clients : ClientInv(c)'
  BY <1>1, CutOff DEF DaemonListen, DaemonShape, IInv
<1> QED BY <1>3, <1>4, <1>5 DEF IInv

\* DaemonBootFails keeps the invariant.
LEMMA DaemonBootFailsInv ==
  ASSUME IInv, DaemonBootFails
  PROVE  IInv'
<1>1. TypeOK /\ DaemonShape
  BY DEF IInv
<1>3. TypeOK'
  BY <1>1, DaemonAssumption DEF DaemonBootFails, TypeOK, daemonVars, clientVars, DaemonPC, DaemonShape
<1>4. DaemonShape'
  BY <1>1 DEF DaemonBootFails, DaemonShape, clientVars
<1>5. \A c \in Clients : ClientInv(c)'
  BY <1>1, CutOff DEF DaemonBootFails, DaemonShape, IInv
<1> QED BY <1>3, <1>4, <1>5 DEF IInv

\* DaemonCrash keeps the invariant.
LEMMA DaemonCrashInv ==
  ASSUME IInv, DaemonCrash
  PROVE  IInv'
<1>1. TypeOK /\ DaemonShape
  BY DEF IInv
<1>3. TypeOK'
  BY <1>1, GoneTyped DEF DaemonCrash, TypeOK
<1>4. DaemonShape'
  BY <1>1 DEF DaemonCrash, DaemonShape, Gone, clientVars
<1>5. \A c \in Clients : ClientInv(c)'
  BY <1>1, CutOff DEF DaemonCrash, DaemonShape, IInv, Gone
<1> QED BY <1>3, <1>4, <1>5 DEF IInv

\* DaemonStartedAgain keeps the invariant.
LEMMA DaemonStartedAgainInv ==
  ASSUME IInv, DaemonStartedAgain
  PROVE  IInv'
<1>1. TypeOK /\ DaemonShape
  BY DEF IInv
<1>3. TypeOK'
  BY <1>1 DEF DaemonStartedAgain, TypeOK, clientVars, DaemonPC
<1>4. DaemonShape'
  BY <1>1 DEF DaemonStartedAgain, DaemonShape, clientVars
<1>5. \A c \in Clients : ClientInv(c)'
  BY <1>1, CutOff DEF DaemonStartedAgain, DaemonShape, IInv
<1> QED BY <1>3, <1>4, <1>5 DEF IInv

\* DaemonAccept keeps the invariant.
LEMMA DaemonAcceptInv ==
  ASSUME IInv, DaemonAccept
  PROVE  IInv'
<1>1. TypeOK /\ DaemonShape
  BY DEF IInv
<1>2. 1 \in DOMAIN conns
  BY <1>1 DEF DaemonAccept, TypeOK
<1>3. TypeOK'
  BY <1>1, <1>2, DaemonAssumption DEF DaemonAccept, TypeOK, daemonVars, clientVars, DaemonPC, CacheFile, WriteCache, EmptyCache, Path
<1>4. DaemonShape'
  BY <1>1, <1>2 DEF DaemonAccept, DaemonShape, clientVars
<1>5. \A c \in Clients : ClientInv(c)'
  BY <1>1, <1>2, SameClient DEF DaemonAccept, IInv, clientVars
<1> QED BY <1>3, <1>4, <1>5 DEF IInv

\* DaemonLoad keeps the invariant.
LEMMA DaemonLoadInv ==
  ASSUME IInv, DaemonLoad
  PROVE  IInv'
<1>1. TypeOK /\ DaemonShape
  BY DEF IInv
<1>2. accepted /\ conns[1].req.type = "LOAD" /\ 1 \in DOMAIN conns /\ Head(conns) = conns[1]
  BY <1>1 DEF DaemonLoad, Serving, DaemonShape, TypeOK
<1>3. TypeOK'
  BY <1>1, <1>2, DaemonAssumption DEF DaemonLoad, Serving, TypeOK, daemonVars, clientVars, DaemonPC, CacheFile, WriteCache, EmptyCache, Path
<1>4. DaemonShape'
  BY <1>1, <1>2 DEF DaemonLoad, DaemonShape, Serving, clientVars
<1>5. \A c \in Clients : ClientInv(c)'
  BY <1>1, <1>2, SameClient, LoaderDoesNotInfer DEF DaemonLoad, IInv, clientVars
<1> QED BY <1>3, <1>4, <1>5 DEF IInv

\* DaemonStoreOpen keeps the invariant.
LEMMA DaemonStoreOpenInv ==
  ASSUME IInv, DaemonStoreOpen
  PROVE  IInv'
<1>1. TypeOK /\ DaemonShape
  BY DEF IInv
<1>3. TypeOK'
  BY <1>1, DaemonAssumption DEF DaemonStoreOpen, TypeOK, daemonVars, clientVars, DaemonPC, CacheFile, WriteCache, EmptyCache, Path
<1>4. DaemonShape'
  BY <1>1 DEF DaemonStoreOpen, DaemonShape, clientVars
<1>5. \A c \in Clients : ClientInv(c)'
  BY <1>1, SameClient DEF DaemonStoreOpen, IInv, clientVars
<1> QED BY <1>3, <1>4, <1>5 DEF IInv

\* DaemonStoreDenied keeps the invariant.
LEMMA DaemonStoreDeniedInv ==
  ASSUME IInv, DaemonStoreDenied
  PROVE  IInv'
<1>1. TypeOK /\ DaemonShape
  BY DEF IInv
<1>3. TypeOK'
  BY <1>1 DEF DaemonStoreDenied, TypeOK, clientVars, DaemonPC
<1>4. DaemonShape'
  BY <1>1 DEF DaemonStoreDenied, DaemonShape, clientVars
<1>5. \A c \in Clients : ClientInv(c)'
  BY <1>1, SameClient DEF DaemonStoreDenied, IInv, clientVars
<1> QED BY <1>3, <1>4, <1>5 DEF IInv

\* DaemonStoreWrite keeps the invariant.
LEMMA DaemonStoreWriteInv ==
  ASSUME IInv, DaemonStoreWrite
  PROVE  IInv'
<1>1. TypeOK /\ DaemonShape
  BY DEF IInv
<1>2. Head(conns) = conns[1] /\ conns[1].req.path \in Models
  BY <1>1 DEF DaemonStoreWrite, DaemonShape, TypeOK
<1>3. TypeOK'
  BY <1>1, <1>2, DaemonAssumption DEF DaemonStoreWrite, TypeOK, daemonVars, clientVars, DaemonPC, CacheFile, WriteCache, EmptyCache, Path
<1>4. DaemonShape'
  BY <1>1, <1>2 DEF DaemonStoreWrite, DaemonShape, clientVars
<1>5. \A c \in Clients : ClientInv(c)'
  BY <1>1, <1>2, SameClient DEF DaemonStoreWrite, IInv, clientVars
<1> QED BY <1>3, <1>4, <1>5 DEF IInv

\* DaemonPing keeps the invariant.
LEMMA DaemonPingInv ==
  ASSUME IInv, DaemonPing
  PROVE  IInv'
<1>1. TypeOK /\ DaemonShape
  BY DEF IInv
<1>2. /\ accepted /\ conns # <<>> /\ conns[1].req.type = "PING"
      /\ Reply("PONG", NoPath) /\ NoPath \in Path
  BY <1>1 DEF DaemonPing, Serving, DaemonShape, TypeOK, Path
<1>3. TypeOK'
  BY <1>1, <1>2, ReplyFacts DEF DaemonPing, TypeOK, daemonVars, clientVars, DaemonPC
<1>4. DaemonShape'
  BY <1>1, <1>2, ReplyShape DEF DaemonPing, Serving, daemonVars
<1>5. \A c \in Clients : ClientInv(c)'
  BY <1>1, <1>2, ReplyMove, LoaderDoesNotInfer DEF DaemonPing, daemonVars
<1> QED BY <1>3, <1>4, <1>5 DEF IInv

\* DaemonLoadFails keeps the invariant.
LEMMA DaemonLoadFailsInv ==
  ASSUME IInv, DaemonLoadFails
  PROVE  IInv'
<1>1. TypeOK /\ DaemonShape
  BY DEF IInv
<1>2. /\ accepted /\ conns # <<>> /\ conns[1].req.type = "LOAD"
      /\ Reply("ERROR", NoPath) /\ NoPath \in Path
  BY <1>1 DEF DaemonLoadFails, Serving, DaemonShape, TypeOK, Path
<1>3. TypeOK'
  BY <1>1, <1>2, ReplyFacts DEF DaemonLoadFails, TypeOK, daemonVars, clientVars, DaemonPC
<1>4. DaemonShape'
  BY <1>1, <1>2, ReplyShape DEF DaemonLoadFails, Serving, daemonVars
<1>5. \A c \in Clients : ClientInv(c)'
  BY <1>1, <1>2, ReplyMove, LoaderDoesNotInfer DEF DaemonLoadFails, daemonVars
<1> QED BY <1>3, <1>4, <1>5 DEF IInv

\* DaemonLoaded keeps the invariant.
LEMMA DaemonLoadedInv ==
  ASSUME IInv, DaemonLoaded
  PROVE  IInv'
<1>1. TypeOK /\ DaemonShape
  BY DEF IInv
<1>2. /\ accepted /\ conns # <<>> /\ conns[1].req.type = "LOAD"
      /\ Reply("LOADED", NoPath) /\ NoPath \in Path
  BY <1>1 DEF DaemonLoaded, Serving, DaemonShape, TypeOK, Path
<1>3. TypeOK'
  BY <1>1, <1>2, ReplyFacts DEF DaemonLoaded, TypeOK, daemonVars, clientVars, DaemonPC
<1>4. DaemonShape'
  BY <1>1, <1>2, ReplyShape DEF DaemonLoaded, Serving, daemonVars
<1>5. \A c \in Clients : ClientInv(c)'
  BY <1>1, <1>2, ReplyMove, LoaderDoesNotInfer DEF DaemonLoaded, daemonVars
<1> QED BY <1>3, <1>4, <1>5 DEF IInv

\* DaemonInfer keeps the invariant.
LEMMA DaemonInferInv ==
  ASSUME IInv, DaemonInfer
  PROVE  IInv'
<1>1. TypeOK /\ DaemonShape
  BY DEF IInv
<1>2. /\ accepted /\ conns # <<>> /\ conns[1].req.type = "INFER"
      /\ UNCHANGED <<daemonVars, cache, clientVars>> /\ dpc = "serve"
  BY <1>1 DEF DaemonInfer, Serving, DaemonShape, TypeOK
<1>3. PICK type \in {"ERROR", "RESULT"}, p \in Path :
        /\ Reply(type, p)
        /\ type = "RESULT" => p = model /\ p \in Models
  BY <1>1, DaemonAssumption DEF DaemonInfer, TypeOK, Path
<1>4. TypeOK'
  BY <1>1, <1>2, <1>3, ReplyFacts DEF TypeOK, daemonVars, clientVars
<1>5. DaemonShape'
  BY <1>1, <1>2, <1>3, ReplyShape DEF daemonVars
<1>6. \A c \in Clients : ClientInv(c)'
  BY <1>1, <1>2, <1>3, ReplyMove DEF daemonVars
<1> QED BY <1>4, <1>5, <1>6 DEF IInv

\* DaemonHangup keeps the invariant.
LEMMA DaemonHangupInv ==
  ASSUME IInv, DaemonHangup
  PROVE  IInv'
<1>1. TypeOK /\ DaemonShape
  BY DEF IInv
<1>2. accepted /\ conns # <<>> /\ 1 \in DOMAIN conns /\ dpc = "serve"
  BY <1>1 DEF DaemonHangup, Serving, DaemonShape, TypeOK
<1>3. CASE stopping
  <2>1. TypeOK'
    BY <1>1, <1>3, GoneTyped DEF DaemonHangup, TypeOK
  <2>2. DaemonShape'
    BY <1>1, <1>3 DEF DaemonHangup, Gone, DaemonShape
  <2>3. \A c \in Clients : ClientInv(c)'
    BY <1>3, CutOff DEF DaemonHangup, Gone, IInv
  <2> QED BY <2>1, <2>2, <2>3 DEF IInv
<1>4. CASE ~stopping
  <2>1. /\ conns' = Tail(conns) /\ accepted' = FALSE
        /\ UNCHANGED <<dpc, bootPath, model, listening, stopping, crashes, cache, rsp, clientVars>>
    BY <1>4 DEF DaemonHangup
  <2>2. /\ conns' \in Seq(Conn)
        /\ \A i \in DOMAIN conns' : i + 1 \in DOMAIN conns /\ conns'[i] = conns[i + 1]
        /\ \A i \in DOMAIN conns' : i \in Nat \ {0}
    BY <1>1, <1>2, <2>1, TailFacts
  <2>3. TypeOK'
    BY <1>1, <2>1, <2>2 DEF TypeOK, clientVars
  <2>4. DaemonShape'
    BY <1>1, <1>2, <2>1, <2>2 DEF DaemonShape
  <2>5. ASSUME NEW c \in Clients PROVE ClientInv(c)'
    <3>1. ClientInv(c)
      BY DEF IInv
    <3>2. \A i \in DOMAIN conns' : IsOpen(c, i)' => IsOpen(c, i + 1) /\ i + 1 # 1
      BY <2>2 DEF IsOpen
    <3>3. OneConn(c)' /\ Counting(c)'
      BY <2>1, <2>2, <3>1, <3>2 DEF ClientInv, OneConn, Counting, clientVars
    <3>4. HasConn(c)' => ~InSession(c)
      BY <2>2, <3>1, <3>2 DEF ClientInv, Holds, HasConn
    <3>5. Holds(c)'
      BY <2>1, <2>2, <3>1, <3>2, <3>4 DEF ClientInv, Holds, HasConn, InSession, clientVars
    <3>6. SeenSame(c)'
      BY <2>1, <3>1, <3>4 DEF ClientInv, SeenSame, InSession, clientVars
    <3> QED BY <3>3, <3>5, <3>6 DEF ClientInv
  <2> QED BY <2>3, <2>4, <2>5 DEF IInv
<1> QED BY <1>3, <1>4

\* DaemonSigterm keeps the invariant.
LEMMA DaemonSigtermInv ==
  ASSUME IInv, DaemonSigterm
  PROVE  IInv'
<1>1. TypeOK /\ DaemonShape
  BY DEF IInv
<1>2. CASE ~accepted
  <2>1. TypeOK'
    BY <1>1, <1>2, GoneTyped DEF DaemonSigterm, TypeOK
  <2>2. DaemonShape'
    BY <1>1, <1>2 DEF DaemonSigterm, Gone, DaemonShape
  <2>3. \A c \in Clients : ClientInv(c)'
    BY <1>2, CutOff DEF DaemonSigterm, Gone, IInv
  <2> QED BY <2>1, <2>2, <2>3 DEF IInv
<1>3. CASE accepted
  <2>1. /\ conns' = <<Head(conns)>> /\ stopping' = TRUE /\ listening' = FALSE
        /\ UNCHANGED <<dpc, bootPath, model, accepted, crashes, cache, rsp, clientVars>>
        /\ dpc \notin {"down", "stopped", "boot"}
    BY <1>3 DEF DaemonSigterm
  <2>2. 1 \in DOMAIN conns /\ Head(conns) = conns[1] /\ conns[1] \in Conn
    BY <1>1, <1>3 DEF DaemonShape, TypeOK
  <2>3. conns' \in Seq(Conn) /\ DOMAIN conns' = {1} /\ conns'[1] = conns[1]
    BY <2>1, <2>2
  <2>4. TypeOK'
    BY <1>1, <2>1, <2>3 DEF TypeOK, clientVars
  <2>5. DaemonShape'
    BY <1>1, <2>1, <2>2, <2>3 DEF DaemonShape
  <2>6. ASSUME NEW c \in Clients PROVE ClientInv(c)'
    <3>1. ClientInv(c)
      BY DEF IInv
    <3>2. \A i \in DOMAIN conns' : i \in DOMAIN conns /\ conns'[i] = conns[i] /\ (IsOpen(c, i)' <=> IsOpen(c, i))
      BY <2>2, <2>3 DEF IsOpen
    <3>3. HasConn(c)' => HasConn(c)
      BY <3>2 DEF HasConn
    <3>4. OneConn(c)' /\ Counting(c)'
      BY <2>1, <3>1, <3>2 DEF ClientInv, OneConn, Counting, clientVars
    <3>5. Holds(c)'
      BY <2>1, <3>1, <3>2 DEF ClientInv, Holds, InSession, clientVars
    <3>6. SeenSame(c)'
      BY <2>1, <3>1, <3>3 DEF ClientInv, SeenSame, InSession, clientVars
    <3> QED BY <3>4, <3>5, <3>6 DEF ClientInv
  <2> QED BY <2>4, <2>5, <2>6 DEF IInv
<1> QED BY <1>2, <1>3

----------------------------------------------------------------------------
\* Initially nothing runs.
LEMMA InitInv == Init => IInv
<1> SUFFICES ASSUME Init PROVE IInv
  OBVIOUS
<1>1. TypeOK
  <2>1. NoMsg \in Response /\ EmptyCache \in CacheFile
    BY DEF NoMsg, Response, Msg, Path, EmptyCache, CacheFile
  <2> QED BY <2>1, NoConns, DaemonAssumption
      DEF Init, NoRun, TypeOK, DaemonPC, ClientPC
<1>2. DaemonShape
  BY NoConns DEF Init, DaemonShape
<1>3. ASSUME NEW c \in Clients PROVE ClientInv(c)
  <2>1. pc[c] = "idle" /\ seen[c] = {} /\ DOMAIN conns = {}
    BY NoConns DEF Init, NoRun
  <2> QED BY <2>1 DEF ClientInv, OneConn, Holds, SeenSame, Counting, InSession
<1> QED BY <1>1, <1>2, <1>3 DEF IInv

\* Every step keeps the invariant.
LEMMA NextInv == IInv /\ [Next]_vars => IInv'
<1> SUFFICES ASSUME IInv, [Next]_vars PROVE IInv'
  OBVIOUS
<1>1. ASSUME NEW c \in Clients, StartRun(c) \/ StartPreload(c) \/ Run(c) \/ Kill(c)
      PROVE  IInv'
  BY <1>1, StartRunInv, StartPreloadInv, CheckCacheInv, PreloadDoneInv,
     SwitchConnectInv, SwitchRefusedInv, SwitchSendInv, SwitchReturnInv,
     StoreOpenInv, StoreDeniedInv, StoreWriteInv, ConnectInv, ConnectedInv,
     InitLocallyInv, InitFailsInv, InferInv, AnsweredInv, InferFailedInv,
     InferLocallyInv, ExitInv, KillInv
  DEF Run
<1>2. ASSUME Start \/ Serve \/ DaemonSigterm \/ DaemonCrash \/ DaemonStartedAgain
      PROVE  IInv'
  BY <1>2, DaemonBootInv, DaemonListenInv, DaemonBootFailsInv, DaemonAcceptInv,
     DaemonPingInv, DaemonLoadInv, DaemonLoadFailsInv, DaemonStoreOpenInv,
     DaemonStoreDeniedInv, DaemonStoreWriteInv, DaemonLoadedInv, DaemonInferInv, DaemonHangupInv,
     DaemonSigtermInv, DaemonCrashInv, DaemonStartedAgainInv
  DEF Start, Serve
<1>3. CASE UNCHANGED vars
  BY <1>3 DEF vars, IInv, TypeOK, DaemonShape, ClientInv, OneConn, Holds, SeenSame,
     Counting, InSession, HasConn, IsOpen
<1> QED BY <1>1, <1>2, <1>3 DEF Next

\* IInv holds in every state the daemon and its clients reach.
THEOREM Inductive == Spec => []IInv
BY InitInv, NextInv, PTL DEF Spec

\* The variables of the daemon, of its clients and of the cache file keep
\* their types, the path the daemon writes to the cache file included
\* (tvm_model_daemon.cpp:188-273).
THEOREM TypeCorrect == Spec => []TypeOK
<1>1. IInv => TypeOK
  BY DEF IInv
<1> QED BY <1>1, Inductive, PTL

\* All the inferences of one application run are answered by one model,
\* although other processes load models all the time and the daemon and the
\* processes can die at any step (handle_client() of tvm_model_daemon.cpp keeps
\* one connection to its end; the client falls back to its own model only when
\* it never had the daemon, tvm_inference_client.cpp:76-105).
THEOREM RunsSeeOneModel == Spec => []OneModelPerRun
<1>1. IInv => OneModelPerRun
  BY DEF IInv, ClientInv, SeenSame, OneModelPerRun
<1> QED BY <1>1, Inductive, PTL

----------------------------------------------------------------------------
(* Requests and answers stay paired, and ModelDaemon implements            *)
(* ModelService.  Talks is inductive relative to IInv: what a process and  *)
(* the daemon still have to read of one another fits the place the process *)
(* is in.  A move of a process leaves what the others have to read alone   *)
(* (OthersTalk); a move of the daemon answers the first connection or none *)
(* (Answers, StillTalks, Silence).  The refinement follows case by case.   *)

\* What a process may have asked, and been answered, where it is.
Asks(c) ==
  CASE pc[c] \in {"swPing", "ping"} -> {"none", "PING"}
    [] pc[c] = "swLoad"             -> {"none", "LOAD"}
    [] pc[c] = "infer"              -> {"none", "INFER"}
    [] OTHER                        -> {"none"}

Reads(c) ==
  CASE pc[c] \in {"swPing", "ping"} -> {"none", "PONG"}
    [] pc[c] = "swLoad"             -> {"none", "LOADED", "ERROR"}
    [] pc[c] = "infer"              -> {"none", "RESULT", "ERROR"}
    [] OTHER                        -> {"none"}

\* An open connection carries one request, or its answer waits, which only the
\* connection being served can have; a confirmed model is held.
Paired(c, i) ==
  /\ conns[i].req.type \in Asks(c)
  /\ conns[i].req.type = "LOAD" => conns[i].req.path = want[c]
  /\ rsp[c].type # "none" => conns[i].req.type = "none" /\ accepted /\ i = 1
  /\ rsp[c].type = "LOADED" => model = want[c]

Talk(c) ==
  /\ rsp[c].type \in Reads(c)
  /\ pc[c] \notin Wire => rsp[c] = NoMsg
  /\ \A i \in DOMAIN conns : IsOpen(c, i) => Paired(c, i)

\* The model loaded is the one the request being served names.
Loading == dpc \in {"open", "write", "reply"} => model = conns[1].req.path

Talks == Loading /\ \A c \in Clients : Talk(c)

----------------------------------------------------------------------------
(* One process moves. *)

\* A process that is not talking has no connection open.
LEMMA NoWire ==
  ASSUME IInv, NEW c \in Clients, pc[c] \notin Wire
  PROVE  \A i \in DOMAIN conns : ~IsOpen(c, i)
BY DEF IInv, ClientInv, OneConn, Wire

\* What c does to its own connections changes nothing for any other process.
LEMMA OthersTalk ==
  ASSUME NEW c \in Clients, NEW d \in Clients, c # d,
         OwnVars(c), OwnConns(c), Talk(d)
  PROVE  Talk(d)'
<1>1. /\ pc'[d] = pc[d] /\ want'[d] = want[d] /\ rsp'[d] = rsp[d]
      /\ model' = model /\ accepted' = accepted
  BY DEF OwnVars, OwnConns, daemonVars
<1>2. Asks(d)' = Asks(d) /\ Reads(d)' = Reads(d)
  BY <1>1 DEF Asks, Reads
<1>3. \A i \in DOMAIN conns' :
        IsOpen(d, i)' => /\ i \in DOMAIN conns /\ IsOpen(d, i)
                         /\ conns'[i].req = conns[i].req
  BY DEF OwnConns, IsOpen
<1>4. \A i \in DOMAIN conns' : IsOpen(d, i)' => Paired(d, i)'
  BY <1>1, <1>2, <1>3 DEF Talk, Paired
<1> QED BY <1>1, <1>2, <1>4 DEF Talk

\* It is enough to look at the process that moves, and at the request being
\* served.
LEMMA TalkMoves ==
  ASSUME Talks, NEW c \in Clients, OwnVars(c), OwnConns(c), Talk(c)',
         dpc \in {"open", "write", "reply"} => conns'[1].req = conns[1].req
  PROVE  Talks'
<1>1. \A d \in Clients : Talk(d)'
  BY OthersTalk DEF Talks
<1>2. Loading'
  BY DEF Talks, Loading, OwnVars, daemonVars
<1> QED BY <1>1, <1>2 DEF Talks

\* A process that has no socket, before and after.
LEMMA QuietTalk ==
  ASSUME IInv, Talks, NEW c \in Clients, OwnVars(c), UNCHANGED <<conns, rsp>>,
         pc[c] \notin Wire, pc'[c] \notin Wire
  PROVE  Talks'
<1>1. OwnConns(c)
  BY DEF OwnConns
<1>2. Talk(c)'
  <2>1. \A i \in DOMAIN conns' : ~IsOpen(c, i)'
    BY NoWire DEF IsOpen
  <2>2. rsp'[c] = NoMsg
    BY DEF Talks, Talk
  <2> QED BY <2>1, <2>2 DEF Talk, Reads, NoMsg
<1> QED BY <1>1, <1>2, TalkMoves

\* connect() and PING.
LEMMA OpenTalk ==
  ASSUME IInv, Talks, NEW c \in Clients, Open(c), OwnVars(c),
         pc[c] \notin Wire, pc'[c] \in {"swPing", "ping"}
  PROVE  Talks'
<1>1. TypeOK /\ DaemonShape
  BY DEF IInv
<1> DEFINE n == Len(conns) + 1
<1>2. /\ DOMAIN conns' = 1..n /\ DOMAIN conns = 1..(n - 1) /\ n \in Nat \ {0}
      /\ \A i \in DOMAIN conns : conns'[i] = conns[i]
      /\ conns'[n].client = c /\ conns'[n].req.type = "PING"
      /\ rsp'[c] = NoMsg
      /\ \A d \in Clients \ {c} : rsp'[d] = rsp[d]
  <2>1. Len(conns) \in Nat /\ DOMAIN conns = 1..Len(conns)
    BY <1>1 DEF TypeOK
  <2>2. n \in Nat \ {0} /\ n - 1 = Len(conns)
    BY <2>1
  <2> QED BY <1>1, <2>1, <2>2, OpenFacts
<1> HIDE DEF n
<1>3. OwnConns(c)
  BY <1>2 DEF OwnConns
<1>4. Talk(c)'
  <2>1. \A i \in DOMAIN conns' : IsOpen(c, i)' => i = n
    BY <1>2, NoWire DEF IsOpen
  <2> QED BY <1>2, <2>1 DEF Talk, Paired, Asks, Reads, NoMsg, Wire
<1>5. dpc \in {"open", "write", "reply"} => conns'[1].req = conns[1].req
  <2>1. dpc \in {"open", "write", "reply"} => 1 \in DOMAIN conns
    BY <1>1 DEF DaemonShape
  <2> QED BY <1>2, <2>1
<1> QED BY <1>3, <1>4, <1>5, TalkMoves

\* close(): nothing is left to read.
LEMMA CloseTalk ==
  ASSUME IInv, Talks, NEW c \in Clients, Close(c), OwnVars(c), pc'[c] \notin Wire
  PROVE  Talks'
<1>1. TypeOK /\ DaemonShape
  BY DEF IInv
<1>2. /\ DOMAIN conns' = DOMAIN conns
      /\ \A i \in DOMAIN conns :
           /\ conns'[i].client = conns[i].client
           /\ conns'[i].req = conns[i].req
           /\ conns[i].client # c => conns'[i].open = conns[i].open
           /\ conns[i].client = c => conns'[i].open = FALSE
      /\ rsp'[c] = NoMsg
      /\ \A d \in Clients \ {c} : rsp'[d] = rsp[d]
  BY <1>1, CloseFacts
<1>3. OwnConns(c)
  BY <1>2 DEF OwnConns
<1>4. Talk(c)'
  BY <1>2 DEF Talk, Reads, NoMsg, IsOpen
<1>5. dpc \in {"open", "write", "reply"} => conns'[1].req = conns[1].req
  BY <1>1, <1>2 DEF DaemonShape
<1> QED BY <1>3, <1>4, <1>5, TalkMoves

\* A request is sent when the answer to the one before has been read.
LEMMA SendTalk ==
  ASSUME IInv, Talks, NEW c \in Clients, NEW type \in {"LOAD", "INFER"},
         NEW p \in Path, Send(c, type, p), OwnVars(c), want'[c] = want[c],
         \/ /\ type = "LOAD" /\ p = want[c] /\ rsp[c].type = "PONG"
            /\ pc[c] = "swPing" /\ pc'[c] = "swLoad"
         \/ type = "INFER" /\ pc[c] = "ready" /\ pc'[c] = "infer"
  PROVE  Talks'
<1>1. TypeOK /\ DaemonShape
  BY DEF IInv
<1>2. /\ DOMAIN conns' = DOMAIN conns
      /\ \A i \in DOMAIN conns :
           /\ conns'[i].client = conns[i].client
           /\ conns'[i].open = conns[i].open
           /\ conns'[i].req = IF IsOpen(c, i) THEN [type |-> type, path |-> p]
                              ELSE conns[i].req
      /\ rsp'[c] = NoMsg
      /\ \A d \in Clients \ {c} : rsp'[d] = rsp[d]
  BY <1>1, SendFacts
<1>3. OwnConns(c)
  BY <1>2 DEF OwnConns, IsOpen
<1>4. Talk(c)'
  <2>1. \A i \in DOMAIN conns' : IsOpen(c, i)' => conns'[i].req = [type |-> type, path |-> p]
    BY <1>2 DEF IsOpen
  <2> QED BY <1>2, <2>1 DEF Talk, Paired, Asks, Reads, NoMsg, Wire
<1>5. dpc \in {"open", "write", "reply"} => conns'[1].req = conns[1].req
  <2>1. \A i \in DOMAIN conns : IsOpen(c, i) => conns[i].req.type # "LOAD"
    BY DEF Talks, Talk, Paired, Asks
  <2>2. dpc \in {"open", "write", "reply"} => 1 \in DOMAIN conns /\ conns[1].req.type = "LOAD"
    BY <1>1 DEF DaemonShape
  <2> QED BY <1>2, <2>1, <2>2
<1> QED BY <1>3, <1>4, <1>5, TalkMoves

\* An answer is read.
LEMMA ReadTalk ==
  ASSUME IInv, Talks, NEW c \in Clients, UNCHANGED conns, OwnVars(c),
         rsp' = [rsp EXCEPT ![c] = NoMsg], want'[c] = want[c],
         pc[c] \in {"ping", "infer"}, pc'[c] = "ready", rsp[c].type # "none"
  PROVE  Talks'
<1>1. TypeOK
  BY DEF IInv
<1>2. rsp'[c] = NoMsg /\ \A d \in Clients \ {c} : rsp'[d] = rsp[d]
  BY <1>1 DEF TypeOK
<1>3. OwnConns(c)
  BY <1>2 DEF OwnConns
<1>4. Talk(c)'
  <2>1. \A i \in DOMAIN conns' : IsOpen(c, i)' => i \in DOMAIN conns /\ conns'[i].req.type = "none"
    BY DEF Talks, Talk, Paired, IsOpen
  <2> QED BY <1>2, <2>1 DEF Talk, Paired, Asks, Reads, NoMsg, Wire
<1> QED BY <1>3, <1>4, TalkMoves

----------------------------------------------------------------------------
(* The daemon moves. *)

\* Nobody has a connection to a daemon that has gone.
LEMMA Silence ==
  ASSUME Talks, UNCHANGED <<rsp, clientVars>>, DOMAIN conns' = {},
         dpc' \notin {"open", "write", "reply"}
  PROVE  Talks'
<1>1. ASSUME NEW c \in Clients PROVE Talk(c)'
  BY DEF Talks, Talk, Reads, clientVars, Wire
<1> QED BY <1>1 DEF Talks, Loading

\* The connections stay as they are.
LEMMA StillTalks ==
  ASSUME Talks, UNCHANGED <<conns, rsp, clientVars>>, accepted => accepted',
         model' # model => conns[1].req.type # "none", Loading'
  PROVE  Talks'
<1>1. ASSUME NEW c \in Clients PROVE Talk(c)'
  <2>1. Talk(c)
    BY DEF Talks
  <2>2. Asks(c)' = Asks(c) /\ Reads(c)' = Reads(c)
    BY DEF Asks, Reads, clientVars
  <2>3. rsp'[c].type \in Reads(c)' /\ (pc'[c] \notin Wire => rsp'[c] = NoMsg)
    BY <2>1, <2>2 DEF Talk, clientVars
  <2>4. ASSUME NEW i \in DOMAIN conns', IsOpen(c, i)' PROVE Paired(c, i)'
    <3>1. i \in DOMAIN conns /\ Paired(c, i)
      BY <2>1, <2>4 DEF Talk, IsOpen
    <3>2. rsp[c].type = "LOADED" => model' = model
      BY <3>1 DEF Paired
    <3> QED BY <2>2, <3>1, <3>2 DEF Paired, clientVars
  <2> QED BY <2>3, <2>4 DEF Talk
<1> QED BY <1>1 DEF Talks

\* An answer goes to the process that asked, if it still listens, and is of
\* the kind it waits for.
LEMMA Answers ==
  ASSUME IInv, Talks, NEW type \in {"PONG", "LOADED", "ERROR", "RESULT"},
         NEW p \in Path, Reply(type, p), accepted, accepted' = accepted,
         UNCHANGED clientVars, dpc' = "serve",
         \/ type = "PONG" /\ conns[1].req.type = "PING"
         \/ type \in {"LOADED", "ERROR"} /\ conns[1].req.type = "LOAD"
         \/ type \in {"RESULT", "ERROR"} /\ conns[1].req.type = "INFER",
         type = "LOADED" => model' = conns[1].req.path
  PROVE  Talks'
<1>1. TypeOK /\ DaemonShape
  BY DEF IInv
<1>2. conns # <<>>
  BY <1>1 DEF DaemonShape
<1>3. /\ DOMAIN conns' = DOMAIN conns
      /\ 1 \in DOMAIN conns
      /\ \A i \in DOMAIN conns :
           /\ conns'[i].client = conns[i].client
           /\ conns'[i].open = conns[i].open
           /\ conns'[i].req = IF i = 1 THEN NoMsg ELSE conns[i].req
      /\ \A c \in Clients : rsp'[c] = IF IsOpen(c, 1) THEN [type |-> type, path |-> p] ELSE rsp[c]
  BY <1>1, <1>2, ReplyFacts
<1>4. ASSUME NEW c \in Clients PROVE Talk(c)'
  <2>1. Talk(c) /\ OneConn(c)
    BY DEF Talks, IInv, ClientInv
  <2>2. \A i \in DOMAIN conns' : IsOpen(c, i)' => i \in DOMAIN conns /\ IsOpen(c, i)
    BY <1>3 DEF IsOpen
  <2>3. Asks(c)' = Asks(c) /\ Reads(c)' = Reads(c) /\ "none" \in Asks(c)
    BY DEF Asks, Reads, clientVars
  <2>4. CASE IsOpen(c, 1)
    <3>1. Paired(c, 1) /\ pc[c] \in Wire
      BY <1>3, <2>1, <2>4 DEF Talk, OneConn, Wire
    <3>2. type \in Reads(c)
      BY <3>1 DEF Paired, Asks, Reads
    <3>3. rsp'[c].type = type
      BY <1>3, <2>4
    <3>4. \A i \in DOMAIN conns' : IsOpen(c, i)' => i = 1
      BY <2>1, <2>2, <2>4, <1>3 DEF OneConn
    <3>5. conns'[1].req.type = "none"
      BY <1>3 DEF NoMsg
    <3>6. type = "LOADED" => model' = want'[c]
      BY <3>1 DEF Paired, clientVars
    <3>7. \A i \in DOMAIN conns' : IsOpen(c, i)' => Paired(c, i)'
      BY <2>3, <3>3, <3>4, <3>5, <3>6 DEF Paired
    <3> QED BY <2>3, <3>1, <3>2, <3>3, <3>7 DEF Talk, clientVars
  <2>5. CASE ~IsOpen(c, 1)
    <3>1. rsp'[c] = rsp[c]
      BY <1>3, <2>5
    <3>2. \A i \in DOMAIN conns' : IsOpen(c, i)' => Paired(c, i) /\ i # 1 /\ conns'[i].req = conns[i].req
      BY <1>3, <2>1, <2>2, <2>5 DEF Talk
    <3>3. \A i \in DOMAIN conns' : IsOpen(c, i)' => Paired(c, i)'
      BY <2>3, <3>1, <3>2 DEF Paired, clientVars
    <3> QED BY <2>1, <2>3, <3>1, <3>3 DEF Talk, clientVars
  <2> QED BY <2>4, <2>5
<1> QED BY <1>4 DEF Talks, Loading

\* Every step of the daemon keeps the exchanges paired.
LEMMA DaemonTalks ==
  ASSUME IInv, Talks, Start \/ Serve \/ DaemonSigterm \/ DaemonCrash \/ DaemonStartedAgain
  PROVE  Talks'
<1>1. TypeOK /\ DaemonShape
  BY DEF IInv
<1>2. accepted => conns # <<>> /\ 1 \in DOMAIN conns /\ Head(conns) = conns[1]
  BY <1>1 DEF DaemonShape, TypeOK
<1>3. CASE Start
  <2>1. DOMAIN conns = {} /\ dpc' \notin {"open", "write", "reply"}
        /\ UNCHANGED <<conns, rsp, clientVars>>
    BY <1>1, <1>3 DEF Start, DaemonBoot, DaemonListen, DaemonBootFails, DaemonShape
  <2> QED BY <2>1, Silence
<1>4. CASE DaemonAccept
  <2>1. UNCHANGED <<conns, rsp, clientVars, dpc, model>> /\ accepted'
    BY <1>4 DEF DaemonAccept
  <2> QED BY <2>1, StillTalks DEF Talks, Loading
<1>5. CASE DaemonPing
  <2>1. /\ Reply("PONG", NoPath) /\ NoPath \in Path /\ accepted /\ accepted' = accepted
        /\ UNCHANGED clientVars /\ dpc' = "serve" /\ conns[1].req.type = "PING"
    BY <1>2, <1>5 DEF DaemonPing, Serving, daemonVars, Path
  <2> QED BY <2>1, Answers
<1>6. CASE DaemonLoad
  <2>1. /\ UNCHANGED <<conns, rsp, clientVars, accepted>>
        /\ conns[1].req.type = "LOAD" /\ model' = conns[1].req.path
    BY <1>2, <1>6 DEF DaemonLoad, Serving
  <2> QED BY <2>1, StillTalks DEF Loading
<1>7. CASE DaemonLoadFails
  <2>1. /\ Reply("ERROR", NoPath) /\ NoPath \in Path /\ accepted /\ accepted' = accepted
        /\ UNCHANGED clientVars /\ dpc' = "serve" /\ conns[1].req.type = "LOAD"
    BY <1>2, <1>7 DEF DaemonLoadFails, Serving, Path
  <2> QED BY <2>1, Answers
<1>8. CASE DaemonStoreOpen \/ DaemonStoreDenied \/ DaemonStoreWrite
  <2>1. UNCHANGED <<conns, rsp, clientVars, accepted, model>> /\ dpc \in {"open", "write"}
    BY <1>8 DEF DaemonStoreOpen, DaemonStoreDenied, DaemonStoreWrite
  <2>2. Loading'
    BY <2>1 DEF Talks, Loading
  <2> QED BY <2>1, <2>2, StillTalks
<1>9. CASE DaemonLoaded
  <2>1. /\ Reply("LOADED", NoPath) /\ NoPath \in Path /\ accepted /\ accepted' = accepted
        /\ UNCHANGED clientVars /\ dpc' = "serve" /\ conns[1].req.type = "LOAD"
        /\ model' = conns[1].req.path
    BY <1>1, <1>9 DEF DaemonLoaded, DaemonShape, Talks, Loading, Path
  <2> QED BY <2>1, Answers
<1>10. CASE DaemonInfer
  <2>1. /\ accepted /\ accepted' = accepted /\ UNCHANGED clientVars
        /\ dpc' = "serve" /\ conns[1].req.type = "INFER"
    BY <1>2, <1>10 DEF DaemonInfer, Serving, daemonVars
  <2>2. PICK type \in {"ERROR", "RESULT"}, p \in Path : Reply(type, p)
    BY <1>1, <1>10, DaemonAssumption DEF DaemonInfer, TypeOK, Path
  <2> QED BY <2>1, <2>2, Answers
<1>11. CASE DaemonHangup /\ ~stopping
  <2>1. /\ conns' = Tail(conns) /\ dpc' = "serve" /\ accepted /\ conns # <<>>
        /\ UNCHANGED <<rsp, clientVars, model>>
    BY <1>2, <1>11 DEF DaemonHangup, Serving
  <2>2. \A i \in DOMAIN conns' : /\ i + 1 \in DOMAIN conns /\ i + 1 # 1
                                 /\ conns'[i] = conns[i + 1]
    <3>1. \A i \in DOMAIN conns' : i \in Nat \ {0}
      BY <1>1, <2>1, TailFacts
    <3> QED BY <1>1, <2>1, <3>1, TailFacts
  <2>3. ASSUME NEW c \in Clients PROVE Talk(c)'
    <3>1. Asks(c)' = Asks(c) /\ Reads(c)' = Reads(c)
      BY <2>1 DEF Asks, Reads, clientVars
    <3>2. \A i \in DOMAIN conns' : IsOpen(c, i)' => Paired(c, i + 1) /\ rsp[c].type = "none"
      BY <2>2 DEF Talks, Talk, Paired, IsOpen
    <3>3. \A i \in DOMAIN conns' : IsOpen(c, i)' => Paired(c, i)'
      BY <2>1, <2>2, <3>1, <3>2 DEF Paired, clientVars
    <3> QED BY <2>1, <3>1, <3>3 DEF Talks, Talk, clientVars
  <2> QED BY <2>1, <2>3 DEF Talks, Loading
<1>12. CASE DaemonSigterm /\ accepted
  <2>1. /\ conns' = <<Head(conns)>>
        /\ UNCHANGED <<dpc, model, accepted, rsp, clientVars>>
    BY <1>12 DEF DaemonSigterm
  <2>2. DOMAIN conns' = {1} /\ conns'[1] = conns[1] /\ 1 \in DOMAIN conns
    BY <1>2, <1>12, <2>1
  <2>3. ASSUME NEW c \in Clients PROVE Talk(c)'
    <3>1. Asks(c)' = Asks(c) /\ Reads(c)' = Reads(c)
      BY <2>1 DEF Asks, Reads, clientVars
    <3>2. \A i \in DOMAIN conns' : IsOpen(c, i)' => Paired(c, i) /\ i = 1
      BY <2>2 DEF Talks, Talk, IsOpen
    <3>3. \A i \in DOMAIN conns' : IsOpen(c, i)' => Paired(c, i)'
      BY <2>1, <2>2, <3>1, <3>2 DEF Paired, clientVars
    <3> QED BY <2>1, <3>1, <3>3 DEF Talks, Talk, clientVars
  <2> QED BY <2>1, <2>2, <2>3 DEF Talks, Loading
<1>13. CASE \/ DaemonHangup /\ stopping
            \/ DaemonSigterm /\ ~accepted
            \/ DaemonCrash
  <2>1. DOMAIN conns' = {} /\ dpc' \in {"down", "stopped"} /\ UNCHANGED <<rsp, clientVars>>
    BY <1>13, NoConns DEF DaemonHangup, DaemonSigterm, DaemonCrash, Gone
  <2> QED BY <2>1, Silence
<1>14. CASE DaemonStartedAgain
  <2>1. DOMAIN conns = {} /\ dpc' = "down" /\ UNCHANGED <<conns, rsp, clientVars>>
    BY <1>1, <1>14 DEF DaemonStartedAgain, DaemonShape
  <2> QED BY <2>1, Silence
<1> QED BY <1>3, <1>4, <1>5, <1>6, <1>7, <1>8, <1>9, <1>10, <1>11, <1>12, <1>13, <1>14
        DEF Serve

\* Every step of a process keeps the exchanges paired.
LEMMA ClientTalks ==
  ASSUME IInv, Talks, NEW c \in Clients,
         StartRun(c) \/ StartPreload(c) \/ Run(c) \/ Kill(c)
  PROVE  Talks'
<1> USE DEF Go, End
<1>1. TypeOK
  BY DEF IInv
<1>2. OwnVars(c)
  <2>1. CASE StartRun(c) \/ StartPreload(c) \/ Kill(c) \/ CheckCache(c) \/ PreloadDone(c)
    BY <1>1, <2>1 DEF OwnVars, TypeOK, daemonVars, StartRun, StartPreload, Kill, CheckCache, PreloadDone
  <2>2. CASE SwitchConnect(c) \/ SwitchRefused(c) \/ SwitchSend(c) \/ SwitchReturn(c) \/ StoreOpen(c)
    BY <1>1, <2>2 DEF OwnVars, TypeOK, daemonVars, SwitchConnect, SwitchRefused, SwitchSend, SwitchReturn, StoreOpen
  <2>3. CASE StoreDenied(c) \/ StoreWrite(c) \/ Connect(c) \/ Connected(c) \/ InitLocally(c)
    BY <1>1, <2>3 DEF OwnVars, TypeOK, daemonVars, StoreDenied, StoreWrite, Connect, Connected, InitLocally
  <2>4. CASE InitFails(c) \/ Infer(c) \/ Answered(c) \/ InferFailed(c)
    BY <1>1, <2>4 DEF OwnVars, TypeOK, daemonVars, InitFails, Infer, Answered, InferFailed
  <2>5. CASE InferLocally(c) \/ Exit(c)
    BY <1>1, <2>5 DEF OwnVars, TypeOK, daemonVars, InferLocally, Exit
  <2> QED BY <2>1, <2>2, <2>3, <2>4, <2>5 DEF Run
<1>3. CASE \/ StartRun(c) \/ StartPreload(c) \/ CheckCache(c) \/ PreloadDone(c)
           \/ SwitchRefused(c) \/ StoreOpen(c) \/ StoreDenied(c) \/ StoreWrite(c)
           \/ InferLocally(c)
  <2>1. UNCHANGED <<conns, rsp>> /\ pc[c] \notin Wire /\ pc'[c] \notin Wire
    BY <1>1, <1>3 DEF TypeOK, Wire, StartRun, StartPreload, CheckCache, PreloadDone,
       SwitchRefused, StoreOpen, StoreDenied, StoreWrite, InferLocally
  <2> QED BY <1>2, <2>1, QuietTalk
<1>4. CASE SwitchConnect(c) \/ Connect(c)
  <2>1. Open(c) /\ pc[c] \notin Wire /\ pc'[c] \in {"swPing", "ping"}
    BY <1>1, <1>4 DEF TypeOK, Wire, SwitchConnect, Connect
  <2> QED BY <1>2, <2>1, OpenTalk
<1>5. CASE SwitchReturn(c) \/ InitLocally(c) \/ InitFails(c) \/ InferFailed(c) \/ Exit(c) \/ Kill(c)
  <2>1. Close(c) /\ pc'[c] \notin Wire
    BY <1>1, <1>5 DEF TypeOK, Wire, SwitchReturn, InitLocally, InitFails, InferFailed, Exit, Kill
  <2> QED BY <1>2, <2>1, CloseTalk
<1>6. CASE SwitchSend(c)
  <2>1. /\ Send(c, "LOAD", want[c]) /\ want[c] \in Path /\ want'[c] = want[c]
        /\ rsp[c].type = "PONG" /\ pc[c] = "swPing" /\ pc'[c] = "swLoad"
    BY <1>1, <1>6 DEF TypeOK, SwitchSend, Path
  <2> QED BY <1>2, <2>1, SendTalk
<1>7. CASE Infer(c)
  <2>1. /\ Send(c, "INFER", NoPath) /\ NoPath \in Path /\ want'[c] = want[c]
        /\ pc[c] = "ready" /\ pc'[c] = "infer"
    BY <1>1, <1>7 DEF TypeOK, Infer, Path
  <2> QED BY <1>2, <2>1, SendTalk
<1>8. CASE Connected(c) \/ Answered(c)
  <2>1. /\ UNCHANGED conns /\ rsp' = [rsp EXCEPT ![c] = NoMsg] /\ want'[c] = want[c]
        /\ pc[c] \in {"ping", "infer"} /\ pc'[c] = "ready" /\ rsp[c].type # "none"
    BY <1>1, <1>8 DEF TypeOK, Connected, Answered
  <2> QED BY <1>2, <2>1, ReadTalk
<1> QED BY <1>3, <1>4, <1>5, <1>6, <1>7, <1>8 DEF Run

----------------------------------------------------------------------------
\* Nobody talks initially.
LEMMA InitTalks == Init => Talks
<1> SUFFICES ASSUME Init PROVE Talks
  OBVIOUS
<1>1. ASSUME NEW c \in Clients PROVE Talk(c)
  BY NoConns DEF Init, NoRun, Talk, Reads, NoMsg
<1> QED BY <1>1 DEF Talks, Loading, Init

\* Every step keeps the exchanges paired.
LEMMA NextTalks == IInv /\ Talks /\ [Next]_vars => Talks'
<1> SUFFICES ASSUME IInv, Talks, [Next]_vars PROVE Talks'
  OBVIOUS
<1>1. CASE UNCHANGED vars
  <2>1. UNCHANGED <<conns, rsp, clientVars, accepted, model, dpc>>
    BY <1>1 DEF vars, clientVars
  <2> QED BY <2>1, StillTalks DEF Talks, Loading
<1> QED BY <1>1, ClientTalks, DaemonTalks DEF Next

\* IInv and Talks hold in every state the daemon and its clients reach.
THEOREM Talking == Spec => [](IInv /\ Talks)
<1>1. Init => IInv /\ Talks
  BY InitInv, InitTalks
<1>2. IInv /\ Talks /\ [Next]_vars => (IInv /\ Talks)'
  BY NextInv, NextTalks
<1> QED BY <1>1, <1>2, PTL DEF Spec

\* Requests and answers stay in step for any processes: no process ever finds
\* an answer that is not to the request it has just sent, and none waits on a
\* connection without a request or an answer in flight (exchange() of
\* tvm_daemon_proto.h has no identifiers; tvm_inference_client.cpp:190).
THEOREM InLockstep == Spec => []Lockstep
<1>1. ASSUME IInv, Talks, NEW c \in Clients PROVE Exchange(c)
  <2> DEFINE asked == {conns[i].req.type : i \in {j \in DOMAIN conns : IsOpen(c, j)}}
  <2>1. Talk(c) /\ ClientInv(c)
    BY <1>1 DEF Talks, IInv
  <2>2. asked \subseteq Asks(c)
    BY <2>1 DEF Talk, Paired
  <2>3. \A q : q # "none" /\ asked = {q} => rsp[c].type = "none"
    BY <2>1 DEF Talk, Paired
  <2>4. pc[c] \notin Wire => asked = {} /\ rsp[c] = NoMsg
    BY <1>1, <2>1, NoWire DEF Talk
  <2>5. rsp[c].type \in Reads(c)
    BY <2>1 DEF Talk
  <2> HIDE DEF asked
  <2>6. CASE pc[c] \in {"swPing", "ping"}
    BY <2>2, <2>3, <2>5, <2>6 DEF Asks, Reads, Exchange, asked
  <2>7. CASE pc[c] = "swLoad"
    BY <2>2, <2>3, <2>5, <2>7 DEF Asks, Reads, Exchange, asked
  <2>8. CASE pc[c] = "infer"
    BY <2>2, <2>3, <2>5, <2>8 DEF Asks, Reads, Exchange, asked
  <2>9. CASE pc[c] = "ready"
    BY <2>2, <2>5, <2>9 DEF Asks, Reads, Exchange, asked
  <2>10. CASE pc[c] \notin Wire
    BY <2>4, <2>10 DEF Exchange, asked, Wire
  <2> QED BY <2>6, <2>7, <2>8, <2>9, <2>10 DEF Wire
<1>2. IInv /\ Talks => Lockstep
  BY <1>1 DEF Lockstep
<1> QED BY <1>2, Talking, PTL

\* A model that the daemon has confirmed is the one it holds, as long as it
\* serves the connection that asked (tvm_model_daemon.cpp:214-235).
THEOREM Confirmed == Spec => []ConfirmedIsResident
<1>1. ASSUME IInv, Talks PROVE ConfirmedIsResident
  <2>1. accepted => 1 \in DOMAIN conns
    BY <1>1 DEF IInv, DaemonShape
  <2> QED BY <1>1, <2>1 DEF ConfirmedIsResident, Talks, Talk, Paired
<1> QED BY <1>1, Talking, PTL

----------------------------------------------------------------------------
(* The refinement. *)

Holder == IF accepted THEN Head(conns).client ELSE NoPath
Waiting == [c \in Clients |-> IF rsp[c].type = "RESULT" THEN rsp[c].path ELSE NoPath]

\* The client of the connection being served is the holder.
LEMMA HolderIs ==
  ASSUME TypeOK, DaemonShape, accepted
  PROVE  /\ 1 \in DOMAIN conns /\ Head(conns) = conns[1] /\ conns # <<>>
         /\ Holder = conns[1].client /\ Holder \in Clients /\ Holder # NoPath
<1>1. 1 \in DOMAIN conns /\ conns \in Seq(Conn)
  BY DEF TypeOK, DaemonShape
<1>2. Head(conns) = conns[1] /\ conns # <<>> /\ conns[1] \in Conn
  BY <1>1
<1>3. Holder = conns[1].client
  BY <1>2 DEF Holder
<1>4. conns[1].client \in Clients
  BY <1>2 DEF Conn
<1>5. NoPath \notin Clients
  BY DaemonAssumption
<1> QED BY <1>1, <1>2, <1>3, <1>4, <1>5

\* What waits for whom, process by process.
LEMMA WaitingIs ==
  /\ DOMAIN Waiting = Clients
  /\ Waiting = [c \in Clients |-> Waiting[c]]
  /\ \A c \in Clients :
       Waiting[c] = IF rsp[c].type = "RESULT" THEN rsp[c].path ELSE NoPath
BY DEF Waiting

\* A step that the service does not see.
LEMMA Stutters ==
  ASSUME UNCHANGED <<model, Holder, Waiting>>
  PROVE  [Service!SNext]_(Service!svars)
BY DEF Service!svars, Holder, Waiting

\* A process takes its answer, or the service sees nothing of its move.
LEMMA ClientRefines ==
  ASSUME NEW c \in Clients, UNCHANGED <<model, Holder>>,
         \A d \in Clients \ {c} : rsp'[d] = rsp[d],
         rsp'[c] = rsp[c] \/ rsp'[c] = NoMsg
  PROVE  [Service!SNext]_(Service!svars)
<1>1. /\ Waiting = [d \in Clients |-> Waiting[d]]
      /\ Waiting' = [d \in Clients |-> Waiting'[d]]
  BY WaitingIs DEF Waiting
<1>2. \A d \in Clients \ {c} : Waiting'[d] = Waiting[d]
  BY DEF Waiting
<1>3. Waiting'[c] = Waiting[c] \/ Waiting'[c] = NoPath
  BY DEF Waiting, NoMsg
<1>4. CASE Waiting'[c] = Waiting[c]
  <2>1. Waiting' = Waiting
    BY <1>1, <1>2, <1>4
  <2> QED BY <2>1, Stutters
<1>5. CASE Waiting[c] # NoPath /\ Waiting'[c] = NoPath
  <2>1. Waiting' = [Waiting EXCEPT ![c] = NoPath]
    BY <1>1, <1>2, <1>5
  <2>2. Service!Take(c)
    BY <1>5, <2>1 DEF Service!Take, Holder, Waiting
  <2> QED BY <2>2 DEF Service!SNext
<1> QED BY <1>3, <1>4, <1>5

\* Every move of a process.
LEMMA ClientStep ==
  ASSUME IInv, NEW c \in Clients,
         StartRun(c) \/ StartPreload(c) \/ Run(c) \/ Kill(c)
  PROVE  [Service!SNext]_(Service!svars)
<1> USE DEF Go, End
<1>1. TypeOK /\ DaemonShape
  BY DEF IInv
<1>2. model' = model /\ accepted' = accepted
  BY DEF daemonVars, Run, StartRun, StartPreload, Kill, CheckCache, PreloadDone, SwitchConnect,
     SwitchRefused, SwitchSend, SwitchReturn, StoreOpen, StoreDenied, StoreWrite,
     Connect, Connected, InitLocally, InitFails, Infer, Answered, InferFailed,
     InferLocally, Exit
<1>3. \/ UNCHANGED <<conns, rsp>>
      \/ UNCHANGED conns /\ rsp' = [rsp EXCEPT ![c] = NoMsg]
      \/ Open(c)
      \/ Close(c)
      \/ \E type \in {"LOAD", "INFER"}, p \in Path : Send(c, type, p)
  BY <1>1 DEF daemonVars, Run, StartRun, StartPreload, Kill, CheckCache, PreloadDone, SwitchConnect,
     SwitchRefused, SwitchSend, SwitchReturn, StoreOpen, StoreDenied, StoreWrite,
     Connect, Connected, InitLocally, InitFails, Infer, Answered, InferFailed,
     InferLocally, Exit, TypeOK, Path
<1> DEFINE Effect == /\ \A d \in Clients \ {c} : rsp'[d] = rsp[d]
                     /\ rsp'[c] = rsp[c] \/ rsp'[c] = NoMsg
                     /\ accepted => Head(conns').client = Head(conns).client
<1>4. Effect
  <2>1. CASE UNCHANGED <<conns, rsp>>
    BY <2>1
  <2>2. CASE UNCHANGED conns /\ rsp' = [rsp EXCEPT ![c] = NoMsg]
    BY <1>1, <2>2 DEF TypeOK
  <2>3. CASE Open(c)
    <3>1. /\ conns' \in Seq(Conn) /\ rsp'[c] = NoMsg
          /\ \A d \in Clients \ {c} : rsp'[d] = rsp[d]
          /\ \A i \in DOMAIN conns : i \in DOMAIN conns' /\ conns'[i] = conns[i]
      BY <1>1, <2>3, OpenFacts
    <3>2. accepted => Head(conns) = conns[1] /\ Head(conns') = conns'[1] /\ conns'[1] = conns[1]
      BY <1>1, <3>1, HolderIs
    <3> QED BY <3>1, <3>2
  <2>4. CASE Close(c)
    <3>1. /\ conns' \in Seq(Conn) /\ rsp'[c] = NoMsg /\ DOMAIN conns' = DOMAIN conns
          /\ \A d \in Clients \ {c} : rsp'[d] = rsp[d]
          /\ \A i \in DOMAIN conns : conns'[i].client = conns[i].client
      BY <1>1, <2>4, CloseFacts
    <3>2. accepted => /\ Head(conns) = conns[1] /\ Head(conns') = conns'[1]
                      /\ conns'[1].client = conns[1].client
      BY <1>1, <3>1, HolderIs
    <3> QED BY <3>1, <3>2
  <2>5. ASSUME NEW type \in {"LOAD", "INFER"}, NEW p \in Path, Send(c, type, p)
        PROVE  Effect
    <3>1. /\ conns' \in Seq(Conn) /\ rsp'[c] = NoMsg /\ DOMAIN conns' = DOMAIN conns
          /\ \A d \in Clients \ {c} : rsp'[d] = rsp[d]
          /\ \A i \in DOMAIN conns : conns'[i].client = conns[i].client
      BY <1>1, <2>5, SendFacts
    <3>2. accepted => /\ Head(conns) = conns[1] /\ Head(conns') = conns'[1]
                      /\ conns'[1].client = conns[1].client
      BY <1>1, <3>1, HolderIs
    <3> QED BY <3>1, <3>2
  <2> QED BY <1>3, <2>1, <2>2, <2>3, <2>4, <2>5
<1>5. Holder' = Holder
  BY <1>2, <1>4 DEF Holder
<1> QED BY <1>2, <1>4, <1>5, ClientRefines

\* What an answer is to the service.
LEMMA ReplyRefines ==
  ASSUME IInv, Talks, NEW type \in {"PONG", "LOADED", "ERROR", "RESULT"},
         NEW p \in Path, Reply(type, p), accepted, accepted' = accepted,
         conns[1].req.type # "none"
  PROVE  /\ Holder' = Holder
         /\ type # "RESULT" => Waiting' = Waiting
         /\ type = "RESULT" => \/ Waiting' = Waiting
                               \/ Waiting' = [Waiting EXCEPT ![Holder] = p]
<1>1. TypeOK /\ DaemonShape
  BY DEF IInv
<1>2. /\ 1 \in DOMAIN conns /\ conns # <<>> /\ Holder = conns[1].client /\ Holder \in Clients
  BY <1>1, HolderIs
<1>3. /\ conns' \in Seq(Conn) /\ DOMAIN conns' = DOMAIN conns
      /\ conns'[1].client = conns[1].client
      /\ \A d \in Clients : rsp'[d] = IF IsOpen(d, 1) THEN [type |-> type, path |-> p] ELSE rsp[d]
  BY <1>1, <1>2, ReplyFacts
<1>4. Holder' = Holder
  <2>1. Head(conns') = conns'[1]
    BY <1>2, <1>3
  <2> QED BY <1>2, <1>3, <2>1 DEF Holder
<1>5. /\ Waiting = [d \in Clients |-> Waiting[d]]
      /\ Waiting' = [d \in Clients |-> Waiting'[d]]
  BY WaitingIs DEF Waiting
<1>6. \A d \in Clients : IsOpen(d, 1) => d = Holder /\ rsp[d].type = "none"
  BY <1>2 DEF IsOpen, Talks, Talk, Paired
<1>7. \A d \in Clients : ~IsOpen(d, 1) => Waiting'[d] = Waiting[d]
  BY <1>3 DEF Waiting
<1>8. \A d \in Clients : IsOpen(d, 1) =>
        /\ Waiting[d] = NoPath
        /\ Waiting'[d] = IF type = "RESULT" THEN p ELSE NoPath
  BY <1>3, <1>6 DEF Waiting
<1>9. CASE type # "RESULT"
  <2>1. \A d \in Clients : Waiting'[d] = Waiting[d]
    BY <1>7, <1>8, <1>9
  <2> QED BY <1>4, <1>5, <1>9, <2>1
<1>10. CASE type = "RESULT" /\ ~IsOpen(Holder, 1)
  <2>1. \A d \in Clients : Waiting'[d] = Waiting[d]
    BY <1>6, <1>7, <1>10
  <2> QED BY <1>4, <1>5, <1>10, <2>1
<1>11. CASE type = "RESULT" /\ IsOpen(Holder, 1)
  <2>1. \A d \in Clients : Waiting'[d] = IF d = Holder THEN p ELSE Waiting[d]
    BY <1>2, <1>6, <1>7, <1>8, <1>11
  <2>2. Waiting' = [Waiting EXCEPT ![Holder] = p]
    BY <1>2, <1>5, <2>1
  <2> QED BY <1>4, <1>11, <2>2
<1> QED BY <1>9, <1>10, <1>11

\* Every move of the daemon.
LEMMA DaemonStep ==
  ASSUME IInv, Talks, Start \/ Serve \/ DaemonSigterm \/ DaemonCrash \/ DaemonStartedAgain
  PROVE  [Service!SNext]_(Service!svars)
<1>1. TypeOK /\ DaemonShape
  BY DEF IInv
<1>2. accepted => /\ Head(conns) = conns[1] /\ conns # <<>> /\ Holder \in Clients
                  /\ Holder # NoPath
  BY <1>1, HolderIs
<1>3. ~accepted => Holder = NoPath
  BY DEF Holder
<1>4. UNCHANGED rsp => Waiting' = Waiting
  BY DEF Waiting
<1>5. CASE \/ DaemonBoot \/ DaemonBootFails \/ DaemonStartedAgain \/ DaemonStoreOpen
           \/ DaemonStoreDenied \/ DaemonStoreWrite
  <2>1. UNCHANGED <<model, accepted, conns, rsp>>
    BY <1>1, <1>5 DEF DaemonBoot, DaemonBootFails, DaemonStartedAgain, DaemonStoreOpen,
       DaemonStoreDenied, DaemonStoreWrite
  <2> QED BY <1>4, <2>1, Stutters DEF Holder
<1>6. CASE DaemonListen
  <2>1. /\ model = NoPath /\ ~accepted /\ bootPath \in Models /\ model' = bootPath
        /\ UNCHANGED <<accepted, conns, rsp>>
    BY <1>1, <1>6, DaemonAssumption DEF DaemonListen, DaemonShape
  <2>2. Service!Start(bootPath)
    BY <1>3, <1>4, <2>1 DEF Service!Start, Holder, Waiting
  <2> QED BY <2>1, <2>2 DEF Service!SNext
<1>7. CASE DaemonAccept
  <2>1. /\ ~accepted /\ accepted' /\ conns # <<>>
        /\ UNCHANGED <<model, conns, rsp>>
    BY <1>7 DEF DaemonAccept
  <2>2. Head(conns).client \in Clients
    <3>1. Head(conns) \in Conn
      BY <1>1, <2>1 DEF TypeOK
    <3> QED BY <3>1 DEF Conn
  <2>3. Service!Grant(Head(conns).client)
    BY <1>3, <1>4, <2>1 DEF Service!Grant, Holder, Waiting
  <2> QED BY <2>2, <2>3 DEF Service!SNext
<1>8. CASE DaemonPing
  <2>1. /\ Reply("PONG", NoPath) /\ NoPath \in Path /\ accepted /\ accepted' = accepted
        /\ conns[1].req.type = "PING" /\ model' = model
    BY <1>2, <1>8 DEF DaemonPing, Serving, daemonVars, Path
  <2>2. Holder' = Holder /\ Waiting' = Waiting
    BY <2>1, ReplyRefines
  <2> QED BY <2>1, <2>2, Stutters
<1>9. CASE DaemonLoad
  <2>1. /\ accepted /\ model' \in Models /\ UNCHANGED <<accepted, conns, rsp>>
    BY <1>9, DaemonAssumption DEF DaemonLoad, Serving
  <2>2. Service!Change
    BY <1>2, <1>4, <2>1 DEF Service!Change, Holder, Waiting
  <2> QED BY <2>2 DEF Service!SNext
<1>10. CASE DaemonLoadFails
  <2>1. /\ Reply("ERROR", NoPath) /\ NoPath \in Path /\ accepted /\ accepted' = accepted
        /\ conns[1].req.type = "LOAD" /\ model' = NoPath
    BY <1>2, <1>10 DEF DaemonLoadFails, Serving, Path
  <2>2. Holder' = Holder /\ Waiting' = Waiting
    BY <2>1, ReplyRefines
  <2>3. Service!Change
    BY <1>2, <2>1, <2>2 DEF Service!Change, Holder, Waiting
  <2> QED BY <2>3 DEF Service!SNext
<1>11. CASE DaemonLoaded
  <2>1. /\ Reply("LOADED", NoPath) /\ NoPath \in Path /\ accepted /\ accepted' = accepted
        /\ conns[1].req.type = "LOAD" /\ model' = model
    BY <1>1, <1>11 DEF DaemonLoaded, DaemonShape, Path
  <2>2. Holder' = Holder /\ Waiting' = Waiting
    BY <2>1, ReplyRefines
  <2> QED BY <2>1, <2>2, Stutters
<1>12. CASE DaemonInfer
  <2>1. /\ accepted /\ accepted' = accepted /\ conns[1].req.type = "INFER" /\ model' = model
    BY <1>2, <1>12 DEF DaemonInfer, Serving, daemonVars
  <2>2. PICK type \in {"ERROR", "RESULT"}, p \in Path :
          /\ Reply(type, p)
          /\ type = "RESULT" => p = model /\ model # NoPath
    BY <1>1, <1>12, DaemonAssumption DEF DaemonInfer, TypeOK, Path
  <2>3. Holder' = Holder /\ (Waiting' = Waiting
           \/ (type = "RESULT" /\ Waiting' = [Waiting EXCEPT ![Holder] = p]))
    BY <2>1, <2>2, ReplyRefines
  <2>4. CASE Waiting' = Waiting
    BY <2>1, <2>3, <2>4, Stutters
  <2>5. CASE type = "RESULT" /\ Waiting' = [Waiting EXCEPT ![Holder] = p]
    <3>1. model # NoPath /\ Waiting' = [Waiting EXCEPT ![Holder] = model]
      BY <2>2, <2>5
    <3>2. PICK h \in Clients : h = Holder
      BY <1>2, <2>1
    <3>3. Service!Answer(h)
      BY <2>1, <2>3, <3>1, <3>2 DEF Service!Answer, Holder, Waiting
    <3> QED BY <3>3 DEF Service!SNext
  <2> QED BY <2>3, <2>4, <2>5
<1>13. CASE DaemonHangup /\ ~stopping
  <2>1. accepted /\ ~accepted' /\ UNCHANGED <<model, rsp>>
    BY <1>13 DEF DaemonHangup, Serving
  <2>2. Service!Release
    BY <1>2, <1>4, <2>1 DEF Service!Release, Holder, Waiting
  <2> QED BY <2>2 DEF Service!SNext
<1>14. CASE DaemonSigterm /\ accepted
  <2>1. conns' = <<Head(conns)>> /\ UNCHANGED <<model, accepted, rsp>>
    BY <1>14 DEF DaemonSigterm
  <2>2. Head(conns') = Head(conns)
    BY <2>1
  <2> QED BY <1>4, <2>1, <2>2, Stutters DEF Holder
<1>15. CASE \/ DaemonHangup /\ stopping
            \/ DaemonSigterm /\ ~accepted
            \/ DaemonCrash
  <2>1. model' = NoPath /\ ~accepted' /\ UNCHANGED rsp
    BY <1>15 DEF DaemonHangup, DaemonSigterm, DaemonCrash, Gone
  <2>2. Service!Die
    BY <1>4, <2>1 DEF Service!Die, Holder, Waiting
  <2> QED BY <2>2 DEF Service!SNext
<1> QED BY <1>5, <1>6, <1>7, <1>8, <1>9, <1>10, <1>11, <1>12, <1>13, <1>14, <1>15
        DEF Start, Serve

\* The daemon implements ModelService for any processes, models and queue:
\* sessions exclude one another, a model changes in no session but the one that
\* asked for it, and each answer is of the model held when it is given
\* (main() and handle_client(), tvm_model_daemon.cpp:188-273, 281-337).
THEOREM Refines == Spec => Implements
<1>1. Init => Service!SInit
  <2> SUFFICES ASSUME Init PROVE Service!SInit
    OBVIOUS
  <2>1. model = NoPath /\ ~accepted /\ \A c \in Clients : rsp[c].type = "none"
    BY DEF Init, NoRun, NoMsg
  <2> QED BY <2>1 DEF Service!SInit
<1>2. IInv /\ Talks /\ [Next]_vars => [Service!SNext]_(Service!svars)
  <2> SUFFICES ASSUME IInv, Talks, [Next]_vars
               PROVE  [Service!SNext]_(Service!svars)
    OBVIOUS
  <2>1. CASE UNCHANGED vars
    <3>1. UNCHANGED <<model, Holder, Waiting>>
      BY <2>1 DEF vars, Holder, Waiting
    <3> QED BY <3>1, Stutters
  <2> QED BY <2>1, ClientStep, DaemonStep DEF Next
<1> QED BY <1>1, <1>2, Talking, PTL DEF Spec, Implements, Service!SSpec

----------------------------------------------------------------------------
(* While all is calm.  Harmony is inductive relative to IInv and Talks, for *)
(* the steps that disturb nothing: one process moves, alone (ProcessKeeps), *)
(* or the daemon starts (StartKeeps) or serves it (ServeKeeps).             *)

LEMMA OthersIdle ==
  ASSUME Steady, NEW c \in Clients, pc[c] # "idle", NEW d \in Clients, d # c
  PROVE  pc[d] = "idle" /\ dpc \in Up /\ listening
BY DEF Steady, Busy

\* A LOAD is served for the one process there is.
LEMMA ServedLoad ==
  ASSUME IInv, Talks, Harmony, accepted, conns[1].req.type = "LOAD"
  PROVE  \E c \in Clients :
           /\ IsOpen(c, 1) /\ pc[c] = "swLoad" /\ rsp[c].type = "none"
           /\ conns[1].req.path = want[c]
<1>1. 1 \in DOMAIN conns BY DEF IInv, DaemonShape
<1>2. conns[1].client \in Clients
  <2>1. conns[1] \in Conn BY <1>1 DEF IInv, TypeOK
  <2> QED BY <2>1 DEF Conn
<1> DEFINE c == conns[1].client
<1>3. IsOpen(c, 1) BY <1>1 DEF Harmony, Owed, IsOpen
<1> HIDE DEF c
<1>4. Paired(c, 1) /\ c \in Clients BY <1>1, <1>2, <1>3 DEF Talks, Talk, c
<1>5. pc[c] = "swLoad" BY <1>4 DEF Paired, Asks
<1>6. rsp[c].type = "none" /\ conns[1].req.path = want[c] BY <1>4 DEF Paired
<1> QED BY <1>3, <1>4, <1>5, <1>6

LEMMA AtRest ==
  ASSUME IInv, Talks, Harmony, NEW c \in Clients, pc[c] \notin {"idle", "swLoad"}
  PROVE  dpc = "serve" /\ listening
<1>1. dpc \in Up /\ listening BY DEF Harmony, Steady, Busy
<1>2. CASE dpc \in {"open", "write", "reply"}
  <2>1. PICK d \in Clients : pc[d] = "swLoad" BY <1>2, ServedLoad DEF IInv, DaemonShape
  <2>2. d # c /\ pc[d] # "idle" BY <2>1
  <2> QED BY <2>2, OthersIdle DEF Harmony
<1> QED BY <1>1, <1>2 DEF Up

LEMMA NotCutOff ==
  ASSUME Harmony, NEW c \in Clients
  PROVE  /\ pc[c] \in Wire => ~Eof(c)
         /\ pc[c] # "idle" => listening /\ ~NoDaemon(c)
<1>1. pc[c] \in Wire => ~Eof(c) BY DEF Harmony, Settled, HasConn, Eof
<1>2. pc[c] # "idle" => listening BY DEF Harmony, Steady, Busy
<1> QED BY <1>1, <1>2 DEF NoDaemon, Wire

\* A file the daemon could not write is noted only when that happens.
LEMMA NotedOnly ==
  ASSUME NoteUnsaved, unsaved'
  PROVE  (unsaved \/ DaemonStoreDenied) /\ cache' # EmptyCache
BY DEF NoteUnsaved

\* A process at rest has the file and the model agree.
LEMMA NothingUnsaved ==
  ASSUME Harmony, NEW c \in Clients, pc[c] \notin {"idle", "swLoad", "store"}
  PROVE  ~unsaved
<1> SUFFICES ASSUME unsaved PROVE FALSE
   OBVIOUS
<1>1. PICK d \in Clients : pc[d] \in {"swLoad", "store"} BY DEF Harmony, Rewritten
<1>2. d # c /\ pc[c] # "idle" BY <1>1
<1> QED BY <1>1, <1>2, OthersIdle DEF Harmony

\* A process that moves is the only one.
LEMMA ProcessKeeps ==
  ASSUME IInv, Harmony, Calm, NoteUnsaved, NEW c \in Clients, OwnVars(c),
         pc[c] # "idle" \/ pc'[c] # "idle",
         pc[c] \in {"swLoad", "store"} /\ unsaved' => pc'[c] \in {"swLoad", "store"},
         Owed', File', Settled(c)'
  PROVE  Harmony'
<1>1. UNCHANGED <<dpc, listening>> BY DEF OwnVars, daemonVars
<1>2. dpc \in Up /\ listening
  <2>1. CASE pc[c] # "idle" BY <2>1 DEF Harmony, Steady, Busy
  <2>2. CASE pc'[c] # "idle"
    <3>1. c \in Busy' BY <2>2 DEF Busy
    <3>2. dpc \notin {"down", "boot"} BY <1>1, <3>1 DEF Calm
    <3> QED BY <3>2 DEF Harmony, Steady
  <2> QED BY <2>1, <2>2
<1>3. Steady' BY <1>1, <1>2 DEF Steady, Calm
<1>4. ASSUME NEW d \in Clients, d # c PROVE Settled(d)'
  <2>1. pc'[d] = "idle"
    <3>1. CASE pc[c] # "idle" BY <1>4, <3>1, OthersIdle DEF Harmony, OwnVars
    <3>2. CASE pc'[c] # "idle"
      <4>1. c \in Busy' BY <3>2 DEF Busy
      <4> QED BY <1>4, <4>1 DEF Calm, Busy
    <3> QED BY <3>1, <3>2
  <2>2. seen'[d] = seen[d] /\ want'[d] = want[d] BY <1>4 DEF OwnVars
  <2>3. seen[d] \subseteq {want[d]} BY <1>4 DEF Harmony, Settled
  <2> QED BY <2>1, <2>2, <2>3 DEF Settled, Switched, Wire
<1>5. Rewritten'
  <2> SUFFICES ASSUME unsaved' PROVE \E d \in Clients : pc'[d] \in {"swLoad", "store"}
     BY DEF Rewritten
  <2>1. ~DaemonStoreDenied BY <1>1 DEF DaemonStoreDenied
  <2>2. PICK d \in Clients : pc[d] \in {"swLoad", "store"}
     BY <2>1, NotedOnly DEF Harmony, Rewritten
  <2>3. d # c => pc'[d] = pc[d] BY DEF OwnVars
  <2> QED BY <2>2, <2>3
<1> QED BY <1>3, <1>4, <1>5 DEF Harmony

LEMMA FileKept ==
  ASSUME File, NoteUnsaved, UNCHANGED <<cache, model, dpc>>
  PROVE  File'
BY DEF File, NoteUnsaved

LEMMA OwedKept ==
  ASSUME Owed, UNCHANGED conns
  PROVE  Owed'
BY DEF Owed

\* A process that connects, or sends, has a connection.
LEMMA OpenOwes ==
  ASSUME TypeOK, Owed, NEW c \in Clients, Open(c)
  PROVE  Owed' /\ HasConn(c)'
<1> DEFINE n == Len(conns) + 1
<1>1. /\ DOMAIN conns' = 1..n /\ DOMAIN conns = 1..(n - 1) /\ n \in Nat \ {0}
      /\ \A i \in DOMAIN conns : conns'[i] = conns[i]
      /\ conns'[n].client = c /\ conns'[n].open = TRUE
  <2>1. Len(conns) \in Nat /\ DOMAIN conns = 1..Len(conns)
     BY DEF TypeOK
  <2>2. n \in Nat \ {0} /\ n - 1 = Len(conns)
     BY <2>1
  <2> QED BY <2>1, <2>2, OpenFacts
<1> HIDE DEF n
<1>2. Owed'
  <2> SUFFICES ASSUME NEW i \in DOMAIN conns' PROVE conns'[i].open \/ conns'[i].req.type = "none"
     BY DEF Owed
  <2>1. CASE i = n BY <1>1, <2>1
  <2>2. CASE i # n
    <3>1. i \in DOMAIN conns BY <1>1, <2>2
    <3> QED BY <1>1, <3>1 DEF Owed
  <2> QED BY <2>1, <2>2
<1>3. n \in DOMAIN conns' BY <1>1
<1>4. HasConn(c)' BY <1>1, <1>3 DEF HasConn, IsOpen
<1> QED BY <1>2, <1>4

LEMMA SendOwes ==
  ASSUME TypeOK, Owed, NEW c \in Clients, NEW type \in {"LOAD", "INFER"}, NEW p \in Path,
         Send(c, type, p), HasConn(c)
  PROVE  Owed' /\ HasConn(c)'
<1>1. /\ DOMAIN conns' = DOMAIN conns
      /\ \A i \in DOMAIN conns :
           /\ conns'[i].client = conns[i].client /\ conns'[i].open = conns[i].open
           /\ conns'[i].req = IF IsOpen(c, i) THEN [type |-> type, path |-> p] ELSE conns[i].req
   BY SendFacts
<1>2. Owed' BY <1>1 DEF Owed, IsOpen
<1>3. HasConn(c)' BY <1>1 DEF HasConn, IsOpen
<1> QED BY <1>2, <1>3

\* A process that closes its connection has had its answer.
LEMMA CloseOwes ==
  ASSUME IInv, Talks, Owed, NEW c \in Clients, Close(c), rsp[c].type # "none" \/ pc[c] = "ready"
  PROVE  Owed'
<1>1. /\ DOMAIN conns' = DOMAIN conns
      /\ \A i \in DOMAIN conns :
           /\ conns'[i].req = conns[i].req
           /\ conns[i].client # c => conns'[i].open = conns[i].open
   BY CloseFacts DEF IInv
<1> SUFFICES ASSUME NEW i \in DOMAIN conns, conns[i].client = c PROVE conns[i].req.type = "none"
   BY <1>1 DEF Owed
<1>2. CASE IsOpen(c, i)
  <2>1. Paired(c, i) BY <1>2 DEF Talks, Talk
  <2> QED BY <2>1 DEF Paired, Asks
<1>3. CASE ~IsOpen(c, i) BY <1>3 DEF Owed, IsOpen
<1> QED BY <1>2, <1>3


\* The moves of a process, its talk apart.
LEMMA QuietKeeps ==
  ASSUME IInv, Talks, Harmony, Calm, NoteUnsaved, NEW c \in Clients, TypeOK',
         \/ StartRun(c) \/ CheckCache(c) \/ PreloadDone(c)
         \/ StoreOpen(c) \/ StoreDenied(c) \/ StoreWrite(c)
  PROVE  Harmony'
<1> USE DEF Go
<1>1. /\ TypeOK /\ Settled(c) /\ File /\ Owed
      /\ pc[c] # "idle" /\ pc[c] # "swLoad" => dpc = "serve"
   BY AtRest DEF IInv, Harmony
<1>2. CASE StartRun(c)
  <2>1. /\ UNCHANGED <<daemonVars, conns, cache, rsp, seen>> /\ pc[c] = "idle"
        /\ pc'[c] = "check" /\ left'[c] > 0 /\ OwnVars(c)
     BY <1>1, <1>2 DEF StartRun, TypeOK, OwnVars
  <2>2. seen[c] = {} BY <1>2 DEF StartRun, IInv, ClientInv, SeenSame, InSession
  <2>3. Settled(c)' BY <2>1, <2>2 DEF Settled, Switched, Wire
  <2>4. Owed' /\ File' BY <1>1, <2>1, OwedKept, FileKept DEF daemonVars
  <2> QED BY <2>1, <2>3, <2>4, ProcessKeeps
<1>3. CASE CheckCache(c)
  <2>1. /\ UNCHANGED <<daemonVars, conns, cache, want, rsp, left, seen>> /\ pc[c] = "check"
        /\ pc' = [pc EXCEPT ![c] = IF cache.line = want[c] THEN "connect"
                            ELSE IF left[c] = 0 THEN "store"
                            ELSE "swConnect"]
        /\ left[c] > 0 /\ left[c] \in Nat
     BY <1>1, <1>3 DEF CheckCache, TypeOK, Settled
  <2>0. ~unsaved BY <2>1, NothingUnsaved
  <2>2. OwnVars(c) BY <1>1, <2>1 DEF OwnVars, TypeOK
  <2>3. Owed' /\ File' BY <1>1, <2>1, OwedKept, FileKept DEF daemonVars
  <2>4. CASE cache.line = want[c]
    <3>1. pc'[c] = "connect" BY <1>1, <2>1, <2>4 DEF TypeOK
    <3>2. model \in {NoPath, want[c]}
      <4>1. want[c] \in Models /\ NoPath \notin Models BY <1>1, DaemonAssumption DEF TypeOK
      <4> QED BY <1>1, <2>0, <2>1, <2>4, <4>1 DEF File, EmptyCache
    <3>3. Settled(c)' BY <1>1, <2>1, <3>1, <3>2 DEF Settled, Switched, Wire, daemonVars
    <3> QED BY <2>1, <2>2, <2>3, <3>3, ProcessKeeps
  <2>5. CASE cache.line # want[c]
    <3>1. pc'[c] = "swConnect" BY <1>1, <2>1, <2>5 DEF TypeOK
    <3>2. Settled(c)' BY <1>1, <2>1, <3>1 DEF Settled, Switched, Wire, daemonVars
    <3> QED BY <2>1, <2>2, <2>3, <3>2, ProcessKeeps
  <2> QED BY <2>4, <2>5
<1>4. CASE PreloadDone(c)
   BY <1>1, <1>4 DEF PreloadDone, Settled
<1>5. CASE StoreOpen(c)
  <2>1. /\ UNCHANGED <<daemonVars, conns, want, rsp, left, seen>> /\ pc[c] = "store"
        /\ pc'[c] = "storing" /\ cache' = EmptyCache /\ OwnVars(c)
     BY <1>1, <1>5 DEF StoreOpen, TypeOK, OwnVars
  <2>2. Settled(c)' BY <1>1, <2>1 DEF Settled, Switched, Wire, daemonVars
  <2>3. Owed' /\ File' BY <1>1, <2>1, OwedKept DEF File, EmptyCache, daemonVars
  <2>4. ~unsaved' BY <2>1, NotedOnly
  <2> QED BY <2>1, <2>2, <2>3, <2>4, ProcessKeeps
<1>6. CASE StoreDenied(c)
  <2>1. /\ UNCHANGED <<daemonVars, conns, cache, want, rsp, left, seen>> /\ pc[c] = "store"
        /\ pc'[c] = "connect" /\ OwnVars(c)
     BY <1>1, <1>6 DEF StoreDenied, TypeOK, OwnVars
  <2>2. Settled(c)' BY <1>1, <2>1 DEF Settled, Switched, Wire, daemonVars
  <2>3. Owed' /\ File' BY <1>1, <2>1, OwedKept, FileKept DEF daemonVars
  <2>4. ~unsaved'
    <3>1. ~unsaved BY <1>6 DEF Calm
    <3>2. ~DaemonStoreDenied BY <1>1, <2>1 DEF DaemonStoreDenied
    <3> QED BY <3>1, <3>2, NotedOnly
  <2> QED BY <2>1, <2>2, <2>3, <2>4, ProcessKeeps
<1>7. CASE StoreWrite(c)
  <2>1. /\ UNCHANGED <<daemonVars, conns, want, rsp, left, seen>> /\ pc[c] = "storing"
        /\ pc'[c] = "connect" /\ WriteCache(want[c]) /\ OwnVars(c)
     BY <1>1, <1>7 DEF StoreWrite, TypeOK, OwnVars
  <2>2. cache = EmptyCache /\ want[c] \in Models /\ model \in {NoPath, want[c]}
     BY <1>1, <2>1 DEF Settled, Switched, TypeOK
  <2>3. cache'.line = want[c] /\ cache'.size = PathLen[want[c]]
    <3>1. PathLen[want[c]] \in Nat BY <2>2, DaemonAssumption
    <3> QED BY <2>1, <2>2, <3>1 DEF WriteCache, EmptyCache
  <2>4. Settled(c)' BY <1>1, <2>1 DEF Settled, Switched, Wire, daemonVars
  <2>5. Owed' /\ File' BY <1>1, <2>1, <2>2, <2>3, OwedKept DEF File, daemonVars
  <2> QED BY <2>1, <2>4, <2>5, ProcessKeeps
<1> QED BY <1>2, <1>3, <1>4, <1>5, <1>6, <1>7

\* Its talk with the daemon.
LEMMA TalkKeeps ==
  ASSUME IInv, Talks, Harmony, Calm, NoteUnsaved, NEW c \in Clients, TypeOK',
         \/ SwitchConnect(c) \/ SwitchSend(c) \/ SwitchReturn(c)
         \/ Connect(c) \/ Connected(c) \/ Infer(c) \/ Answered(c)
  PROVE  Harmony'
<1> USE DEF Go
<1>1. TypeOK /\ Settled(c) /\ File /\ Owed BY DEF IInv, Harmony
<1>2. pc[c] \in Wire => ~Eof(c) /\ HasConn(c) BY <1>1, NotCutOff DEF Settled
<1>3. CASE SwitchConnect(c) \/ Connect(c)
  <2>1. /\ UNCHANGED <<daemonVars, cache, want, left, seen>> /\ pc[c] \in {"swConnect", "connect"}
        /\ pc'[c] = (IF pc[c] = "connect" THEN "ping" ELSE "swPing") /\ Open(c) /\ OwnVars(c)
     BY <1>1, <1>3 DEF SwitchConnect, Connect, TypeOK, OwnVars
  <2>2. Owed' /\ HasConn(c)' BY <1>1, <2>1, OpenOwes
  <2>3. Settled(c)' BY <1>1, <2>1, <2>2 DEF Settled, Switched, Wire, daemonVars
  <2>4. File' BY <1>1, <2>1, FileKept DEF daemonVars
  <2> QED BY <2>1, <2>2, <2>3, <2>4, ProcessKeeps
<1>4. CASE SwitchSend(c)
  <2>1. /\ UNCHANGED <<daemonVars, cache, want, left, seen>> /\ pc[c] = "swPing"
        /\ pc'[c] = "swLoad" /\ Send(c, "LOAD", want[c]) /\ OwnVars(c)
     BY <1>1, <1>4 DEF SwitchSend, TypeOK, OwnVars
  <2>2. want[c] \in Path BY <1>1 DEF TypeOK, Path
  <2>3. Owed' /\ HasConn(c)' /\ rsp'[c] = NoMsg
     BY <1>1, <1>2, <2>1, <2>2, SendOwes, SendFacts DEF Wire
  <2>4. Settled(c)' BY <1>1, <2>1, <2>3 DEF Settled, Switched, Wire, NoMsg, daemonVars
  <2>5. File' BY <1>1, <2>1, FileKept DEF daemonVars
  <2> QED BY <2>1, <2>3, <2>4, <2>5, ProcessKeeps
<1>5. CASE SwitchReturn(c)
  <2>1. /\ UNCHANGED <<daemonVars, cache, want, left, seen>> /\ pc[c] = "swLoad"
        /\ rsp[c].type \in {"LOADED", "ERROR"}
        /\ pc'[c] = "store" /\ Close(c) /\ OwnVars(c)
     BY <1>1, <1>2, <1>5 DEF SwitchReturn, TypeOK, OwnVars, Wire
  <2>2. Owed' BY <1>1, <2>1, CloseOwes
  <2>3. Settled(c)' BY <1>1, <2>1 DEF Settled, Switched, Wire, daemonVars
  <2>4. File' BY <1>1, <2>1, FileKept DEF daemonVars
  <2> QED BY <2>1, <2>2, <2>3, <2>4, ProcessKeeps
<1>6. CASE Connected(c)
  <2>1. /\ UNCHANGED <<daemonVars, conns, cache, want, left, seen>> /\ pc[c] = "ping"
        /\ pc'[c] = "ready" /\ OwnVars(c)
     BY <1>1, <1>6 DEF Connected, TypeOK, OwnVars
  <2>2. HasConn(c)' BY <1>2, <2>1 DEF HasConn, IsOpen, Wire
  <2>3. Settled(c)' BY <1>1, <2>1, <2>2 DEF Settled, Switched, Wire, daemonVars
  <2>4. Owed' /\ File' BY <1>1, <2>1, OwedKept, FileKept DEF daemonVars
  <2> QED BY <2>1, <2>3, <2>4, ProcessKeeps
<1>7. CASE Infer(c)
  <2>1. /\ UNCHANGED <<daemonVars, cache, want, left, seen>> /\ pc[c] = "ready"
        /\ pc'[c] = "infer" /\ Send(c, "INFER", NoPath) /\ OwnVars(c)
     BY <1>1, <1>7 DEF Infer, TypeOK, OwnVars
  <2>2. NoPath \in Path BY DEF Path
  <2>3. Owed' /\ HasConn(c)' BY <1>1, <1>2, <2>1, <2>2, SendOwes DEF Wire
  <2>4. Settled(c)' BY <1>1, <2>1, <2>3 DEF Settled, Switched, Wire, daemonVars
  <2>5. File' BY <1>1, <2>1, FileKept DEF daemonVars
  <2> QED BY <2>1, <2>3, <2>4, <2>5, ProcessKeeps
<1>8. CASE Answered(c)
  <2>1. /\ UNCHANGED <<daemonVars, conns, cache, want>> /\ pc[c] = "infer" /\ rsp[c].type = "RESULT"
        /\ pc'[c] = "ready" /\ seen'[c] = seen[c] \cup {rsp[c].path} /\ OwnVars(c)
     BY <1>1, <1>8 DEF Answered, TypeOK, OwnVars
  <2>2. rsp[c].path = model /\ rsp[c].path \in Models
     BY <1>2, <2>1 DEF IInv, ClientInv, SeenSame, Wire
  <2>3. rsp[c].path = want[c] BY <1>1, <2>1, <2>2, DaemonAssumption DEF Settled, Switched
  <2>4. HasConn(c)' BY <1>2, <2>1 DEF HasConn, IsOpen, Wire
  <2>5. Settled(c)' BY <1>1, <2>1, <2>3, <2>4 DEF Settled, Switched, Wire, daemonVars
  <2>6. Owed' /\ File' BY <1>1, <2>1, OwedKept, FileKept DEF daemonVars
  <2> QED BY <2>1, <2>5, <2>6, ProcessKeeps
<1> QED BY <1>3, <1>4, <1>5, <1>6, <1>7, <1>8

\* Its end, after an answer or at rest.
LEMMA EndKeeps ==
  ASSUME IInv, Talks, Harmony, Calm, NoteUnsaved, NEW c \in Clients, TypeOK', InferFailed(c) \/ Exit(c)
  PROVE  Harmony'
<1>1. TypeOK /\ Settled(c) /\ File /\ Owed BY DEF IInv, Harmony
<1>2. pc[c] \in Wire => ~Eof(c) BY NotCutOff
<1>3. /\ End(c) /\ Close(c) /\ UNCHANGED <<daemonVars, cache>>
      /\ (pc[c] = "infer" /\ rsp[c].type = "ERROR") \/ pc[c] = "ready"
   BY <1>1, <1>2 DEF InferFailed, Exit, Settled, Wire
<1>4. pc'[c] = "idle" /\ seen'[c] = {} /\ OwnVars(c) BY <1>1, <1>3 DEF End, TypeOK, OwnVars
<1>5. Owed' BY <1>1, <1>3, CloseOwes
<1>6. Settled(c)' BY <1>4 DEF Settled, Switched, Wire
<1>7. File' BY <1>1, <1>3, FileKept DEF daemonVars
<1> QED BY <1>3, <1>4, <1>5, <1>6, <1>7, ProcessKeeps

LEMMA RunKeeps ==
  ASSUME IInv, Talks, Harmony, Calm, NoteUnsaved, NEW c \in Clients, TypeOK', Run(c)
  PROVE  Harmony'
<1>1. Settled(c) /\ (pc[c] \in Wire => ~Eof(c)) /\ (pc[c] # "idle" => listening /\ ~NoDaemon(c))
   BY NotCutOff DEF Harmony
<1>2. ~SwitchRefused(c) /\ ~InitLocally(c) /\ ~InitFails(c) /\ ~InferLocally(c)
   BY <1>1 DEF SwitchRefused, InitLocally, InitFails, InferLocally, Go, NoDaemon, Settled
<1> QED BY <1>2, QuietKeeps, TalkKeeps, EndKeeps DEF Run


\* What a step of the daemon has to leave a process.
LEMMA StaysSettled ==
  ASSUME NEW c \in Clients, Settled(c), UNCHANGED clientVars, HasConn(c) => HasConn(c)',
         pc[c] = "storing" => cache' = EmptyCache,
         Switched(c)' => model' \in {NoPath, want[c]}
  PROVE  Settled(c)'
BY DEF Settled, clientVars

\* The daemon starts, while nobody runs.
LEMMA StartKeeps ==
  ASSUME IInv, Harmony, Calm, NoteUnsaved, Start
  PROVE  Harmony'
<1>1. UNCHANGED <<conns, cache, rsp, clientVars>> /\ dpc \in {"down", "boot"}
   BY DEF Start, DaemonBoot, DaemonListen, DaemonBootFails
<1>2. Busy = {} /\ cache = EmptyCache BY <1>1 DEF Harmony, Steady, Up
<1>3. \/ dpc' \in {"down", "boot"}
      \/ dpc' = "serve" /\ listening'
   BY DEF Start, DaemonBoot, DaemonListen, DaemonBootFails
<1>4. Busy' = Busy BY <1>1 DEF Busy, clientVars
<1>5. Steady' BY <1>1, <1>2, <1>3, <1>4 DEF Steady, Up
<1>6. Owed' BY <1>1, OwedKept DEF Harmony
<1>7. File' BY <1>1, <1>2, <1>3 DEF File, EmptyCache
<1>8. ASSUME NEW c \in Clients PROVE Settled(c)'
  <2>1. pc'[c] = "idle" /\ seen'[c] = seen[c] /\ want'[c] = want[c]
     BY <1>1, <1>2 DEF Busy, clientVars
  <2> QED BY <2>1 DEF Settled, Switched, Wire, Harmony
<1>9. Rewritten'
  <2>1. ~DaemonStoreDenied BY <1>1 DEF DaemonStoreDenied
  <2>2. ~unsaved BY <1>2 DEF Harmony, Rewritten, Busy
  <2> QED BY <2>1, <2>2, NotedOnly DEF Rewritten
<1> QED BY <1>5, <1>6, <1>7, <1>8, <1>9 DEF Harmony

\* An answer: the connection stays, and only its process has something to read.
LEMMA ReplyOwes ==
  ASSUME IInv, Harmony, accepted, NEW p \in Path,
         NEW type \in {"PONG", "LOADED", "ERROR", "RESULT"}, Reply(type, p)
  PROVE  /\ Owed' /\ 1 \in DOMAIN conns
         /\ \A c \in Clients :
              /\ HasConn(c) => HasConn(c)'
              /\ rsp'[c] = IF IsOpen(c, 1) THEN [type |-> type, path |-> p] ELSE rsp[c]
<1>1. TypeOK /\ conns # <<>> BY DEF IInv, DaemonShape
<1>2. /\ DOMAIN conns' = DOMAIN conns /\ 1 \in DOMAIN conns
      /\ \A i \in DOMAIN conns :
           /\ conns'[i].client = conns[i].client /\ conns'[i].open = conns[i].open
           /\ conns'[i].req = IF i = 1 THEN NoMsg ELSE conns[i].req
      /\ \A c \in Clients : rsp'[c] = IF IsOpen(c, 1) THEN [type |-> type, path |-> p] ELSE rsp[c]
   BY <1>1, ReplyFacts
<1>3. Owed' BY <1>2 DEF Owed, Harmony, NoMsg
<1>4. \A c \in Clients : HasConn(c) => HasConn(c)' BY <1>2 DEF HasConn, IsOpen
<1> QED BY <1>2, <1>3, <1>4

\* The processes do not move, and the daemon goes on serving.
LEMMA ServeKeeps ==
  ASSUME Harmony, dpc \in Up, dpc' \in Up, UNCHANGED <<listening, clientVars>>, Owed', File',
         NoteUnsaved, DaemonStoreDenied => \E c \in Clients : pc[c] = "swLoad",
         \A c \in Clients : /\ HasConn(c) => HasConn(c)'
                            /\ pc[c] = "storing" => cache' = EmptyCache
                            /\ Switched(c)' => model' \in {NoPath, want[c]}
  PROVE  Harmony'
<1>1. Busy' = Busy BY DEF Busy, clientVars
<1>2. Steady' BY <1>1 DEF Harmony, Steady, Up
<1>3. \A c \in Clients : Settled(c)' BY StaysSettled DEF Harmony
<1>4. Rewritten'
  <2> SUFFICES ASSUME unsaved' PROVE \E c \in Clients : pc'[c] \in {"swLoad", "store"}
     BY DEF Rewritten
  <2>1. PICK c \in Clients : pc[c] \in {"swLoad", "store"}
     BY NotedOnly DEF Harmony, Rewritten
  <2> QED BY <2>1 DEF clientVars
<1> QED BY <1>2, <1>3, <1>4 DEF Harmony

\* The steps of handle_client() that change neither model nor file.
LEMMA AnswerKeeps ==
  ASSUME IInv, Talks, Harmony, Calm, NoteUnsaved, DaemonAccept \/ DaemonPing \/ DaemonInfer \/ DaemonHangup
  PROVE  Harmony'
<1>1. TypeOK /\ DaemonShape /\ dpc = "serve" /\ dpc \in Up /\ UNCHANGED <<cache, clientVars>>
   BY DEF IInv, DaemonAccept, DaemonPing, DaemonInfer, DaemonHangup, Serving, Up
<1>2. \A c \in Clients : pc[c] = "storing" => cache' = EmptyCache BY <1>1 DEF Harmony, Settled
<1>3. \A c \in Clients : Switched(c) => model \in {NoPath, want[c]} BY DEF Harmony, Settled
<1>7. ~DaemonStoreDenied BY <1>1 DEF DaemonStoreDenied
<1>4. CASE DaemonAccept
  <2>1. UNCHANGED <<dpc, model, listening, conns, rsp>> BY <1>4 DEF DaemonAccept
  <2>2. Owed' /\ File' BY <1>1, <2>1, OwedKept, FileKept DEF Harmony
  <2>3. \A c \in Clients : (HasConn(c) => HasConn(c)') /\ (Switched(c)' => Switched(c))
     BY <1>1, <2>1 DEF HasConn, IsOpen, Switched, clientVars
  <2> QED BY <1>1, <1>2, <1>3, <2>1, <2>2, <2>3, <1>7, ServeKeeps
<1>5. CASE DaemonPing \/ DaemonInfer
  <2>1. /\ UNCHANGED <<dpc, model, listening>> /\ accepted
        /\ Head(conns).req.type \in {"PING", "INFER"}
     BY <1>5 DEF DaemonPing, DaemonInfer, Serving, daemonVars
  <2>2. \E type \in {"PONG", "LOADED", "ERROR", "RESULT"}, p \in Path : Reply(type, p)
    <3>1. NoPath \in Path /\ model \in Path BY <1>1, DaemonAssumption DEF Path, TypeOK
    <3> QED BY <1>5, <3>1 DEF DaemonPing, DaemonInfer
  <2>3. PICK type \in {"PONG", "LOADED", "ERROR", "RESULT"}, p \in Path : Reply(type, p) BY <2>2
  <2>4. /\ Owed' /\ 1 \in DOMAIN conns
        /\ \A c \in Clients :
             /\ HasConn(c) => HasConn(c)'
             /\ rsp'[c] = IF IsOpen(c, 1) THEN [type |-> type, path |-> p] ELSE rsp[c]
     BY <2>1, <2>3, ReplyOwes
  <2>5. conns[1].req.type \in {"PING", "INFER"} BY <1>1, <2>1, <2>4 DEF TypeOK
  <2>6. ASSUME NEW c \in Clients, Switched(c)' PROVE Switched(c)
    <3>1. CASE IsOpen(c, 1)
      <4>1. Paired(c, 1) BY <2>4, <3>1 DEF Talks, Talk
      <4>2. pc[c] # "swLoad" BY <2>5, <4>1 DEF Paired, Asks
      <4> QED BY <1>1, <2>6, <4>2 DEF Switched, clientVars
    <3>2. CASE ~IsOpen(c, 1) BY <1>1, <2>4, <2>6, <3>2 DEF Switched, clientVars
    <3> QED BY <3>1, <3>2
  <2>7. File' BY <1>1, <2>1, FileKept DEF Harmony
  <2> QED BY <1>1, <1>2, <1>3, <2>1, <2>4, <2>6, <2>7, <1>7, ServeKeeps
<1>6. CASE DaemonHangup
  <2>1. ~stopping
    <3>1. stopping => dpc' = "stopped" BY <1>6 DEF DaemonHangup
    <3> QED BY <3>1 DEF Calm
  <2>2. /\ UNCHANGED <<dpc, model, listening, rsp>> /\ conns' = Tail(conns)
        /\ ~Head(conns).open /\ accepted
     BY <1>6, <2>1 DEF DaemonHangup, Serving
  <2>3. conns # <<>> /\ 1 \in DOMAIN conns /\ ~conns[1].open BY <1>1, <2>2 DEF DaemonShape, TypeOK
  <2>4. Owed'
    <3>1. \A i \in DOMAIN conns' : i + 1 \in DOMAIN conns /\ conns'[i] = conns[i + 1]
       BY <1>1, <2>2, <2>3, TailFacts
    <3> QED BY <3>1 DEF Harmony, Owed
  <2>5. ASSUME NEW c \in Clients, HasConn(c) PROVE HasConn(c)'
    <3>1. PICK i \in DOMAIN conns : IsOpen(c, i) BY <2>5 DEF HasConn
    <3>2. i # 1 BY <2>3, <3>1 DEF IsOpen
    <3>3. i - 1 \in DOMAIN conns' /\ conns'[i - 1] = conns[i] BY <1>1, <2>2, <2>3, <3>2 DEF TypeOK
    <3> QED BY <3>1, <3>3 DEF HasConn, IsOpen
  <2>6. \A c \in Clients : Switched(c)' => Switched(c) BY <1>1, <2>2 DEF Switched, clientVars
  <2>7. File' BY <1>1, <2>2, FileKept DEF Harmony
  <2> QED BY <1>1, <1>2, <1>3, <2>2, <2>4, <2>5, <2>6, <2>7, <1>7, ServeKeeps
<1> QED BY <1>4, <1>5, <1>6

\* LOAD_MODEL: the model, then the file, then the answer.
LEMMA LoadKeeps ==
  ASSUME IInv, Talks, Harmony, Calm, NoteUnsaved,
         \/ DaemonLoad \/ DaemonLoadFails \/ DaemonStoreOpen \/ DaemonStoreDenied
         \/ DaemonStoreWrite \/ DaemonLoaded
  PROVE  Harmony'
<1>1. TypeOK /\ DaemonShape /\ File /\ Owed /\ UNCHANGED <<listening, accepted, clientVars>>
   BY DEF IInv, Harmony, DaemonLoad, DaemonLoadFails, DaemonStoreOpen, DaemonStoreDenied,
          DaemonStoreWrite, DaemonLoaded
<1>2. accepted /\ 1 \in DOMAIN conns /\ Head(conns) = conns[1] /\ conns[1].req.type = "LOAD"
  <2>1. accepted /\ (Serving("LOAD") \/ conns[1].req.type = "LOAD")
     BY <1>1 DEF DaemonShape, DaemonLoad, DaemonLoadFails, DaemonStoreOpen, DaemonStoreDenied,
                 DaemonStoreWrite, DaemonLoaded, Serving
  <2>2. 1 \in DOMAIN conns /\ Head(conns) = conns[1] BY <1>1, <2>1 DEF DaemonShape, TypeOK
  <2> QED BY <2>1, <2>2 DEF Serving
<1>3. PICK d \in Clients : /\ IsOpen(d, 1) /\ pc[d] = "swLoad" /\ rsp[d].type = "none"
                           /\ conns[1].req.path = want[d]
   BY <1>2, ServedLoad
<1>4. \A c \in Clients : c # d => pc[c] = "idle" BY <1>3, OthersIdle DEF Harmony
<1>5. \A c \in Clients : pc[c] # "storing" /\ (c # d => ~Switched(c)') /\ ~Switched(c)
   BY <1>1, <1>3, <1>4 DEF Switched, clientVars
<1>6. want[d] \in Models /\ NoPath \notin Models BY <1>1, DaemonAssumption DEF TypeOK
<1>7. CASE DaemonLoad
  <2>1. dpc = "serve" /\ dpc' = "open" /\ UNCHANGED <<conns, cache, rsp>>
     BY <1>7 DEF DaemonLoad, Serving
  <2>2. Owed' /\ File' BY <1>1, <2>1, OwedKept DEF File, NoteUnsaved
  <2>3. \A c \in Clients : (HasConn(c) => HasConn(c)') /\ ~Switched(c)'
     BY <1>1, <1>5, <2>1 DEF HasConn, IsOpen, Switched, clientVars
  <2> QED BY <1>1, <1>5, <2>1, <2>2, <2>3, <1>3, ServeKeeps DEF Up
<1>8. CASE DaemonLoadFails
  <2>1. dpc = "serve" /\ dpc' = "serve" /\ UNCHANGED cache /\ model' = NoPath /\ Reply("ERROR", NoPath)
     BY <1>8 DEF DaemonLoadFails, Serving
  <2>2. /\ Owed' /\ \A c \in Clients : HasConn(c) => HasConn(c)'
     BY <1>2, <2>1, ReplyOwes DEF Path
  <2>3. File' BY <1>1, <2>1 DEF File, NoteUnsaved
  <2> QED BY <1>1, <1>5, <2>1, <2>2, <2>3, <1>3, ServeKeeps DEF Up
<1>9. CASE DaemonStoreOpen
  <2>1. dpc = "open" /\ dpc' = "write" /\ UNCHANGED <<conns, model, rsp>> /\ cache' = EmptyCache
     BY <1>9 DEF DaemonStoreOpen
  <2>2. Owed' /\ File' BY <1>1, <2>1, OwedKept DEF File, NoteUnsaved
  <2>3. \A c \in Clients : (HasConn(c) => HasConn(c)') /\ ~Switched(c)'
     BY <1>1, <1>5, <2>1 DEF HasConn, IsOpen, Switched, clientVars
  <2> QED BY <1>1, <1>5, <2>1, <2>2, <2>3, <1>3, ServeKeeps DEF Up
<1>10. CASE DaemonStoreWrite
  <2>1. /\ dpc = "write" /\ dpc' = "reply" /\ UNCHANGED <<conns, model, rsp>>
        /\ WriteCache(want[d]) /\ cache = EmptyCache
     BY <1>1, <1>2, <1>3, <1>10 DEF DaemonStoreWrite, File
  <2>2. cache'.line = want[d] /\ cache'.size = PathLen[want[d]]
    <3>1. PathLen[want[d]] \in Nat BY <1>6, DaemonAssumption
    <3> QED BY <2>1, <3>1 DEF WriteCache, EmptyCache
  <2>3. model = want[d] BY <1>3, <2>1 DEF Talks, Loading
  <2>4. Owed' /\ File' BY <1>1, <1>6, <2>1, <2>2, <2>3, OwedKept DEF File, NoteUnsaved
  <2>5. \A c \in Clients : (HasConn(c) => HasConn(c)') /\ ~Switched(c)'
     BY <1>1, <1>5, <2>1 DEF HasConn, IsOpen, Switched, clientVars
  <2> QED BY <1>1, <1>5, <2>1, <2>4, <2>5, <1>3, ServeKeeps DEF Up
<1>11. CASE DaemonLoaded
  <2>1. dpc = "reply" /\ dpc' = "serve" /\ UNCHANGED <<cache, model>> /\ Reply("LOADED", NoPath)
     BY <1>11 DEF DaemonLoaded
  <2>2. /\ Owed' /\ \A c \in Clients : HasConn(c) => HasConn(c)'
     BY <1>2, <2>1, ReplyOwes DEF Path
  <2>3. model = want[d] BY <1>3, <2>1 DEF Talks, Loading
  <2>4. File' BY <1>1, <2>1, <2>3 DEF File, NoteUnsaved
  <2>5. \A c \in Clients : Switched(c)' => model' \in {NoPath, want[c]}
     BY <1>5, <2>1, <2>3
  <2> QED BY <1>1, <1>5, <2>1, <2>2, <2>4, <2>5, <1>3, ServeKeeps DEF Up
<1>12. CASE DaemonStoreDenied
  <2>1. dpc = "open" /\ dpc' = "reply" /\ UNCHANGED <<conns, model, cache, rsp>>
     BY <1>12 DEF DaemonStoreDenied
  <2>2. cache # EmptyCache => unsaved' BY <1>12, <2>1 DEF NoteUnsaved
  <2>3. Owed' /\ File' BY <1>1, <2>1, <2>2, OwedKept DEF File, NoteUnsaved
  <2>4. \A c \in Clients : (HasConn(c) => HasConn(c)') /\ ~Switched(c)'
     BY <1>1, <1>5, <2>1 DEF HasConn, IsOpen, Switched, clientVars
  <2> QED BY <1>1, <1>3, <1>5, <2>1, <2>3, <2>4, ServeKeeps DEF Up
<1> QED BY <1>7, <1>8, <1>9, <1>10, <1>11, <1>12

LEMMA CalmStep ==
  ASSUME "preload" \notin Happens, IInv, Talks, Harmony, Next, Calm, NoteUnsaved, TypeOK'
  PROVE  Harmony'
<1>1. ASSUME NEW c \in Clients, StartRun(c) \/ StartPreload(c) \/ Run(c) \/ Kill(c)
      PROVE  Harmony'
  <2>1. ~StartPreload(c) /\ (Kill(c) => Run(c)) BY DEF StartPreload, Calm
  <2> QED BY <1>1, <2>1, QuietKeeps, RunKeeps
<1>2. CASE Serve BY <1>2, AnswerKeeps, LoadKeeps DEF Serve
<1>3. ~DaemonSigterm BY DEF DaemonSigterm, Calm, Gone
<1>4. ~DaemonCrash
  <2>1. crashes \in Nat BY DEF IInv, TypeOK
  <2> QED BY <2>1 DEF DaemonCrash, Calm
<1>5. ~DaemonStartedAgain BY DEF DaemonStartedAgain, Harmony, Steady, Up
<1> QED BY <1>1, <1>2, <1>3, <1>4, <1>5, StartKeeps DEF Next

LEMMA CalmStarts == Init /\ ~unsaved => Harmony
<1> SUFFICES ASSUME Init, ~unsaved PROVE Harmony
   OBVIOUS
<1>1. Busy = {} BY DEF Init, NoRun, Busy
<1>2. Steady BY <1>1 DEF Init, Steady
<1>3. Owed BY NoConns DEF Init, Owed
<1>4. File BY DEF Init, File, EmptyCache
<1>5. \A c \in Clients : Settled(c) BY DEF Init, NoRun, Settled, Switched, Wire
<1>6. Rewritten BY DEF Rewritten
<1> QED BY <1>2, <1>3, <1>4, <1>5, <1>6 DEF Harmony

\* As long as applications run one at a time beside a daemon that serves,
\* nothing is killed or stopped, and one of the two programs at least can write
\* the path of the model just loaded, every run gets the answers of its own
\* model and the cache file reads the same on both sides: for any models, paths
\* and queue, through failed loads, failed inferences and writes that one side
\* is denied (pipeline_manager.cpp:47-60, tvm_model_daemon.cpp:140-145).
\* Without --preload, which writes the file unasked.
THEOREM AloneIsRight ==
  ASSUME "preload" \notin Happens
  PROVE  CalmSpec => []RightModelAlone
<1>1. Init /\ calm = TRUE /\ unsaved = FALSE => IInv /\ Talks /\ CalmInv
   BY InitInv, InitTalks, CalmStarts DEF CalmInv
<1>2. ASSUME IInv, Talks, CalmInv, [CalmNext]_<<vars, history>>
      PROVE  (IInv /\ Talks /\ CalmInv)'
  <2>1. [Next]_vars BY <1>2 DEF CalmNext
  <2>2. IInv' /\ Talks' BY <1>2, <2>1, NextInv, NextTalks
  <2>3. CASE CalmNext
    <3>1. Next /\ NoteUnsaved /\ (calm' => calm /\ Calm) BY <2>3 DEF CalmNext
    <3>2. TypeOK' BY <2>2 DEF IInv
    <3> QED BY <1>2, <2>2, <2>3, <3>1, <3>2, CalmStep DEF CalmInv
  <2>4. CASE UNCHANGED <<vars, history>>
    <3>1. Harmony => Harmony'
       BY <2>4
       DEF vars, history, Harmony, Steady, Busy, Owed, File, Rewritten, Settled, Switched, HasConn, IsOpen
    <3> QED BY <1>2, <2>2, <2>4, <3>1 DEF CalmInv, history
  <2> QED BY <1>2, <2>3, <2>4
<1>3. ASSUME IInv, CalmInv PROVE RightModelAlone
  <2> SUFFICES ASSUME calm PROVE RightModel /\ CacheReadsTheSame
     BY DEF RightModelAlone
  <2>1. Harmony BY <1>3 DEF CalmInv
  <2>2. RightModel BY <2>1 DEF Harmony, Settled, RightModel
  <2>3. CacheReadsTheSame
    <3> SUFFICES ASSUME cache # EmptyCache PROVE DaemonReads = cache.line
       BY DEF CacheReadsTheSame
    <3>1. cache.line \in Models /\ cache.size = PathLen[cache.line] BY <2>1 DEF Harmony, File
    <3> QED BY <3>1, DaemonAssumption DEF DaemonReads
  <2> QED BY <2>2, <2>3
<1> QED BY <1>1, <1>2, <1>3, PTL DEF CalmSpec

=============================================================================
