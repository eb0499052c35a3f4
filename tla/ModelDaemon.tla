---------------------------- MODULE ModelDaemon ----------------------------
(***************************************************************************)
(* tvm_model_daemon and the rpmsg_inference_example processes that use it: *)
(* one daemon that holds one TVM model and serves one connection at a      *)
(* time, any number of application processes that ask it to load a model   *)
(* and to run inferences, and the model cache file both sides read and     *)
(* write.  Any process can be killed and the daemon restarts.              *)
(***************************************************************************)
EXTENDS Naturals, Sequences

CONSTANTS
  Clients,    \* application processes
  Models,     \* artifact directories that exist
  Loadable,   \* those that load_artifacts() accepts
  Default,    \* DEFAULT_ARTIFACTS and DEFAULT_ARTIFACTS_PATH, the same path
  PathLen,    \* bytes of a path and its newline in the cache file
  NoPath,     \* the empty string, and the absence of a model
  Garbled,    \* what the daemon reads from a cache file with a stale tail
  Backlog,    \* connections the listening socket queues
  Chunks,     \* bound: inferences of one run
  MaxCrashes, \* bound: times the daemon process dies
  Happens     \* which of the optional events below can occur

Event == {"preload", "artifacts", "kill", "crash", "sigterm", "denied", "c7x",
          "failure"}

ASSUME DaemonAssumption ==
  /\ Default \in Models
  /\ Loadable \subseteq Models
  /\ PathLen \in [Models -> Nat \ {0}]
  /\ NoPath \notin Models \cup Clients
  /\ Garbled \notin Models \cup {NoPath}
  /\ Backlog \in Nat \ {0}
  /\ Chunks \in Nat \ {0}
  /\ MaxCrashes \in Nat
  /\ Happens \subseteq Event

VARIABLES
  dpc,        \* where the daemon is
  bootPath,   \* the artifacts it starts with
  model,      \* the model it holds, NoPath when it holds none
  listening,  \* its server socket accepts connections
  stopping,   \* g_running is 0
  accepted,   \* handle_client() runs on the first connection of conns
  conns,      \* connections not yet closed by the daemon, oldest first
  crashes,    \* times it died
  cache,      \* the cache file: its first line and its size
  pc,         \* where each application process is
  want,       \* the artifacts path of its pipeline
  rsp,        \* the answer it has not read yet
  left,       \* inferences its run still makes
  seen        \* the models that answered its run

daemonVars == <<dpc, bootPath, model, listening, stopping, accepted, crashes>>
clientVars == <<pc, want, left, seen>>
vars == <<dpc, bootPath, model, listening, stopping, accepted, conns, crashes,
          cache, pc, want, rsp, left, seen>>

Path == Models \cup {NoPath}
Msg(types) == [type : types, path : Path]
Request == Msg({"none", "PING", "LOAD", "INFER"})
Response == Msg({"none", "PONG", "LOADED", "ERROR", "RESULT"})
Conn == [client : Clients, open : BOOLEAN, req : Request]
CacheFile == [line : Path, size : Nat]

NoMsg == [type |-> "none", path |-> NoPath]
EmptyCache == [line |-> NoPath, size |-> 0]
DaemonPC == {"down", "stopped", "boot", "serve", "open", "write", "reply"}
ClientPC == {"idle", "check", "swConnect", "swPing", "swLoad", "store",
             "storing", "connect", "ping", "ready", "infer", "local"}

----------------------------------------------------------------------------
(* The cache file.  Every writer truncates it and then writes from its own *)
(* offset 0, so a write that follows the write of a longer path leaves the *)
(* tail of that path behind.  The applications read the first line only.   *)

WriteCache(p) ==
  cache' = [line |-> p,
            size |-> IF cache.size > PathLen[p] THEN cache.size ELSE PathLen[p]]

\* Mutant of DaemonReads: no default path behind the cache file.
DaemonReadsNoDefault == IF cache.line = NoPath THEN Garbled ELSE cache.line

\* The daemon takes the whole file for the path, less its last newline.
DaemonReads ==
  IF cache.line = NoPath THEN Default
  ELSE IF cache.size = PathLen[cache.line] THEN cache.line ELSE Garbled

(* Connections. *)

IsOpen(c, i) == conns[i].client = c /\ conns[i].open

\* read() on the socket of c returns 0: the daemon's end is gone and nothing
\* that it wrote is left.
Eof(c) == rsp[c] = NoMsg /\ ~\E i \in DOMAIN conns : IsOpen(c, i)

HasRoom == Len(conns) < IF accepted THEN Backlog + 1 ELSE Backlog

Open(c) ==
  /\ listening /\ HasRoom
  /\ conns' = Append(conns, [client |-> c, open |-> TRUE,
                             req |-> [type |-> "PING", path |-> NoPath]])
  /\ rsp' = [rsp EXCEPT ![c] = NoMsg]

\* close() of the client's end: the daemon still reads what was sent.
Close(c) ==
  /\ conns' = [i \in DOMAIN conns |->
                 IF conns[i].client = c THEN [conns[i] EXCEPT !.open = FALSE]
                 ELSE conns[i]]
  /\ rsp' = [rsp EXCEPT ![c] = NoMsg]

Send(c, type, p) ==
  /\ conns' = [i \in DOMAIN conns |->
                 IF IsOpen(c, i)
                 THEN [conns[i] EXCEPT !.req = [type |-> type, path |-> p]]
                 ELSE conns[i]]
  /\ rsp' = [rsp EXCEPT ![c] = NoMsg]

Go(c, from, to) == pc[c] = from /\ pc' = [pc EXCEPT ![c] = to]

\* The process is over.
End(c) ==
  /\ pc' = [pc EXCEPT ![c] = "idle"]
  /\ want' = [want EXCEPT ![c] = Default]
  /\ left' = [left EXCEPT ![c] = 0]
  /\ seen' = [seen EXCEPT ![c] = {}]

----------------------------------------------------------------------------
(* One application run: ensure_model_loaded(), TvmInferenceClient           *)
(* ::initialize(), the inferences of the pipeline, exit.                    *)

StartRun(c) ==
  /\ Go(c, "idle", "check")
  /\ \E p \in Models, n \in 1..Chunks :
       /\ want' = [want EXCEPT ![c] = p]
       /\ left' = [left EXCEPT ![c] = n]
  /\ UNCHANGED <<daemonVars, conns, cache, rsp, seen>>

\* --preload: a run of the default model that makes no inference, the path
\* and the count of a process that has not started.
StartPreload(c) ==
  /\ "preload" \in Happens
  /\ Go(c, "idle", "check")
  /\ UNCHANGED <<daemonVars, conns, cache, want, rsp, left, seen>>

\* Mutant of CheckCache: "!=" in place of "==".
CheckCacheSwapped(c) ==
  /\ pc[c] = "check"
  /\ ~(cache.line = want[c] /\ left[c] = 0)
  /\ pc' = [pc EXCEPT ![c] = IF cache.line # want[c] THEN "connect"
                            ELSE IF left[c] = 0 THEN "store"
                            ELSE "swConnect"]
  /\ UNCHANGED <<daemonVars, conns, cache, want, rsp, left, seen>>

\* A cached path that matches skips the reload; --preload then ends at once,
\* and otherwise writes the cache without asking the daemon for anything.
CheckCache(c) ==
  /\ pc[c] = "check"
  /\ ~(cache.line = want[c] /\ left[c] = 0)
  /\ pc' = [pc EXCEPT ![c] = IF cache.line = want[c] THEN "connect"
                            ELSE IF left[c] = 0 THEN "store"
                            ELSE "swConnect"]
  /\ UNCHANGED <<daemonVars, conns, cache, want, rsp, left, seen>>

PreloadDone(c) ==
  /\ pc[c] = "check" /\ cache.line = want[c] /\ left[c] = 0
  /\ End(c)
  /\ UNCHANGED <<daemonVars, conns, cache, rsp>>

\* switch_model(): connect and PING.
SwitchConnect(c) ==
  /\ Open(c)
  /\ Go(c, "swConnect", "swPing")
  /\ UNCHANGED <<daemonVars, cache, want, left, seen>>

SwitchRefused(c) ==
  /\ ~listening
  /\ Go(c, "swConnect", "store")
  /\ UNCHANGED <<daemonVars, conns, cache, want, rsp, left, seen>>

SwitchSend(c) ==
  /\ Go(c, "swPing", "swLoad")
  /\ rsp[c].type = "PONG"
  /\ Send(c, "LOAD", want[c])
  /\ UNCHANGED <<daemonVars, cache, want, left, seen>>

\* Mutant of SwitchReturn: the connection is not closed.
SwitchReturnLeaking(c) ==
  /\ \/ pc[c] = "swLoad" /\ rsp[c].type \in {"LOADED", "ERROR"}
     \/ pc[c] \in {"swPing", "swLoad"} /\ Eof(c)
  /\ pc' = [pc EXCEPT ![c] = "store"]
  /\ rsp' = [rsp EXCEPT ![c] = NoMsg]
  /\ UNCHANGED <<daemonVars, conns, cache, want, left, seen>>

\* switch_model() returns, and whatever it returns the path goes to the cache.
SwitchReturn(c) ==
  /\ \/ pc[c] = "swLoad" /\ rsp[c].type \in {"LOADED", "ERROR"}
     \/ pc[c] \in {"swPing", "swLoad"} /\ Eof(c)
  /\ pc' = [pc EXCEPT ![c] = "store"]
  /\ Close(c)
  /\ UNCHANGED <<daemonVars, cache, want, left, seen>>

\* PipelineManager::write_model_cache(): open with trunc, then write.
StoreOpen(c) ==
  /\ Go(c, "store", "storing")
  /\ cache' = EmptyCache
  /\ UNCHANGED <<daemonVars, conns, want, rsp, left, seen>>

\* Only a warning.
StoreDenied(c) ==
  /\ "denied" \in Happens
  /\ Go(c, "store", "connect")
  /\ UNCHANGED <<daemonVars, conns, cache, want, rsp, left, seen>>

StoreWrite(c) ==
  /\ Go(c, "storing", "connect")
  /\ WriteCache(want[c])
  /\ UNCHANGED <<daemonVars, conns, want, rsp, left, seen>>

\* initialize(): try_daemon_connect(), and without a daemon load_artifacts().
Connect(c) ==
  /\ Open(c)
  /\ Go(c, "connect", "ping")
  /\ UNCHANGED <<daemonVars, cache, want, left, seen>>

Connected(c) ==
  /\ Go(c, "ping", "ready")
  /\ rsp[c].type = "PONG"
  /\ rsp' = [rsp EXCEPT ![c] = NoMsg]
  /\ UNCHANGED <<daemonVars, conns, cache, want, left, seen>>

NoDaemon(c) == (pc[c] = "connect" /\ ~listening) \/ (pc[c] = "ping" /\ Eof(c))

InitLocally(c) ==
  /\ NoDaemon(c) /\ want[c] \in Loadable
  /\ pc' = [pc EXCEPT ![c] = "local"]
  /\ Close(c)
  /\ UNCHANGED <<daemonVars, cache, want, left, seen>>

InitFails(c) ==
  /\ NoDaemon(c) /\ want[c] \notin Loadable
  /\ End(c)
  /\ Close(c)
  /\ UNCHANGED <<daemonVars, cache>>

Infer(c) ==
  /\ left[c] > 0
  /\ Go(c, "ready", "infer")
  /\ Send(c, "INFER", NoPath)
  /\ UNCHANGED <<daemonVars, cache, want, left, seen>>

Answered(c) ==
  /\ Go(c, "infer", "ready")
  /\ rsp[c].type = "RESULT"
  /\ seen' = [seen EXCEPT ![c] = @ \cup {rsp[c].path}]
  /\ left' = [left EXCEPT ![c] = @ - 1]
  /\ rsp' = [rsp EXCEPT ![c] = NoMsg]
  /\ UNCHANGED <<daemonVars, conns, cache, want>>

\* A failed inference ends every pipeline.
InferFailed(c) ==
  /\ \/ pc[c] = "infer" /\ (rsp[c].type = "ERROR" \/ Eof(c))
     \/ pc[c] = "local" /\ left[c] > 0 /\ "failure" \in Happens
  /\ End(c)
  /\ Close(c)
  /\ UNCHANGED <<daemonVars, cache>>

InferLocally(c) ==
  /\ pc[c] = "local" /\ left[c] > 0
  /\ seen' = [seen EXCEPT ![c] = @ \cup {want[c]}]
  /\ left' = [left EXCEPT ![c] = @ - 1]
  /\ UNCHANGED <<daemonVars, conns, cache, pc, want, rsp>>

Exit(c) ==
  /\ pc[c] \in {"ready", "local"} /\ left[c] = 0
  /\ End(c)
  /\ Close(c)
  /\ UNCHANGED <<daemonVars, cache>>

\* SIGINT and SIGTERM call _Exit(); SIGPIPE kills.
Kill(c) ==
  /\ "kill" \in Happens
  /\ pc[c] # "idle"
  /\ End(c)
  /\ Close(c)
  /\ UNCHANGED <<daemonVars, cache>>

----------------------------------------------------------------------------
(* The daemon. *)

\* Priority: --artifacts, the cache file, the default.
DaemonBoot ==
  /\ dpc = "down"
  /\ dpc' = "boot"
  /\ \/ bootPath' = DaemonReads
     \/ "artifacts" \in Happens /\ bootPath' \in Models
  /\ UNCHANGED <<model, listening, stopping, accepted, crashes,
                 conns, cache, rsp, clientVars>>

\* Mutant of DaemonListen: the result of initialize() is not looked at.
DaemonListenAnyway ==
  /\ dpc = "boot"
  /\ dpc' = "serve"
  /\ model' = bootPath
  /\ bootPath' = Default
  /\ listening' = TRUE
  /\ UNCHANGED <<stopping, accepted, crashes,
                 conns, cache, rsp, clientVars>>

\* initialize() of the boot model, then bind and listen; a failure exits.
DaemonListen ==
  /\ dpc = "boot"
  /\ bootPath \in Loadable
  /\ dpc' = "serve"
  /\ model' = bootPath
  /\ bootPath' = Default
  /\ listening' = TRUE
  /\ UNCHANGED <<stopping, accepted, crashes,
                 conns, cache, rsp, clientVars>>

DaemonBootFails ==
  /\ dpc = "boot"
  /\ bootPath \notin Loadable \/ "c7x" \in Happens
  /\ dpc' = "down"
  /\ bootPath' = Default
  /\ UNCHANGED <<model, listening, stopping, accepted, crashes,
                 conns, cache, rsp, clientVars>>

DaemonAccept ==
  /\ dpc = "serve" /\ listening /\ ~accepted /\ conns # <<>>
  /\ accepted' = TRUE
  /\ UNCHANGED <<dpc, bootPath, model, listening, stopping, crashes,
                 conns, cache, rsp, clientVars>>

\* handle_client() has read a request of this type from the first connection.
Serving(type) == dpc = "serve" /\ accepted /\ Head(conns).req.type = type

\* Mutant of Reply: the answer reaches the client whether or not the
\* connection it asked on is still open.
ReplyBlind(type, p) ==
  /\ conns' = [conns EXCEPT ![1].req = NoMsg]
  /\ rsp' = [rsp EXCEPT ![Head(conns).client] = [type |-> type, path |-> p]]

\* The request is consumed; the answer reaches a client that still listens.
Reply(type, p) ==
  /\ conns' = [conns EXCEPT ![1].req = NoMsg]
  /\ rsp' = IF Head(conns).open
            THEN [rsp EXCEPT ![Head(conns).client] = [type |-> type, path |-> p]]
            ELSE rsp

DaemonPing ==
  /\ Serving("PING")
  /\ Reply("PONG", NoPath)
  /\ UNCHANGED <<daemonVars, cache, clientVars>>

\* initialize(new_path) drops the model it holds before it loads the new one.
DaemonLoad ==
  /\ Serving("LOAD")
  /\ Head(conns).req.path \in Loadable
  /\ model' = Head(conns).req.path
  /\ dpc' = "open"
  /\ UNCHANGED <<bootPath, listening, stopping, accepted, crashes,
                 conns, cache, rsp, clientVars>>

\* Mutant of DaemonLoadFails: the failure is confirmed as a success.
DaemonLoadFailsQuietly ==
  /\ Serving("LOAD")
  /\ Head(conns).req.path \notin Loadable
  /\ model' = NoPath
  /\ Reply("LOADED", NoPath)
  /\ UNCHANGED <<dpc, bootPath, listening, stopping, accepted, crashes,
                 cache, clientVars>>

DaemonLoadFails ==
  /\ Serving("LOAD")
  /\ Head(conns).req.path \notin Loadable
  /\ model' = NoPath
  /\ Reply("ERROR", NoPath)
  /\ UNCHANGED <<dpc, bootPath, listening, stopping, accepted, crashes,
                 cache, clientVars>>

DaemonStoreOpen ==
  /\ dpc = "open"
  /\ dpc' = "write"
  /\ cache' = EmptyCache
  /\ UNCHANGED <<bootPath, model, listening, stopping, accepted, crashes,
                 conns, rsp, clientVars>>

\* write_model_cache() cannot open the file: it logs and the file stays.
DaemonStoreDenied ==
  /\ "denied" \in Happens
  /\ dpc = "open"
  /\ dpc' = "reply"
  /\ UNCHANGED <<bootPath, model, listening, stopping, accepted, crashes,
                 conns, cache, rsp, clientVars>>

DaemonStoreWrite ==
  /\ dpc = "write"
  /\ dpc' = "reply"
  /\ WriteCache(Head(conns).req.path)
  /\ UNCHANGED <<bootPath, model, listening, stopping, accepted, crashes,
                 conns, rsp, clientVars>>

DaemonLoaded ==
  /\ dpc = "reply"
  /\ dpc' = "serve"
  /\ Reply("LOADED", NoPath)
  /\ UNCHANGED <<bootPath, model, listening, stopping, accepted, crashes,
                 cache, clientVars>>

\* Mutant of DaemonInfer: after each answer the connections take turns.
DaemonInferInTurns ==
  /\ Serving("INFER") /\ model # NoPath
  /\ conns' = Append(Tail(conns), [Head(conns) EXCEPT !.req = NoMsg])
  /\ rsp' = IF Head(conns).open
            THEN [rsp EXCEPT ![Head(conns).client] = [type |-> "RESULT", path |-> model]]
            ELSE rsp
  /\ UNCHANGED <<daemonVars, cache, clientVars>>

\* run_inference() of the model held, which may fail, or of none.
DaemonInfer ==
  /\ Serving("INFER")
  /\ \/ model # NoPath /\ Reply("RESULT", model)
     \/ (model = NoPath \/ "failure" \in Happens) /\ Reply("ERROR", NoPath)
  /\ UNCHANGED <<daemonVars, cache, clientVars>>

\* What a dead daemon leaves: the kernel closes its sockets.
Gone ==
  /\ bootPath' = Default
  /\ model' = NoPath
  /\ listening' = FALSE
  /\ stopping' = FALSE
  /\ accepted' = FALSE
  /\ conns' = <<>>

\* Mutant of DaemonHangup: the default model is loaded between connections.
DaemonHangupReloads ==
  /\ Serving("none") /\ ~Head(conns).open /\ ~stopping
  /\ conns' = Tail(conns)
  /\ accepted' = FALSE
  /\ model' = Default
  /\ UNCHANGED <<dpc, bootPath, listening, stopping, crashes, cache, rsp, clientVars>>

\* read_all() fails on a connection the client closed; g_running is looked at
\* only now, and main() returns 0.
DaemonHangup ==
  /\ Serving("none") /\ ~Head(conns).open
  /\ IF stopping THEN dpc' = "stopped" /\ Gone
     ELSE /\ conns' = Tail(conns)
          /\ accepted' = FALSE
          /\ UNCHANGED <<dpc, bootPath, model, listening, stopping>>
  /\ UNCHANGED <<crashes, cache, rsp, clientVars>>

\* signal_handler() closes the server socket: what is queued is lost, the
\* connection being served is not.
DaemonSigterm ==
  /\ "sigterm" \in Happens
  /\ dpc \in {"serve", "open", "write", "reply"} /\ ~stopping
  /\ IF accepted
     THEN /\ stopping' = TRUE
          /\ listening' = FALSE
          /\ conns' = <<Head(conns)>>
          /\ UNCHANGED <<dpc, bootPath, model, accepted>>
     ELSE dpc' = "stopped" /\ Gone
  /\ UNCHANGED <<crashes, cache, rsp, clientVars>>

DaemonCrash ==
  /\ "crash" \in Happens
  /\ dpc \notin {"down", "stopped"} /\ crashes < MaxCrashes
  /\ crashes' = crashes + 1
  /\ dpc' = "down"
  /\ Gone
  /\ UNCHANGED <<cache, rsp, clientVars>>

\* Restart=on-failure leaves a daemon that exited with 0 as it is: somebody
\* starts it again, or the board boots.
DaemonStartedAgain ==
  /\ dpc = "stopped"
  /\ dpc' = "down"
  /\ UNCHANGED <<bootPath, model, listening, stopping, accepted, crashes,
                 conns, cache, rsp, clientVars>>

----------------------------------------------------------------------------
NoRun ==
  /\ pc = [c \in Clients |-> "idle"]
  /\ want = [c \in Clients |-> Default]
  /\ rsp = [c \in Clients |-> NoMsg]
  /\ left = [c \in Clients |-> 0]
  /\ seen = [c \in Clients |-> {}]

Init ==
  /\ dpc = "down" /\ bootPath = Default /\ model = NoPath
  /\ listening = FALSE /\ stopping = FALSE /\ accepted = FALSE
  /\ conns = <<>> /\ crashes = 0
  /\ cache = EmptyCache
  /\ NoRun

Run(c) ==
  \/ CheckCache(c) \/ PreloadDone(c) \/ SwitchConnect(c) \/ SwitchRefused(c)
  \/ SwitchSend(c) \/ SwitchReturn(c)
  \/ StoreOpen(c) \/ StoreDenied(c) \/ StoreWrite(c)
  \/ Connect(c) \/ Connected(c) \/ InitLocally(c) \/ InitFails(c)
  \/ Infer(c) \/ Answered(c) \/ InferFailed(c) \/ InferLocally(c) \/ Exit(c)

Serve ==
  \/ DaemonAccept \/ DaemonPing \/ DaemonLoad \/ DaemonLoadFails
  \/ DaemonStoreOpen \/ DaemonStoreDenied \/ DaemonStoreWrite
  \/ DaemonLoaded \/ DaemonInfer \/ DaemonHangup

Start == DaemonBoot \/ DaemonListen \/ DaemonBootFails

Next ==
  \/ \E c \in Clients : StartRun(c) \/ StartPreload(c) \/ Run(c) \/ Kill(c)
  \/ Start \/ Serve \/ DaemonSigterm \/ DaemonCrash \/ DaemonStartedAgain

Spec == Init /\ [][Next]_vars

\* Processes that run keep running, and systemd starts a daemon that failed
\* again (Restart=on-failure, RestartSec=5).
FairSpec ==
  /\ Spec
  /\ \A c \in Clients : WF_vars(Run(c))
  /\ WF_vars(Start) /\ WF_vars(Serve)

----------------------------------------------------------------------------
TypeOK ==
  /\ dpc \in DaemonPC
  /\ bootPath \in Models \cup {Garbled}
  /\ model \in Loadable \cup {NoPath}
  /\ listening \in BOOLEAN /\ stopping \in BOOLEAN /\ accepted \in BOOLEAN
  /\ conns \in Seq(Conn)
  /\ crashes \in Nat
  /\ cache \in CacheFile
  /\ pc \in [Clients -> ClientPC]
  /\ want \in [Clients -> Models]
  /\ rsp \in [Clients -> Response]
  /\ left \in [Clients -> Nat]
  /\ seen \in [Clients -> SUBSET Models]

\* The one request, or the one answer, in flight is of the exchange the client
\* is in: the answer to a request of a dead run never reaches the next run of
\* that process, and a reader never waits for an answer that cannot come
\* (exchange of tvm_daemon_proto.h; the clients read a fixed header each time).
Exchange(c) ==
  LET asked == {conns[i].req.type : i \in {j \in DOMAIN conns : IsOpen(c, j)}}
      fits(q, r) == /\ asked = {q} => rsp[c].type = "none"
                    /\ asked \subseteq {q, "none"}
                    /\ rsp[c].type \in r \cup {"none"}
  IN CASE pc[c] \in {"swPing", "ping"} -> fits("PING", {"PONG"})
       [] pc[c] = "swLoad"             -> fits("LOAD", {"LOADED", "ERROR"})
       [] pc[c] = "ready"              -> fits("none", {})
       [] pc[c] = "infer"              -> fits("INFER", {"RESULT", "ERROR"})
       [] OTHER                        -> asked = {} /\ rsp[c] = NoMsg

Lockstep == \A c \in Clients : Exchange(c)

\* All the chunks of one run are answered by one model, although any process
\* may send LOAD_MODEL at any time, the daemon may die in the middle of the run
\* and a run may fall back to its own model: handle_client() keeps the
\* connection, and with it the model, until the run is over.
OneModelPerRun ==
  \A c \in Clients : \A m1, m2 \in seen[c] : m1 = m2

\* switch_model() "returns true when the daemon confirms the new model is
\* loaded" (tvm_inference_client.h:64): as long as the connection that asked
\* is served, the model confirmed is the model held.
ConfirmedIsResident ==
  \A c \in Clients :
    (/\ rsp[c].type = "LOADED"
     /\ accepted /\ IsOpen(c, 1)) => model = want[c]

\* A run gets the answers of the model its pipeline names, whatever ran before:
\* the cache check of ensure_model_loaded() never skips a reload that is
\* needed.  The code keeps this only where nothing disturbs it.
RightModel == \A c \in Clients : seen[c] \subseteq {want[c]}

\* The daemon implements ModelService: the served connection is the session.
Service == INSTANCE ModelService WITH
  None <- NoPath,
  resident <- model,
  holder <- IF accepted THEN Head(conns).client ELSE NoPath,
  answer <- [c \in Clients |->
               IF rsp[c].type = "RESULT" THEN rsp[c].path ELSE NoPath]

\* Whatever is killed, crashes or queues, the daemon is a ModelService.
Implements == Service!SSpec

\* Every exchange ends: a process that has connected gets its answer or an
\* end of file, in spite of the queue before it.
ExchangesEnd ==
  \A c \in Clients :
    pc[c] \in {"swPing", "swLoad", "ping", "infer"} ~>
      pc[c] \notin {"swPing", "swLoad", "ping", "infer"}

\* After it dies, the daemon serves again (Restart=on-failure of
\* tvm-model-daemon.service), whatever the crash left in the cache file.
ComesBack == (dpc = "down") ~> (dpc = "serve")

\* With paths of one length, which no writer can mix, only a path that names a
\* model that does not load keeps the daemon down: one that is down serves
\* again or boots from such a path, and never from the remains of a write.
ComesBackOrBroken ==
  (dpc = "down") ~>
    (dpc = "serve" \/ (dpc = "boot" /\ bootPath \in Models \ Loadable))

----------------------------------------------------------------------------
(* The inductive invariant behind OneModelPerRun. *)

InSession(c) == pc[c] \in {"ready", "infer"}

HasConn(c) == \E i \in DOMAIN conns : IsOpen(c, i)

\* Where a connection can be when the daemon is in each of its places.
DaemonShape ==
  /\ dpc \in {"down", "stopped", "boot"} =>
       /\ model = NoPath /\ ~listening /\ ~accepted /\ ~stopping
       /\ DOMAIN conns = {}
  /\ accepted => 1 \in DOMAIN conns
  /\ dpc \in {"open", "write", "reply"} =>
       accepted /\ conns[1].req.type = "LOAD"
  /\ \A i \in DOMAIN conns :
       conns[i].req.type = "LOAD" => conns[i].req.path \in Models

\* A process has one open connection at most, and only while it uses it.
OneConn(c) ==
  \A i, j \in DOMAIN conns :
    IsOpen(c, i) =>
      /\ pc[c] \in {"swPing", "swLoad", "ping", "ready", "infer"}
      /\ IsOpen(c, j) => i = j

\* A process whose PING was answered holds the daemon, and while it infers no
\* request of its own can change the model.
Holds(c) ==
  \A i \in DOMAIN conns :
    IsOpen(c, i) =>
      /\ pc[c] = "ping" => conns[i].req.type \in {"none", "PING"}
      /\ InSession(c) \/ (pc[c] = "ping" /\ rsp[c].type = "PONG") =>
           i = 1 /\ accepted /\ conns[i].req.type \in {"none", "INFER"}

\* What a run has seen is what it is going to see.
SeenSame(c) ==
  /\ ~InSession(c) /\ pc[c] # "local" => seen[c] = {}
  /\ pc[c] = "local" => seen[c] \subseteq {want[c]}
  /\ InSession(c) /\ HasConn(c) => seen[c] \subseteq {model}
  /\ pc[c] = "infer" /\ rsp[c].type = "RESULT" =>
       /\ seen[c] \subseteq {rsp[c].path} /\ rsp[c].path \in Models
       /\ HasConn(c) => rsp[c].path = model
  /\ \A m1, m2 \in seen[c] : m1 = m2

\* A process asks only for inferences it still has to make.
Counting(c) == pc[c] = "infer" => left[c] > 0

ClientInv(c) == OneConn(c) /\ Holds(c) /\ SeenSame(c) /\ Counting(c)

IInv == TypeOK /\ DaemonShape /\ \A c \in Clients : ClientInv(c)

----------------------------------------------------------------------------
\* "Cache updated by the daemon; mirror it here for consistency"
\* (pipeline_manager.cpp:56): a complete cache file reads the same to both
\* programs.  Applications that run one at a time keep it so, because the
\* daemon truncates the file before it writes a shorter path over a longer one.
CacheReadsTheSame ==
  (/\ \A c \in Clients : pc[c] # "storing"
   /\ dpc # "write"
   /\ cache # EmptyCache) => DaemonReads = cache.line

=============================================================================
