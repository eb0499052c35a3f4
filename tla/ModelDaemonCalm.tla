-------------------------- MODULE ModelDaemonCalm --------------------------
(***************************************************************************)
(* ModelDaemon with a note of whether anything has disturbed it so far,    *)
(* and what holds as long as nothing has: the cache file, the model held   *)
(* and the pipelines agree.                                                *)
(***************************************************************************)
EXTENDS ModelDaemon

VARIABLES
  unsaved,  \* the cache file kept an older path through the last load
  calm      \* nothing has disturbed the run of things so far

history == <<unsaved, calm>>

Busy == {c \in Clients : pc[c] # "idle"}

\* The daemon could not write the path of the model it loaded, and no file
\* that was truncated since makes up for it.
NoteUnsaved ==
  unsaved' = ((unsaved \/ DaemonStoreDenied) /\ cache' # EmptyCache)

\* Applications run one at a time, once the daemon serves, none is killed, the
\* daemon neither dies nor is told to stop, and of the two writes of a path,
\* the daemon's and the application's, one at least can open the file.
Calm ==
  /\ \A c, d \in Busy' : c = d
  /\ Busy' = {} \/ dpc' \notin {"down", "boot"}
  /\ crashes' = 0 /\ ~stopping' /\ dpc' # "stopped"
  /\ \A c \in Clients : Kill(c) => Run(c)
  /\ unsaved => \A c \in Clients : ~StoreDenied(c)

CalmNext == Next /\ NoteUnsaved /\ calm' = (calm /\ Calm)

CalmSpec ==
  /\ Init /\ calm = TRUE /\ unsaved = FALSE
  /\ [][CalmNext]_<<vars, history>>

\* While all is calm, a run gets the answers of the model its pipeline names
\* and the two programs read the same in the cache file, however many
\* pipelines, failed loads, failed inferences and denied writes of one side
\* came before.  With both writes denied the file names the older model, and
\* the check of ensure_model_loaded() takes it for the one that is held.
RightModelAlone == calm => RightModel /\ CacheReadsTheSame

----------------------------------------------------------------------------
(* The inductive invariant behind RightModelAlone. *)

Up == {"serve", "open", "write", "reply"}
\* Where a process has a connection.
Wire == {"swPing", "swLoad", "ping", "ready", "infer"}

\* One application, and only beside a daemon that serves.
Steady ==
  /\ \A c, d \in Busy : c = d
  /\ \/ dpc \in Up /\ listening
     \/ dpc \in {"down", "boot"} /\ Busy = {} /\ cache = EmptyCache

\* Nobody leaves while the daemon owes an answer.
Owed == \A i \in DOMAIN conns : conns[i].open \/ conns[i].req.type = "none"

\* Every writer finds the file empty, and the model held, if any, is the one it
\* names, but for a file that the daemon could not write.
File ==
  /\ cache = EmptyCache \/ (cache.line \in Models /\ cache.size = PathLen[cache.line])
  /\ dpc = "write" => cache = EmptyCache
  /\ dpc = "reply" /\ cache # EmptyCache /\ ~unsaved => cache.line = model
  /\ dpc = "serve" /\ cache # EmptyCache /\ ~unsaved => model \in {NoPath, cache.line}

\* Such a file has the application's own write to come.
Rewritten == unsaved => \E c \in Clients : pc[c] \in {"swLoad", "store"}

\* Past the switch, if one was needed.
Switched(c) ==
  \/ pc[c] \in {"store", "storing", "connect", "ping", "ready", "infer"}
  \/ pc[c] = "swLoad" /\ rsp[c].type \in {"LOADED", "ERROR"}

\* No process is cut off, and what it asks is asked of its model, if of any.
Settled(c) ==
  /\ pc[c] \in Wire => HasConn(c)
  /\ pc[c] # "local" /\ (pc[c] = "check" => left[c] > 0)
  /\ pc[c] = "storing" => cache = EmptyCache
  /\ Switched(c) => model \in {NoPath, want[c]}
  /\ seen[c] \subseteq {want[c]}

Harmony == Steady /\ Owed /\ File /\ Rewritten /\ \A c \in Clients : Settled(c)

CalmInv == calm => Harmony

=============================================================================
