--------------------------- MODULE MCModelDaemon ---------------------------
(* Instances of ModelDaemon for TLC. *)
EXTENDS ModelDaemon, TLC

\* The default path is the shortest: its writer leaves the tail of the others.
MCPathLen == [m \in Models |-> IF m = Default THEN 1 ELSE 2]

\* Paths of one length, which no writer of the cache can mix.
MCSameLen == [m \in Models |-> 1]

\* The behaviours in which the daemon is never "not reachable": no application
\* is refused, and the daemon lives until the path it was asked for is stored.
MCAnswered ==
  \A c \in Clients :
    /\ pc[c] = "swConnect" => pc'[c] # "store"
    /\ pc[c] \in {"swPing", "swLoad", "store", "storing"} => crashes' = crashes

MCAnsweredSpec ==
  /\ Init /\ [][Next /\ MCAnswered]_vars
  /\ \A c \in Clients : WF_vars(Run(c))
  /\ WF_vars(Start) /\ WF_vars(Serve)

\* Application processes are interchangeable.
MCSymmetry == Permutations(Clients)

=============================================================================
