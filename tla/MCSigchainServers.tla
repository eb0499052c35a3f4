------------------------- MODULE MCSigchainServers -------------------------
(* Instances of SigchainServers for TLC. *)
EXTENDS SigchainServers

In(m, n, f) == [mode |-> m, sessions |-> n, faults |-> f]

\* Start-ups and last switches that fail; a GUI that comes back, on a board
\* where servers may be missing; and one that a signal surprises.
MCWorlds == {In("cli", 0, {"start", "signal", "switch"}),
             In("client", 0, {"start", "signal"}),
             In("client", 2, {"late"}),
             In("client", 1, {"late", "socket"}),
             In("client", 1, {"signal", "switch"})}

=============================================================================
