------------------------- MODULE MCSigchainControl -------------------------
(* Instances of SigchainControl for TLC. *)
EXTENDS SigchainControl

In(mode, faults) == [mode |-> mode, faults |-> faults]

\* The dialogue and one that the GUI gives up, the server that is torn down
\* with what can fail beside it, and the command line with all of it.
MCWorlds == {In("client", {"codec"}),
             In("client", {"codec", "timeout"}),
             In("client", {"signal", "codec", "switch"}),
             In("client", {"signal", "sync"}),
             In("cli", {"signal", "sync", "codec", "switch"})}

\* A command line that is interrupted.
MCInterrupted == {In("cli", {"signal"})}

=============================================================================
