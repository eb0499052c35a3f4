------------------------ MODULE MCModelDaemonCalm ------------------------
(* Instances of ModelDaemonCalm for TLC. *)
EXTENDS ModelDaemonCalm, MCModelDaemon

=============================================================================
