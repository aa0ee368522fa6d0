------------------------------ MODULE MCDaemon ------------------------------
(* An instance of Daemon: two services side by side need
   four pids, and a command that runs while another is under way one more. *)
EXTENDS Daemon

MCPids == 1..5
=============================================================================
