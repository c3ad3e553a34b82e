----------------------------- MODULE MCSession -----------------------------
(***************************************************************************)
(* A first shell from which single commands, nested shells and a shutdown  *)
(* are started.                                                            *)
(***************************************************************************)
EXTENDS Session

(* The boot thread and enough others for a nested shell with a command, or *)
(* for rgen with its helper.                                               *)
MCOsThreads == 0 .. 3

(* A command line of two, one of them rgen with its helper.                *)
MCPipelineOsThreads == 0 .. 4

(* A command line of three, and one more command after it.                 *)
MCManyOsThreads == 0 .. 6
=============================================================================
