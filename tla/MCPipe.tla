------------------------------- MODULE MCPipe -------------------------------
(***************************************************************************)
(* A pipe of two bytes and a writer of five in two calls: one more than    *)
(* type's buffer and the pipe hold together, as happens to every program   *)
(* that writes more than 8192 bytes.                                       *)
(***************************************************************************)
EXTENDS Pipe

MCWrites == <<1, 4>>
=============================================================================
