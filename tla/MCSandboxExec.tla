---------------------------- MODULE MCSandboxExec ----------------------------
(* A small instance of SandboxExec for TLC.                                  *)
EXTENDS SandboxExec, TLC
=============================================================================
