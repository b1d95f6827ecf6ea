----------------------------- MODULE MCStartup -----------------------------
(***************************************************************************)
(* Startup for TLC: two processes that share their files.                  *)
(***************************************************************************)
EXTENDS Startup, TLC

CONSTANTS a, b

\* The processes are started on the same files with any command lines.
Symmetry == Permutations(Proc)
=============================================================================
