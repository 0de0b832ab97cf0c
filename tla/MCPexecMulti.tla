---------------------------- MODULE MCPexecMulti ----------------------------
(***************************************************************************)
(* PexecMulti for TLC.  The values of the constants are in the cfg files;  *)
(* processes and descriptor blocks are model values.  Symmetry is used     *)
(* only by runs of safety properties whose sets of processes (UserStops,   *)
(* MayFail, Daemons, Leavers) are each empty or all of Procs.              *)
(***************************************************************************)
EXTENDS PexecMulti, TLC

Symmetry == Permutations(Procs) \cup Permutations(Slots)
=============================================================================
