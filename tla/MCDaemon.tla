----------------------------- MODULE MCDaemon ------------------------------
(***************************************************************************)
(* Small instances of Daemon for TLC.                                      *)
(***************************************************************************)
EXTENDS Daemon, TLC

CONSTANTS t1, t2    \* targets

Symmetry == Permutations(Targets)

=============================================================================
