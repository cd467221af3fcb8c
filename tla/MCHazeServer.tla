---------------------------- MODULE MCHazeServer ----------------------------
(* HazeServer on small instances.  HazeServer treats connections alike.    *)
EXTENDS HazeServer, TLC

ConnSymmetry == Permutations(Conns)
=============================================================================
