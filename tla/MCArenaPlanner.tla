--------------------------- MODULE MCArenaPlanner ---------------------------
(* The packing for TLC: every choice of intervals and sizes of four        *)
(* groups.  The sizes round up to one and to two units of the alignment.   *)
EXTENDS ArenaPlanner

MCRoots == 0..3
MCSizes == {1, 3}
=============================================================================
